-------------------------------- MODULE AbSplit --------------------------------
(***************************************************************************)
(* A/B splitting: AbSplitRouter (absplit.rs) and the use select_upstream   *)
(* makes of it (handler.rs).  The sticky table is one map from session     *)
(* to group name, shared by the splits of a router; resolve looks a        *)
(* session up and pins it in two separate critical sections, so requests   *)
(* race between them.  A reload builds a new router with an empty table;   *)
(* requests that hold the old handler go on with theirs.                   *)
(***************************************************************************)
EXTENDS Integers, Sequences, FiniteSets

CONSTANTS Reqs, Sessions, Splits,
          Sticky,       \* the splits with sticky = true
          Groups,       \* per router generation and split: its groups, in order
          Hash,         \* hash_session of a session and a split, as a u32
          MaxSessions,  \* MAX_STICKY_SESSIONS
          MaxReloads,   \* bound: reloads
          NoGroup       \* resolve's None

Routers == 0 .. MaxReloads

ASSUME SplitAssumption ==
    /\ Sticky \subseteq Splits /\ IsFiniteSet(Sessions)
    /\ MaxReloads \in Nat /\ MaxSessions \in Nat \ {0}
    /\ \A s \in Sessions, d \in Splits : Hash[s][d] \in Nat
    /\ \A r \in Routers, d \in Splits :
           /\ Len(Groups[r][d]) \in Nat
           /\ \A i \in 1 .. Len(Groups[r][d]) :
                  Groups[r][d][i].weight \in Nat /\ Groups[r][d][i].name # NoGroup

VARIABLES
    router,    \* the generation of the current router
    table,     \* sticky_sessions of each router: a name, or NoGroup
    spc, job,   \* where a request is; its router, split and session
    group      \* what resolve returned

splitVars == <<router, table, spc, job, group>>

Jobs == [router : Routers, split : Splits, session : Sessions]
GroupNames == UNION {{Groups[r][d][i].name : i \in 1 .. Len(Groups[r][d])} : r \in Routers, d \in Splits}

\* The running sum over the weights of a split.
Cumulative(gs) == LET c[i \in 0 .. Len(gs)] == IF i = 0 THEN 0 ELSE c[i - 1] + gs[i].weight IN c
total_weight(gs) == Cumulative(gs)[Len(gs)]

\* The group a point falls into: the first whose running sum exceeds it.
GroupAt(gs, point) ==
    LET c == Cumulative(gs)
        i == CHOOSE i \in 1 .. Len(gs) : c[i - 1] <= point /\ point < c[i]
    IN gs[i].name

\* What resolve computes when it finds no pin (NoGroup: the weights are all 0).
Assigned(j) ==
    LET gs == Groups[j.router][j.split] IN
    IF total_weight(gs) = 0 THEN NoGroup
    ELSE GroupAt(gs, Hash[j.session][j.split] % total_weight(gs))

Pinned(r) == {s \in Sessions : table[r][s] # NoGroup}

SplitInit ==
    /\ router = 0
    /\ table = [r \in Routers |-> [s \in Sessions |-> NoGroup]]
    /\ spc = [q \in Reqs |-> "idle"]
    /\ job \in {[q \in Reqs |-> j] : j \in Jobs}
    /\ group = [q \in Reqs |-> NoGroup]

Ask(q, j) ==
    /\ spc[q] \in {"idle", "routed"} /\ j.router <= router
    /\ job' = [job EXCEPT ![q] = j]
    /\ spc' = [spc EXCEPT ![q] = "lookup"]
    /\ UNCHANGED <<router, table, group>>

Answer(q, name) ==
    /\ group' = [group EXCEPT ![q] = name]
    /\ spc' = [spc EXCEPT ![q] = "routed"]

\* resolve, first critical section: only a sticky split consults the table.
PinHit(q) ==
    LET name == table[job[q].router][job[q].session] IN
    /\ spc[q] = "lookup" /\ job[q].split \in Sticky /\ name # NoGroup
    /\ Answer(q, name)
    /\ UNCHANGED <<router, table, job>>

PinMiss(q) ==
    /\ spc[q] = "lookup"
    /\ job[q].split \in Sticky => table[job[q].router][job[q].session] = NoGroup
    /\ spc' = [spc EXCEPT ![q] = "assign"]
    /\ UNCHANGED <<router, table, job, group>>

\* Wrong on purpose: a full table is not cleared.
PinUnbounded(r, s, name) == table' = [table EXCEPT ![r][s] = name]

\* resolve, second critical section: a full table is cleared before the insert.
Pin(r, s, name) ==
    LET kept == IF Cardinality(Pinned(r)) >= MaxSessions
                THEN [t \in Sessions |-> NoGroup] ELSE table[r]
    IN table' = [table EXCEPT ![r] = [kept EXCEPT ![s] = name]]

\* Wrong on purpose: the pin goes to the current router, not the request's own.
AssignElsewhere(q) ==
    LET j == job[q] IN
    /\ spc[q] = "assign"
    /\ IF j.split \in Sticky /\ Assigned(j) # NoGroup
       THEN Pin(router, j.session, Assigned(j)) ELSE UNCHANGED table
    /\ Answer(q, Assigned(j))
    /\ UNCHANGED <<router, job>>

Assign(q) ==
    LET j == job[q] IN
    /\ spc[q] = "assign"
    /\ IF j.split \in Sticky /\ Assigned(j) # NoGroup
       THEN Pin(j.router, j.session, Assigned(j)) ELSE UNCHANGED table
    /\ Answer(q, Assigned(j))
    /\ UNCHANGED <<router, job>>

\* A reload: a new handler, hence a new AbSplitRouter.
Reload ==
    /\ router < MaxReloads
    /\ router' = router + 1
    /\ UNCHANGED <<table, spc, job, group>>

SplitNext == Reload \/ \E q \in Reqs : \/ \E j \in Jobs : Ask(q, j)
                                      \/ PinHit(q) \/ PinMiss(q) \/ Assign(q)

SplitSpec == SplitInit /\ [][SplitNext]_splitVars
-------------------------------------------------------------------------------
(* The table of a router never holds more than MAX_STICKY_SESSIONS sessions,
   although the check for room and the lookup that led to it are apart. *)
TableBounded == \A r \in Routers : Cardinality(Pinned(r)) <= MaxSessions

\* The splits whose assignment a request may meet: its own and, through the table the
\* sticky ones share, theirs.
Sharing(d) == IF d \in Sticky THEN Sticky ELSE {d}

(* Whatever the interleaving, with any number of sticky splits: a session is only ever sent
   to a group that its own hash and the weights of the request's own router assign it, in
   the split it asked for or in one that shares the pins.  Racing first requests, a
   table cleared under them and requests that outlive a reload on their old router never
   mix up sessions or routers. *)
OwnAssignment ==
    \A q \in Reqs : spc[q] = "routed" =>
        \E d \in Sharing(job[q].split) : group[q] = Assigned([job[q] EXCEPT !.split = d])

(* absplit.rs:6-7: "with `sticky = true`, a given session identifier always lands in the
   same group for the life of the process", which lines 12-13 repeat for weights that are
   reconfigured. *)
StickyForLife ==
    \A p, q \in Reqs :
        (/\ spc[p] = "routed" /\ spc[q] = "routed" /\ job[p].split \in Sticky
         /\ job[p].split = job[q].split /\ job[p].session = job[q].session) => group[p] = group[q]
===============================================================================
