----------------------------- MODULE StartupProofs -----------------------------
(***************************************************************************)
(* Proofs about Startup, for any number of processes, any configurations,  *)
(* files and accounts.  That two processes do not both accept follows from *)
(* facts that are inductive only together: sockets of two processes never  *)
(* collide, and a process past binding holds a socket for every TCP        *)
(* listener of its snapshot whose loop is not over.  Which loops are over  *)
(* depends on the snapshot and the credentials only, and these are the     *)
(* same in both processes.                                                 *)
(* What validate promises is used twice: for the pools of locations and    *)
(* for the addresses of listeners.                                         *)
(***************************************************************************)
EXTENDS Startup, WellFoundedInduction, TLAPS

Late == {"spawn", "issue", "join", "handling"}
Phases == {"off", "main", "test", "bind"} \cup Late
Creds == [uid : Nat, gid : Nat, groups : SUBSET Nat]
Tcp(l) == Known(l) /\ ~IsQuic(l)

Types ==
    /\ boot \in Boots /\ ppc \in [Procs -> Phases] /\ cred \in [Procs -> Creds]
    /\ next \in [Procs -> Nat \ {0}]
    /\ DOMAIN socks = Procs /\ DOMAIN loops = Procs /\ DOMAIN snapshot = Procs
    /\ \A p \in Procs : ppc[p] \in Late \cup {"bind"} => snapshot[p] \in DOMAIN Configs

\* A process holds sockets of its snapshot, bound where listen_addr says.
OwnSockets(p) ==
    \A k \in DOMAIN socks[p] :
        k \in DOMAIN Listeners[snapshot[p]] /\ socks[p][k] = listen_addr(Listeners[snapshot[p]][k].listen)

\* The loop has given its socket back.
Over(p, k) == k \in DOMAIN loops[p] /\ loops[p][k] = "ended"

\* Every TCP listener that has had its turn has its socket, or its loop is over.
HasSockets(p) ==
    \A k \in DOMAIN Listeners[snapshot[p]] :
        (Tcp(Listeners[snapshot[p]][k]) /\ (ppc[p] \in Late \/ (ppc[p] = "bind" /\ k \in 1 .. next[p] - 1)))
            => k \in DOMAIN socks[p] \/ Over(p, k)

LoopsLate(p) ==
    /\ ppc[p] \in {"off", "main", "test", "bind", "spawn"} => loops[p] = Nowhere
    /\ DOMAIN loops[p] \subseteq DOMAIN Listeners[snapshot[p]]

Apart(p, q) ==
    \A k \in DOMAIN socks[p], j \in DOMAIN socks[q] :
        ~Collide(Listeners[snapshot[p]][k], socks[p][k], Listeners[snapshot[q]][j], socks[q][j])

Empty(p) == ppc[p] \in {"off", "main", "test"} => socks[p] = Nowhere /\ next[p] = 1

SInv ==
    /\ Types
    /\ \A p \in Procs : OwnSockets(p) /\ HasSockets(p) /\ LoopsLate(p) /\ Empty(p)
    /\ \A p, q \in Procs : p # q => Apart(p, q)

\* No function without arguments has a socket in it.
LEMMA NowhereEmpty == DOMAIN Nowhere = {}
  BY DEF Nowhere

LEMMA CollideSymmetric ==
    ASSUME NEW k, NEW a, NEW j, NEW b, Collide(k, a, j, b)
    PROVE  Collide(j, b, k, a)
  BY DEF Collide

LEMMA InitSInv == Init => SInv
<1> SUFFICES ASSUME Init PROVE SInv
  OBVIOUS
<1>1. Types
  BY StartupAssumption DEF Init, Types, Phases, Late, Creds
<1>2. \A p \in Procs : OwnSockets(p) /\ HasSockets(p) /\ LoopsLate(p) /\ Empty(p)
  BY NowhereEmpty DEF Init, OwnSockets, HasSockets, LoopsLate, Empty, Late
<1>3. \A p, q \in Procs : p # q => Apart(p, q)
  BY NowhereEmpty DEF Init, Apart
<1> QED
  BY <1>1, <1>2, <1>3 DEF SInv

\* The parts of the state of one process that SInv speaks about.
Other(q) == /\ ppc'[q] = ppc[q] /\ next'[q] = next[q] /\ snapshot'[q] = snapshot[q]
            /\ socks'[q] = socks[q] /\ loops'[q] = loops[q]

\* A step of one process has to be looked at for this process only.
LEMMA OneProcess ==
    ASSUME SInv, NEW p \in Procs, Types', \A q \in Procs \ {p} : Other(q),
           OwnSockets(p)', HasSockets(p)', LoopsLate(p)', Empty(p)',
           \A q \in Procs \ {p} : Apart(p, q)'
    PROVE  SInv'
<1>1. \A q \in Procs : OwnSockets(q)' /\ HasSockets(q)' /\ LoopsLate(q)' /\ Empty(q)'
  <2> SUFFICES ASSUME NEW q \in Procs \ {p}
               PROVE  OwnSockets(q)' /\ HasSockets(q)' /\ LoopsLate(q)' /\ Empty(q)'
    OBVIOUS
  <2>1. OwnSockets(q) /\ HasSockets(q) /\ LoopsLate(q) /\ Empty(q) /\ Other(q)
    BY DEF SInv
  <2> QED
    BY <2>1 DEF OwnSockets, HasSockets, Over, LoopsLate, Empty, Other
<1>2. ASSUME NEW q \in Procs, NEW r \in Procs, q # r PROVE Apart(q, r)'
  <2>1. CASE q = p
    BY <2>1, <1>2
  <2>2. CASE r = p
    <3>1. Apart(r, q)'
      BY <2>2, <1>2
    <3> QED
      BY <3>1, CollideSymmetric DEF Apart
  <2>3. CASE q # p /\ r # p
    <3>1. Apart(q, r) /\ Other(q) /\ Other(r)
      BY <2>3, <1>2 DEF SInv
    <3> QED
      BY <3>1 DEF Apart, Other
  <2> QED
    BY <2>1, <2>2, <2>3
<1> QED
  BY <1>1, <1>2 DEF SInv

\* A step of a process past binding that closes no socket of a TCP listener but those of
\* loops that are over.
LEMMA FewerSockets ==
    ASSUME SInv, NEW p \in Procs, Types', \A q \in Procs \ {p} : Other(q),
           snapshot'[p] = snapshot[p],
           \A k \in DOMAIN socks'[p] : k \in DOMAIN socks[p] /\ socks'[p][k] = socks[p][k],
           \A k \in DOMAIN socks[p] : Tcp(Listeners[snapshot[p]][k]) => k \in DOMAIN socks'[p] \/ Over(p, k)',
           \A k : Over(p, k) => k \in DOMAIN socks'[p] \/ Over(p, k)',
           \/ ppc[p] \in Late
           \/ ppc[p] = "bind" /\ DOMAIN Listeners[snapshot[p]] \subseteq 1 .. next[p] - 1,
           ppc'[p] \in Late,
           LoopsLate(p)', Empty(p)'
    PROVE  SInv'
<1>0. OwnSockets(p) /\ HasSockets(p) /\ \A q \in Procs \ {p} : Apart(p, q) /\ Other(q)
  BY DEF SInv
<1>1. OwnSockets(p)'
  BY <1>0 DEF OwnSockets
<1>2. HasSockets(p)'
  <2> SUFFICES ASSUME NEW k \in DOMAIN Listeners[snapshot[p]], Tcp(Listeners[snapshot[p]][k]), ppc'[p] \in Late
               PROVE  k \in DOMAIN socks'[p] \/ Over(p, k)'
    BY DEF HasSockets, Late
  <2>1. k \in DOMAIN socks[p] \/ Over(p, k)
    BY <1>0 DEF HasSockets
  <2> QED
    BY <2>1
<1>3. \A q \in Procs \ {p} : Apart(p, q)'
  BY <1>0 DEF Apart, Other
<1> QED
  BY <1>1, <1>2, <1>3, OneProcess

\* A process that ends leaves nothing behind.
LEMMA ExitSInv ==
    ASSUME SInv, NEW p \in Procs, Exit(p)
    PROVE  SInv'
<1>1. Types'
  BY StartupAssumption DEF SInv, Types, Exit, Phases, Late, Creds
<1>2. \A q \in Procs \ {p} : Other(q)
  BY DEF SInv, Types, Exit, Other
<1>3. ppc'[p] = "off" /\ socks'[p] = Nowhere /\ loops'[p] = Nowhere /\ next'[p] = 1
  BY DEF SInv, Types, Exit
<1>4. OwnSockets(p)' /\ HasSockets(p)' /\ LoopsLate(p)' /\ Empty(p)'
  BY <1>3, NowhereEmpty DEF OwnSockets, HasSockets, LoopsLate, Empty, Late
<1>5. \A q \in Procs \ {p} : Apart(p, q)'
  BY Zenon, <1>3, NowhereEmpty DEF Apart
<1> QED
  BY <1>1, <1>2, <1>4, <1>5, OneProcess

LEMMA StartSInv ==
    ASSUME SInv, NEW p \in Procs, Start(p)
    PROVE  SInv'
<1>1. Types'
  BY DEF SInv, Types, Start, Phases, Late
<1>2. \A q \in Procs \ {p} : Other(q)
  BY DEF SInv, Types, Start, Other
<1>3. ppc'[p] \in {"main", "test"} /\ socks'[p] = Nowhere /\ loops'[p] = Nowhere /\ next'[p] = 1
  BY DEF SInv, Types, Start, Empty, LoopsLate
<1>4. OwnSockets(p)' /\ HasSockets(p)' /\ LoopsLate(p)' /\ Empty(p)'
  BY <1>3, NowhereEmpty DEF OwnSockets, HasSockets, LoopsLate, Empty, Late
<1>5. \A q \in Procs \ {p} : Apart(p, q)'
  BY <1>3, NowhereEmpty DEF Apart
<1> QED
  BY <1>1, <1>2, <1>4, <1>5, OneProcess

LEMMA MainSInv ==
    ASSUME SInv, NEW p \in Procs, Main(p)
    PROVE  SInv'
<1>1. CASE Exit(p)
  BY Zenon, <1>1, ExitSInv
<1>2. CASE ~Exit(p)
  <2>1. PICK n \in load(disk[ConfigPath], cred[p].uid = 0) :
            /\ snapshot' = [snapshot EXCEPT ![p] = n]
            /\ ppc' = [ppc EXCEPT ![p] = "bind"]
            /\ UNCHANGED <<disk, boot, cred, next, socks, loops, hup>>
    BY <1>2 DEF Main
  <2>2. n \in DOMAIN Configs
    BY <2>1 DEF load
  <2>3. Types'
    BY Zenon, <2>1, <2>2 DEF SInv, Types, Phases, Late
  <2>4. \A q \in Procs \ {p} : Other(q)
    BY Zenon, <2>1 DEF SInv, Types, Other
  <2>5. ppc'[p] = "bind" /\ socks'[p] = Nowhere /\ loops'[p] = Nowhere /\ next'[p] = 1
    BY <2>1 DEF SInv, Types, Main, Empty, LoopsLate
  <2>6. OwnSockets(p)' /\ HasSockets(p)' /\ LoopsLate(p)' /\ Empty(p)'
    BY <2>5, NowhereEmpty DEF OwnSockets, HasSockets, LoopsLate, Empty, Late
  <2>7. \A q \in Procs \ {p} : Apart(p, q)'
    BY Zenon, <2>5, NowhereEmpty DEF Apart
  <2> QED
    BY Zenon, <2>3, <2>4, <2>6, <2>7, OneProcess
<1> QED
  BY <1>1, <1>2

\* The listener whose turn it is has been dealt with.
LEMMA BoundSInv ==
    ASSUME SInv, NEW p \in Procs, NEW new, NEW addr, Bound(p, new, addr), ppc[p] = "bind",
           next[p] \in DOMAIN Listeners[snapshot[p]],
           addr = listen_addr(Listeners[snapshot[p]][next[p]].listen),
           \/ new = {} /\ ~Tcp(Listeners[snapshot[p]][next[p]])
           \/ new = {next[p]} /\ CanBind(Listeners[snapshot[p]][next[p]], addr, cred[p])
    PROVE  SInv'
<1> DEFINE l == Listeners[snapshot[p]][next[p]]
<1>0. OwnSockets(p) /\ HasSockets(p) /\ LoopsLate(p) /\ next[p] \in Nat \ {0}
      /\ \A q \in Procs \ {p} : Apart(p, q)
  BY DEF SInv, Types
<1>1. Types'
  BY DEF SInv, Types, Bound
<1>2. \A q \in Procs \ {p} : Other(q)
  BY DEF SInv, Types, Bound, Other
<1>3. /\ ppc'[p] = "bind" /\ snapshot' = snapshot /\ loops'[p] = loops[p] /\ next'[p] = next[p] + 1
      /\ socks'[p] = [k \in DOMAIN socks[p] \cup new |-> IF k \in new THEN addr ELSE socks[p][k]]
      /\ DOMAIN socks'[p] = DOMAIN socks[p] \cup new
  BY Zenon DEF SInv, Types, Bound
<1>4. \A k \in DOMAIN socks'[p] : \/ k = next[p] /\ k \in new /\ socks'[p][k] = addr
                                  \/ k \in DOMAIN socks[p] /\ socks'[p][k] = socks[p][k]
  BY Zenon, <1>3
<1>5. OwnSockets(p)'
  BY Zenon, <1>0, <1>3, <1>4 DEF OwnSockets
<1>6. HasSockets(p)'
  <2> SUFFICES ASSUME NEW k \in DOMAIN Listeners[snapshot[p]], Tcp(Listeners[snapshot[p]][k]),
                      k \in 1 .. next'[p] - 1
               PROVE  k \in DOMAIN socks'[p] \/ Over(p, k)'
    BY Zenon, <1>3 DEF HasSockets, Late
  <2>1. CASE k = next[p]
    BY Zenon, <2>1, <1>3
  <2>2. CASE k # next[p]
    <3>1. k \in 1 .. next[p] - 1
      BY SMTT(40), <2>2, <1>0, <1>3
    <3> QED
      BY Zenon, <3>1, <1>0, <1>3 DEF HasSockets, Over
  <2> QED
    BY Zenon, <2>1, <2>2
<1>7. LoopsLate(p)' /\ Empty(p)'
  BY Zenon, <1>0, <1>3 DEF LoopsLate, Empty
<1>8. ASSUME NEW q \in Procs \ {p} PROVE Apart(p, q)'
  <2> SUFFICES ASSUME NEW k \in DOMAIN socks'[p], NEW j \in DOMAIN socks[q]
               PROVE  ~Collide(Listeners[snapshot[p]][k], socks'[p][k], Listeners[snapshot[q]][j], socks[q][j])
    BY Zenon, <1>2, <1>3 DEF Apart, Other
  <2>1. CASE k \in DOMAIN socks[p] /\ socks'[p][k] = socks[p][k]
    BY Zenon, <2>1, <1>0 DEF Apart
  <2>2. CASE k = next[p] /\ k \in new /\ socks'[p][k] = addr
    <3>1. ~Collide(Listeners[snapshot[q]][j], socks[q][j], l, addr)
      BY Zenon, <2>2 DEF CanBind
    <3> QED
      BY Zenon, <3>1, <2>2, CollideSymmetric
  <2> QED
    BY Zenon, <2>1, <2>2, <1>4
<1> QED
  BY <1>1, <1>2, <1>5, <1>6, <1>7, <1>8, OneProcess

LEMMA BindSInv ==
    ASSUME SInv, NEW p \in Procs, Bind(p)
    PROVE  SInv'
<1> DEFINE l == Listeners[snapshot[p]][next[p]]
           addr == listen_addr(l.listen)
<1>1. CASE ~Known(l)
  <2>1. Bound(p, {}, addr)
    BY Zenon, <1>1 DEF Bind
  <2> QED
    BY Zenon, <1>1, <2>1, BoundSInv DEF Bind, Tcp
<1>2. CASE Known(l) /\ CanBind(l, addr, cred[p])
  <2>1. Bound(p, {next[p]}, addr)
    BY Zenon, <1>2 DEF Bind
  <2> QED
    BY Zenon, <1>2, <2>1, BoundSInv DEF Bind
<1>3. CASE Exit(p)
  BY <1>3, ExitSInv
<1> QED
  BY Zenon, <1>1, <1>2, <1>3 DEF Bind

\* What drop_privileges returns: the account's user, group and groups, for root.
Of(user) == [uid |-> Accounts[user].uid, gid |-> Accounts[user].gid, groups |-> {Accounts[user].gid}]

LEMMA Dropped ==
    ASSUME NEW c \in Creds, NEW user, NEW d \in drop_privileges(c, user)
    PROVE  /\ d \in Creds
           /\ c.uid = 0 => user \in DOMAIN Accounts /\ d = Of(user)
           /\ c.uid # 0 => d = c
<1>1. CASE c.uid # 0
  BY <1>1 DEF drop_privileges
<1>2. CASE c.uid = 0
  <2> DEFINE g == Accounts[user].gid
             u == Accounts[user].uid
  <2>1. user \in DOMAIN Accounts /\ d \in setuid(setgid(setgroups({c}, g), g), u)
    BY <1>2 DEF drop_privileges
  <2>2. g \in Nat /\ u \in Nat
    BY <2>1, StartupAssumption
  <2>3. setgroups({c}, g) = {[c EXCEPT !.groups = {g}]}
    BY <1>2 DEF setgroups
  <2>4. setgid({[c EXCEPT !.groups = {g}]}, g) = {[[c EXCEPT !.groups = {g}] EXCEPT !.gid = g]}
    BY Zenon, <1>2 DEF setgid, Creds
  <2>5. d = [[[c EXCEPT !.groups = {g}] EXCEPT !.gid = g] EXCEPT !.uid = u]
    BY Zenon, <2>1, <2>3, <2>4 DEF setuid
  <2>6. d = [uid |-> u, gid |-> g, groups |-> {g}]
    BY Zenon, <2>5 DEF Creds
  <2>7. d \in Creds /\ d = Of(user)
    BY <2>2, <2>6 DEF Of, Creds
  <2> QED
    BY <1>2, <2>1, <2>7
<1> QED
  BY <1>1, <1>2

\* The credentials after a drop that does not end the process.
LEMMA DropCred ==
    ASSUME SInv, NEW p \in Procs, Drop(p), ~Exit(p)
    PROVE  /\ cred' \in [Procs -> Creds]
           /\ \A q \in Procs \ {p} : cred'[q] = cred[q]
           /\ cred[p].uid = 0 => \A user \in snap(p).user : user \in DOMAIN Accounts /\ cred'[p] = Of(user)
           /\ (cred[p].uid # 0 \/ snap(p).user = None) => cred'[p] = cred[p]
           /\ ppc' = [ppc EXCEPT ![p] = "spawn"]
           /\ UNCHANGED <<boot, snapshot, next, socks, loops>>
<1>0. cred \in [Procs -> Creds] /\ cred[p] \in Creds /\ snapshot[p] \in DOMAIN Configs
  BY DEF SInv, Types, Drop
<1> DEFINE dropped == UNION {drop_privileges(cred[p], user) : user \in snap(p).user}
<1>1. PICK c : /\ cred' = [cred EXCEPT ![p] = c]
               /\ c \in IF snap(p).user = None THEN {cred[p]} ELSE dropped
  BY DEF Drop
<1>2. /\ ppc' = [ppc EXCEPT ![p] = "spawn"]
      /\ UNCHANGED <<boot, snapshot, next, socks, loops>>
  BY DEF Drop
<1>3. CASE snap(p).user = None
  BY Zenon, <1>0, <1>1, <1>2, <1>3 DEF None
<1>4. CASE snap(p).user # None
  <2>1. PICK user \in snap(p).user : c \in drop_privileges(cred[p], user)
    BY Zenon, <1>1, <1>4
  <2>2. /\ c \in Creds /\ (cred[p].uid = 0 => user \in DOMAIN Accounts /\ c = Of(user))
        /\ cred[p].uid # 0 => c = cred[p]
    BY Zenon, <2>1, <1>0, Dropped
  <2>3. \A v \in snap(p).user : v = user
    BY <1>0, StartupAssumption DEF snap
  <2> QED
    BY <1>0, <1>1, <1>2, <1>4, <2>2, <2>3
<1> QED
  BY <1>3, <1>4

LEMMA DropSInv ==
    ASSUME SInv, NEW p \in Procs, Drop(p)
    PROVE  SInv'
<1>1. CASE Exit(p)
  BY <1>1, ExitSInv
<1>2. CASE ~Exit(p)
  <2>0. ppc[p] = "bind" /\ DOMAIN Listeners[snapshot[p]] \subseteq 1 .. next[p] - 1
    BY DEF Drop
  <2>1. Types'
    BY Zenon, <1>2, <2>0, DropCred DEF SInv, Types, Phases, Late
  <2>2. \A q \in Procs \ {p} : Other(q)
    BY <1>2, DropCred DEF SInv, Types, Other
  <2>3. ppc'[p] = "spawn" /\ UNCHANGED <<snapshot, socks, loops>>
    BY Zenon, <1>2, DropCred DEF SInv, Types
  <2>4. LoopsLate(p)' /\ Empty(p)'
    BY <2>0, <2>3 DEF SInv, LoopsLate, Empty
  <2>5. ppc'[p] \in Late
    BY Zenon, <2>3 DEF Late
  <2> QED
    BY Zenon, <2>0, <2>1, <2>2, <2>3, <2>4, <2>5, FewerSockets DEF Over
<1> QED
  BY <1>1, <1>2

LEMMA SpawnSInv ==
    ASSUME SInv, NEW p \in Procs, Spawn(p)
    PROVE  SInv'
<1> DEFINE n == snapshot[p]
           served == {k \in DOMAIN socks[p] : Served(n, Listeners[n][k])}
           now    == {k \in served : ~Deferred(n, Listeners[n][k])}
<1>1. Types'
  BY DEF SInv, Types, Spawn, Phases, Late
<1>2. \A q \in Procs \ {p} : Other(q)
  BY DEF SInv, Types, Spawn, Other
<1>3. /\ ppc[p] = "spawn" /\ ppc'[p] = "issue" /\ snapshot' = snapshot
      /\ socks'[p] = [k \in served |-> socks[p][k]]
      /\ loops'[p] = [k \in now |-> "spawned"]
  BY Zenon DEF SInv, Types, Spawn
<1>4. LoopsLate(p)' /\ Empty(p)'
  BY Zenon, <1>3 DEF SInv, OwnSockets, LoopsLate, Empty
<1>5. \A k \in DOMAIN socks[p] : Tcp(Listeners[snapshot[p]][k]) => k \in DOMAIN socks'[p]
  BY Zenon, <1>3 DEF Tcp, Served
<1>6. ppc[p] \in Late /\ ppc'[p] \in Late
  BY <1>3 DEF Late
<1>7. \A k \in DOMAIN socks'[p] : k \in DOMAIN socks[p] /\ socks'[p][k] = socks[p][k]
  BY <1>3
<1>8. snapshot'[p] = snapshot[p]
  BY <1>3
<1>9. \A k : ~Over(p, k)
  BY <1>3, NowhereEmpty DEF SInv, LoopsLate, Over
<1> QED
  BY Zenon, <1>1, <1>2, <1>4, <1>5, <1>6, <1>7, <1>8, <1>9, FewerSockets

LEMMA IssueSInv ==
    ASSUME SInv, NEW p \in Procs, NEW i, Issue(p, i)
    PROVE  SInv'
<1> DEFINE n == snapshot[p]
           ready == {k \in DOMAIN socks[p] : Deferred(n, Listeners[n][k]) /\ Listeners[n][k].idx = i}
<1>1. CASE Exit(p)
  BY Zenon, <1>1, ExitSInv
<1>2. CASE ~Exit(p)
  <2>1. /\ ppc[p] = "issue"
        /\ loops' = [loops EXCEPT ![p] = [k \in DOMAIN loops[p] \cup ready |->
                                             IF k \in ready THEN "spawned" ELSE loops[p][k]]]
        /\ UNCHANGED <<boot, ppc, cred, snapshot, next, socks>>
    BY Zenon, <1>2 DEF Issue
  <2>2. Types'
    BY Zenon, <2>1 DEF SInv, Types
  <2>3. \A q \in Procs \ {p} : Other(q)
    BY Zenon, <2>1 DEF SInv, Types, Other
  <2>4. loops'[p] = [k \in DOMAIN loops[p] \cup ready |-> IF k \in ready THEN "spawned" ELSE loops[p][k]]
    BY Zenon, <2>1 DEF SInv, Types
  <2>5. ready \subseteq DOMAIN socks[p] /\ ready \subseteq DOMAIN Listeners[n]
    BY DEF SInv, OwnSockets
  <2> HIDE DEF ready
  <2>6. LoopsLate(p)' /\ Empty(p)'
    BY Zenon, <2>1, <2>4, <2>5 DEF SInv, LoopsLate, Empty
  <2>7. \A k : Over(p, k) => k \in DOMAIN socks'[p] \/ Over(p, k)'
    BY Zenon, <2>1, <2>4, <2>5 DEF Over
  <2>8. ppc[p] \in Late /\ ppc'[p] \in Late
    BY Zenon, <2>1 DEF Late
  <2> QED
    BY Zenon, <2>1, <2>2, <2>3, <2>6, <2>7, <2>8, FewerSockets
<1> QED
  BY <1>1, <1>2

\* Steps from one late phase to another.
LEMMA LateSInv ==
    ASSUME SInv, NEW p \in Procs, Join(p) \/ Register(p)
    PROVE  SInv'
<1>1. Types'
  BY Zenon DEF SInv, Types, Join, Register, Phases, Late
<1>2. \A q \in Procs \ {p} : Other(q)
  BY DEF SInv, Types, Join, Register, Other
<1>3. /\ ppc[p] \in {"issue", "join"} /\ ppc'[p] \in {"join", "handling"}
      /\ UNCHANGED <<snapshot, socks, loops>>
  BY Zenon DEF SInv, Types, Join, Register
<1>4. LoopsLate(p)' /\ Empty(p)'
  BY <1>3 DEF SInv, LoopsLate, Empty
<1>5. ppc[p] \in Late /\ ppc'[p] \in Late
  BY Zenon, <1>3 DEF Late
<1> QED
  BY <1>1, <1>2, <1>3, <1>4, <1>5, FewerSockets DEF Over

LEMMA LoopsBeginSInv ==
    ASSUME SInv, NEW p \in Procs, LoopsBegin(p)
    PROVE  SInv'
<1> DEFINE begun == [k \in DOMAIN loops[p] |->
                        IF loops[p][k] = "spawned"
                        THEN Prologue(snapshot[p], Listeners[snapshot[p]][k], cred[p]) ELSE loops[p][k]]
           open == {j \in DOMAIN socks[p] : j \in DOMAIN begun => begun[j] # "ended"}
<1>0. LoopsLate(p) /\ ppc[p] \in Phases
  BY DEF SInv, Types
<1>1. Types'
  BY DEF SInv, Types, LoopsBegin
<1>2. \A q \in Procs \ {p} : Other(q)
  BY DEF SInv, Types, LoopsBegin, Other
<1>3. loops'[p] = begun /\ socks'[p] = [k \in open |-> socks[p][k]] /\ UNCHANGED <<ppc, snapshot>>
  BY DEF SInv, Types, LoopsBegin
<1>4. loops[p] # Nowhere
  BY NowhereEmpty DEF LoopsBegin
<1>5. ppc[p] \in {"issue", "join", "handling"}
  BY Zenon, <1>0, <1>4 DEF LoopsLate, Phases, Late
<1>6. LoopsLate(p)' /\ Empty(p)'
  BY Zenon, <1>0, <1>3, <1>5 DEF LoopsLate, Empty
<1>7. \A k : Over(p, k) => Over(p, k)'
  BY <1>3 DEF Over
<1>8. /\ \A k \in DOMAIN socks[p] : k \in DOMAIN socks'[p] \/ Over(p, k)'
      /\ \A k \in DOMAIN socks'[p] : k \in DOMAIN socks[p] /\ socks'[p][k] = socks[p][k]
  <2> HIDE DEF begun
  <2> QED
    BY Zenon, <1>3 DEF Over
<1>9. ppc[p] \in Late /\ ppc'[p] \in Late /\ snapshot'[p] = snapshot[p]
  BY Zenon, <1>3, <1>5 DEF Late
<1> QED
  BY Zenon, <1>1, <1>2, <1>6, <1>7, <1>8, <1>9, FewerSockets

\* Steps that touch nothing SInv speaks about.
LEMMA SameSInv ==
    ASSUME SInv, UNCHANGED <<boot, ppc, cred, snapshot, next, socks, loops>>
    PROVE  SInv'
  BY DEF SInv, Types, OwnSockets, HasSockets, Over, LoopsLate, Empty, Apart

LEMMA NextSInv == SInv /\ [Next]_vars => SInv'
<1> SUFFICES ASSUME SInv, [Next]_vars PROVE SInv'
  OBVIOUS
<1>1. CASE UNCHANGED vars
  BY <1>1, SameSInv DEF vars, local
<1>2. ASSUME NEW p \in Procs, Start(p) PROVE SInv'
  BY <1>2, StartSInv
<1>3. ASSUME NEW p \in Procs, RunStep(p) PROVE SInv'
  <2>1. CASE Main(p)
    BY <2>1, MainSInv
  <2>2. CASE Bind(p)
    BY <2>2, BindSInv
  <2>3. CASE Drop(p)
    BY <2>3, DropSInv
  <2>4. CASE Spawn(p)
    BY <2>4, SpawnSInv
  <2>5. CASE Join(p)
    BY <2>5, LateSInv
  <2>6. CASE Done(p)
    BY <2>6, ExitSInv DEF Done
  <2> QED
    BY Zenon, <1>3, <2>1, <2>2, <2>3, <2>4, <2>5, <2>6 DEF RunStep
<1>4. ASSUME NEW p \in Procs, Register(p) PROVE SInv'
  BY <1>4, LateSInv
<1>5. ASSUME NEW p \in Procs, LoopsBegin(p) PROVE SInv'
  BY <1>5, LoopsBeginSInv
<1>6. ASSUME NEW p \in Procs, Reload(p) PROVE SInv'
  BY <1>6, SameSInv DEF Reload
<1>7. ASSUME NEW p \in Procs, Term(p) PROVE SInv'
  BY Zenon, <1>7, ExitSInv DEF Term
<1>8. ASSUME NEW p \in Procs, Hup(p) PROVE SInv'
  BY Zenon, <1>8, ExitSInv, SameSInv DEF Hup
<1>9. ASSUME NEW p \in Procs, CaAnswers(p) PROVE SInv'
  BY Zenon, <1>9, IssueSInv DEF CaAnswers
<1> QED
  BY Zenon, <1>1, <1>2, <1>3, <1>4, <1>5, <1>6, <1>7, <1>8, <1>9 DEF Next

\* Up to the drop a process has the credentials it was started with; after it, if root
\* started it and a user is configured, those of the account.
CredsOf(p) ==
    /\ ppc[p] \notin Late => cred[p] = boot
    /\ (ppc[p] \in Late /\ boot.uid = 0) =>
           \A user \in snap(p).user : user \in DOMAIN Accounts /\ cred[p] = Of(user)
    /\ (ppc[p] \in Late /\ (boot.uid # 0 \/ snap(p).user = None)) => cred[p] = boot

CInv == \A p \in Procs : CredsOf(p)

LEMMA InitCInv == Init => CInv
  BY DEF Init, CInv, CredsOf, Late

\* The credentials of a process change when it ends, and by the drop.
LEMMA ExitCInv ==
    ASSUME SInv, CInv, NEW p \in Procs, Exit(p)
    PROVE  CInv'
<1> SUFFICES ASSUME NEW q \in Procs PROVE CredsOf(q)'
  BY Zenon DEF CInv
<1>1. CASE q = p
  BY Zenon, <1>1 DEF SInv, Types, Exit, CredsOf, Late
<1>2. CASE q # p
  <2>1. cred'[q] = cred[q] /\ ppc'[q] = ppc[q] /\ snapshot'[q] = snapshot[q] /\ boot' = boot
    BY Zenon, <1>2 DEF SInv, Types, Exit
  <2> QED
    BY <2>1 DEF CInv, CredsOf, snap
<1> QED
  BY Zenon, <1>1, <1>2

\* Steps that keep the credentials, and do not cross the drop.
LEMMA KeepCInv ==
    ASSUME SInv, CInv, UNCHANGED <<boot, cred>>,
           \A q \in Procs : /\ (ppc'[q] \in Late) = (ppc[q] \in Late)
                            /\ ppc[q] \in Late => snapshot'[q] = snapshot[q]
    PROVE  CInv'
  BY DEF CInv, CredsOf, snap

LEMMA DropCInv ==
    ASSUME SInv, CInv, NEW p \in Procs, Drop(p)
    PROVE  CInv'
<1>1. CASE Exit(p)
  BY Zenon, <1>1, ExitCInv
<1>2. CASE ~Exit(p)
  <2> SUFFICES ASSUME NEW q \in Procs PROVE CredsOf(q)'
    BY DEF CInv
  <2>1. CASE q = p
    <3>1. cred[p] = boot
      BY Zenon DEF Drop, CInv, CredsOf, Late
    <3>2. ppc'[p] = "spawn" /\ UNCHANGED <<boot, snapshot>>
      BY Zenon, <1>2, DropCred DEF SInv, Types
    <3>3. boot.uid = 0 => \A user \in snap(p).user : user \in DOMAIN Accounts /\ cred'[p] = Of(user)
      BY Zenon, <1>2, <3>1, DropCred
    <3>4. (boot.uid # 0 \/ snap(p).user = None) => cred'[p] = boot
      BY Zenon, <1>2, <3>1, DropCred
    <3> QED
      BY Zenon, <2>1, <3>2, <3>3, <3>4 DEF CredsOf, Late, snap
  <2>2. CASE q # p
    <3>1. cred'[q] = cred[q] /\ ppc'[q] = ppc[q] /\ UNCHANGED <<boot, snapshot>>
      BY Zenon, <1>2, <2>2, DropCred DEF SInv, Types
    <3> QED
      BY Zenon, <3>1 DEF CInv, CredsOf, snap
  <2> QED
    BY <2>1, <2>2
<1> QED
  BY <1>1, <1>2

LEMMA NextCInv == SInv /\ CInv /\ [Next]_vars => CInv'
<1> SUFFICES ASSUME SInv, CInv, [Next]_vars PROVE CInv'
  OBVIOUS
<1>0. ppc \in [Procs -> Phases] /\ DOMAIN snapshot = Procs
  BY DEF SInv, Types
<1>1. CASE UNCHANGED vars
  BY <1>1, KeepCInv DEF vars, local
<1>2. ASSUME NEW p \in Procs, Start(p) PROVE CInv'
  BY <1>0, <1>2, KeepCInv DEF Start, Late
<1>3. ASSUME NEW p \in Procs, RunStep(p) PROVE CInv'
  <2>1. CASE Exit(p)
    BY Zenon, <2>1, ExitCInv
  <2>2. CASE Main(p) /\ ~Exit(p)
    BY SMTT(40), <1>0, <2>2, KeepCInv DEF Main, Late
  <2>3. CASE Bind(p) /\ ~Exit(p)
    BY Zenon, <2>3, KeepCInv DEF Bind, Bound
  <2>4. CASE Drop(p)
    BY <2>4, DropCInv
  <2>5. CASE Spawn(p) \/ Join(p)
    BY <1>0, <2>5, KeepCInv DEF Spawn, Join, Late
  <2>6. CASE Done(p)
    BY Zenon, <2>6, ExitCInv DEF Done
  <2> QED
    BY Zenon, <1>3, <2>1, <2>2, <2>3, <2>4, <2>5, <2>6 DEF RunStep
<1>4. ASSUME NEW p \in Procs, Register(p) PROVE CInv'
  BY <1>0, <1>4, KeepCInv DEF Register, Late
<1>5. ASSUME NEW p \in Procs, LoopsBegin(p) \/ Reload(p) PROVE CInv'
  BY Zenon, <1>5, KeepCInv DEF LoopsBegin, Reload
<1>6. ASSUME NEW p \in Procs, Term(p) PROVE CInv'
  BY Zenon, <1>6, ExitCInv DEF Term
<1>7. ASSUME NEW p \in Procs, Hup(p) PROVE CInv'
  BY Zenon, <1>7, ExitCInv, KeepCInv DEF Hup
<1>8. ASSUME NEW p \in Procs, CaAnswers(p) PROVE CInv'
  BY <1>8, ExitCInv, KeepCInv DEF CaAnswers, Issue
<1> QED
  BY <1>1, <1>2, <1>3, <1>4, <1>5, <1>6, <1>7, <1>8 DEF Next

(* For every account, every credentials root may start a process with and every
   configuration: a loop of a process root has started runs as the configured user, with
   its group as the only group. *)
THEOREM Unprivileged == Spec => []UnprivilegedLoops
<1>1. Init => SInv /\ CInv
  BY InitSInv, InitCInv
<1>2. SInv /\ CInv /\ [Next]_vars => SInv' /\ CInv'
  BY Zenon, NextSInv, NextCInv
<1>3. SInv /\ CInv => UnprivilegedLoops
  BY Zenon DEF SInv, Types, CInv, CredsOf, LoopsLate, UnprivilegedLoops, Of, Phases, Late
<1> QED
  BY <1>1, <1>2, <1>3, PTL DEF Spec
-------------------------------------------------------------------------------
(* Whether a loop comes up is decided by the snapshot and the credentials. *)
Decided(p) ==
    \A k \in DOMAIN loops[p] :
        loops[p][k] \in {"spawned", Prologue(snapshot[p], Listeners[snapshot[p]][k], cred[p])}

LInv == \A p \in Procs : Decided(p)

\* Steps of p after which its loops are decided; the others keep theirs.
LEMMA OneDecided ==
    ASSUME SInv, LInv, NEW p \in Procs, Decided(p)',
           \A q \in Procs \ {p} : Other(q) /\ cred'[q] = cred[q]
    PROVE  LInv'
<1> SUFFICES ASSUME NEW q \in Procs \ {p} PROVE Decided(q)'
  BY DEF LInv
<1>1. Decided(q) /\ Other(q) /\ cred'[q] = cred[q]
  BY DEF LInv
<1> QED
  BY <1>1 DEF Decided, Other

LEMMA ExitLInv ==
    ASSUME SInv, LInv, NEW p \in Procs, Exit(p)
    PROVE  LInv'
<1>1. loops'[p] = Nowhere /\ \A q \in Procs \ {p} : Other(q) /\ cred'[q] = cred[q]
  BY DEF SInv, Types, Exit, Other
<1>2. Decided(p)'
  BY Zenon, <1>1, NowhereEmpty DEF Decided
<1> QED
  BY Zenon, <1>1, <1>2, OneDecided

\* Steps of a process that has no loops, and steps that change nothing of this.
LEMMA NoLoopsLInv ==
    ASSUME SInv, LInv, NEW p \in Procs, loops' = loops, loops[p] = Nowhere,
           \A q \in Procs \ {p} : snapshot'[q] = snapshot[q] /\ cred'[q] = cred[q]
    PROVE  LInv'
<1> SUFFICES ASSUME NEW q \in Procs PROVE Decided(q)'
  BY DEF LInv
<1>1. CASE q = p
  BY <1>1, NowhereEmpty DEF Decided
<1>2. CASE q # p
  BY <1>2 DEF LInv, Decided
<1> QED
  BY <1>1, <1>2

LEMMA SameLInv ==
    ASSUME LInv, UNCHANGED <<loops, snapshot, cred>>
    PROVE  LInv'
  BY DEF LInv, Decided

LEMMA NewLoopsLInv ==
    ASSUME SInv, LInv, NEW p \in Procs, UNCHANGED <<snapshot, cred>>,
           NEW f, loops' = [loops EXCEPT ![p] = f],
           \A k \in DOMAIN f : \/ f[k] \in {"spawned", Prologue(snapshot[p], Listeners[snapshot[p]][k], cred[p])}
                               \/ k \in DOMAIN loops[p] /\ f[k] = loops[p][k]
    PROVE  LInv'
<1> SUFFICES ASSUME NEW q \in Procs PROVE Decided(q)'
  BY Zenon DEF LInv
<1>1. Decided(q) /\ DOMAIN loops = Procs
  BY DEF LInv, SInv, Types
<1>2. CASE q = p
  <2>1. loops'[p] = f
    BY Zenon, <1>1
  <2> QED
    BY <1>1, <1>2, <2>1 DEF Decided
<1>3. CASE q # p
  BY Zenon, <1>1, <1>3 DEF Decided
<1> QED
  BY Zenon, <1>2, <1>3

LEMMA SpawnLInv ==
    ASSUME SInv, LInv, NEW p \in Procs, Spawn(p)
    PROVE  LInv'
<1> DEFINE n == snapshot[p]
           served == {k \in DOMAIN socks[p] : Served(n, Listeners[n][k])}
           f == [k \in {j \in served : ~Deferred(n, Listeners[n][j])} |-> "spawned"]
<1>1. loops' = [loops EXCEPT ![p] = f] /\ UNCHANGED <<snapshot, cred>>
  BY DEF Spawn
<1>2. \A k \in DOMAIN f : f[k] = "spawned"
  OBVIOUS
<1> HIDE DEF f
<1>3. \A k \in DOMAIN f : \/ f[k] \in {"spawned", Prologue(snapshot[p], Listeners[snapshot[p]][k], cred[p])}
                          \/ k \in DOMAIN loops[p] /\ f[k] = loops[p][k]
  BY Zenon, <1>2
<1> QED
  BY Zenon, <1>1, <1>3, NewLoopsLInv

LEMMA IssueLInv ==
    ASSUME SInv, LInv, NEW p \in Procs, NEW i, Issue(p, i)
    PROVE  LInv'
<1> DEFINE n == snapshot[p]
           ready == {k \in DOMAIN socks[p] : Deferred(n, Listeners[n][k]) /\ Listeners[n][k].idx = i}
           f == [k \in DOMAIN loops[p] \cup ready |-> IF k \in ready THEN "spawned" ELSE loops[p][k]]
<1>1. CASE Exit(p)
  BY <1>1, ExitLInv
<1>2. CASE ~Exit(p)
  <2>1. loops' = [loops EXCEPT ![p] = f] /\ UNCHANGED <<snapshot, cred>>
    BY <1>2 DEF Issue
  <2> HIDE DEF ready
  <2>2. \A k \in DOMAIN f : f[k] = "spawned" \/ (k \in DOMAIN loops[p] /\ f[k] = loops[p][k])
    OBVIOUS
  <2> HIDE DEF f
  <2>3. \A k \in DOMAIN f : \/ f[k] \in {"spawned", Prologue(snapshot[p], Listeners[snapshot[p]][k], cred[p])}
                            \/ k \in DOMAIN loops[p] /\ f[k] = loops[p][k]
    BY Zenon, <2>2
  <2> QED
    BY Zenon, <2>1, <2>3, NewLoopsLInv
<1> QED
  BY <1>1, <1>2

LEMMA LoopsBeginLInv ==
    ASSUME SInv, LInv, NEW p \in Procs, LoopsBegin(p)
    PROVE  LInv'
<1> DEFINE pro(k) == Prologue(snapshot[p], Listeners[snapshot[p]][k], cred[p])
           f == [k \in DOMAIN loops[p] |-> IF loops[p][k] = "spawned" THEN pro(k) ELSE loops[p][k]]
<1>1. loops' = [loops EXCEPT ![p] = f] /\ UNCHANGED <<snapshot, cred>>
  BY DEF LoopsBegin
<1>2. \A k \in DOMAIN f : f[k] = pro(k) \/ (k \in DOMAIN loops[p] /\ f[k] = loops[p][k])
  <2> HIDE DEF pro
  <2> QED
    OBVIOUS
<1> HIDE DEF f
<1>3. \A k \in DOMAIN f : \/ f[k] \in {"spawned", Prologue(snapshot[p], Listeners[snapshot[p]][k], cred[p])}
                          \/ k \in DOMAIN loops[p] /\ f[k] = loops[p][k]
  BY <1>2
<1> QED
  BY Zenon, <1>1, <1>3, NewLoopsLInv

LEMMA DropLInv ==
    ASSUME SInv, LInv, NEW p \in Procs, Drop(p)
    PROVE  LInv'
<1>1. CASE Exit(p)
  BY <1>1, ExitLInv
<1>2. CASE ~Exit(p)
  <2>1. loops[p] = Nowhere
    BY Zenon DEF Drop, SInv, LoopsLate
  <2>2. UNCHANGED <<snapshot, loops>> /\ \A q \in Procs \ {p} : cred'[q] = cred[q]
    BY <1>2, DropCred
  <2> QED
    BY Zenon, <2>1, <2>2, NoLoopsLInv
<1> QED
  BY <1>1, <1>2

LEMMA MainLInv ==
    ASSUME SInv, LInv, NEW p \in Procs, Main(p)
    PROVE  LInv'
<1>1. CASE Exit(p)
  BY <1>1, ExitLInv
<1>2. CASE ~Exit(p)
  <2>1. loops[p] = Nowhere
    BY Zenon DEF Main, SInv, LoopsLate
  <2>2. PICK n : snapshot' = [snapshot EXCEPT ![p] = n] /\ UNCHANGED <<cred, loops>>
    BY Zenon, <1>2 DEF Main
  <2>3. \A q \in Procs \ {p} : snapshot'[q] = snapshot[q] /\ cred'[q] = cred[q]
    BY <2>2 DEF SInv, Types
  <2> QED
    BY Zenon, <2>1, <2>2, <2>3, NoLoopsLInv
<1> QED
  BY <1>1, <1>2

LEMMA NextLInv == SInv /\ LInv /\ [Next]_vars => LInv'
<1> SUFFICES ASSUME SInv, LInv, [Next]_vars PROVE LInv'
  OBVIOUS
<1>1. CASE UNCHANGED vars
  BY Zenon, <1>1, SameLInv DEF vars, local
<1>2. ASSUME NEW p \in Procs, Start(p) \/ Register(p) \/ Reload(p) PROVE LInv'
  BY Zenon, <1>2, SameLInv DEF Start, Register, Reload
<1>3. ASSUME NEW p \in Procs, RunStep(p) PROVE LInv'
  <2>1. CASE Main(p)
    BY <2>1, MainLInv
  <2>2. CASE Bind(p)
    BY <2>2, ExitLInv, SameLInv DEF Bind, Bound
  <2>3. CASE Drop(p)
    BY <2>3, DropLInv
  <2>4. CASE Spawn(p)
    BY <2>4, SpawnLInv
  <2>5. CASE Join(p)
    BY <2>5, SameLInv DEF Join
  <2>6. CASE Done(p)
    BY <2>6, ExitLInv DEF Done
  <2> QED
    BY <1>3, <2>1, <2>2, <2>3, <2>4, <2>5, <2>6 DEF RunStep
<1>4. ASSUME NEW p \in Procs, CaAnswers(p) PROVE LInv'
  BY <1>4, IssueLInv DEF CaAnswers
<1>5. ASSUME NEW p \in Procs, LoopsBegin(p) PROVE LInv'
  BY <1>5, LoopsBeginLInv
<1>6. ASSUME NEW p \in Procs, Term(p) PROVE LInv'
  BY <1>6, ExitLInv DEF Term
<1>7. ASSUME NEW p \in Procs, Hup(p) PROVE LInv'
  BY Zenon, <1>7, ExitLInv, SameLInv DEF Hup
<1> QED
  BY Zenon, <1>1, <1>2, <1>3, <1>4, <1>5, <1>6, <1>7 DEF Next

\* Processes past the drop that have one snapshot have the same credentials.
LEMMA SameCred ==
    ASSUME CInv, NEW p \in Procs, NEW q \in Procs, snapshot[p] = snapshot[q],
           ppc[p] \in Late, ppc[q] \in Late
    PROVE  cred[p] = cred[q]
<1>1. CredsOf(p) /\ CredsOf(q) /\ snap(p) = snap(q)
  BY Zenon DEF CInv, snap
<1>2. CASE boot.uid # 0 \/ snap(p).user = None
  BY Zenon, <1>1, <1>2 DEF CredsOf
<1>3. CASE boot.uid = 0 /\ snap(p).user # None
  <2>1. PICK user \in snap(p).user : TRUE
    BY Zenon, <1>3 DEF None
  <2> QED
    BY Zenon, <1>1, <1>3, <2>1 DEF CredsOf
<1> QED
  BY Zenon, <1>2, <1>3

LEMMA OneAccepts == SInv /\ CInv /\ LInv => OneServer
<1> SUFFICES ASSUME SInv, CInv, LInv, NEW p \in Procs, NEW q \in Procs, p # q,
                    snapshot[p] = snapshot[q], Accepts(p), Accepts(q)
             PROVE  FALSE
  BY DEF OneServer
<1>1. PICK k \in DOMAIN loops[p] : /\ loops[p][k] \in {"tls", "plain"}
                                   /\ Exclusive(Listeners[snapshot[p]][k])
  BY DEF Accepts
<1> DEFINE l == Listeners[snapshot[p]][k]
<1>2. loops[p] # Nowhere /\ loops[q] # Nowhere
  BY Zenon, NowhereEmpty DEF Accepts
<1>3. ppc[p] \in Late /\ ppc[q] \in Late
  BY Zenon, <1>2 DEF SInv, Types, LoopsLate, Phases, Late
<1>4. k \in DOMAIN Listeners[snapshot[p]] /\ Tcp(l) /\ l.listen.port # 0
  BY Zenon, <1>1 DEF SInv, LoopsLate, Exclusive, Tcp
<1>5. Prologue(snapshot[p], l, cred[p]) # "ended"
  BY Zenon, <1>1 DEF LInv, Decided
<1>6. Prologue(snapshot[q], l, cred[q]) # "ended"
  BY Zenon, <1>3, <1>5, SameCred
<1>7. ~Over(p, k) /\ ~Over(q, k)
  BY Zenon, <1>1, <1>6 DEF LInv, Decided, Over
<1>8. k \in DOMAIN socks[p] /\ k \in DOMAIN socks[q]
  BY Zenon, <1>3, <1>4, <1>7 DEF SInv, HasSockets
<1>9. socks[p][k] = listen_addr(l.listen) /\ socks[q][k] = listen_addr(l.listen)
  BY Zenon, <1>8 DEF SInv, OwnSockets
<1>10. listen_addr(l.listen).port # 0
  BY Zenon, <1>4 DEF listen_addr
<1>11. Collide(l, socks[p][k], l, socks[q][k])
  BY <1>9, <1>10 DEF Collide
<1>12. Apart(p, q)
  BY DEF SInv
<1> QED
  BY Zenon, <1>8, <1>11, <1>12 DEF Apart

(* For every number of processes, every configuration and every file system: two processes
   started from one configuration never both accept on TCP ports of it, because run() binds
   every listener before it spawns the first loop, and a loop that gives its socket back
   would do so in the other process as well. *)
THEOREM Exclusion == Spec => []OneServer
<1>1. Init => SInv /\ CInv /\ LInv
  BY InitSInv, InitCInv, NowhereEmpty DEF Init, LInv, Decided
<1>2. SInv /\ CInv /\ LInv /\ [Next]_vars => SInv' /\ CInv' /\ LInv'
  BY NextSInv, NextCInv, NextLInv
<1>3. SInv /\ CInv /\ LInv => OneServer
  BY OneAccepts
<1> QED
  BY <1>1, <1>2, <1>3, PTL DEF Spec
-------------------------------------------------------------------------------
(***************************************************************************)
(* What the validator has taken, the router can route, for any             *)
(* configuration, hash and pin: select_upstream looks up by name at        *)
(* request time what validate has looked up at load time, but through two  *)
(* tables and with pins that sticky splits share.                          *)
(***************************************************************************)
\* Min finds a least element.
LEMMA MinLeast ==
    ASSUME NEW S \in SUBSET Nat, S # {}
    PROVE  Min(S) \in S
<1>1. PICK x \in S : \A y \in S : ~(<<y, x>> \in OpToRel(<, Nat))
  BY NatLessThanWellFounded, WFMin
<1>2. ASSUME NEW y \in S, y < x PROVE FALSE
  BY Zenon, <1>1, <1>2 DEF OpToRel
<1>3. \A y \in S : x <= y
  <2> TAKE y \in S
  <2>1. x \in Nat /\ y \in Nat
    OBVIOUS
  <2>2. ~(y < x)
    BY <1>2
  <2> QED
    BY <2>1, <2>2
<1> QED
  BY Zenon, <1>3 DEF Min

\* Max finds a greatest element: the one that is nearest to a bound.
LEMMA MaxGreatest ==
    ASSUME NEW n \in Nat, NEW S \in SUBSET (1 .. n), S # {}
    PROVE  Max(S) \in S
<1> DEFINE T == {n - x : x \in S}
<1>0. \A x \in S : n - x \in Nat
  OBVIOUS
<1>1. T \in SUBSET Nat /\ T # {}
  BY Zenon, <1>0
<1> HIDE DEF T
<1>2. PICK m \in T : \A y \in T : ~(<<y, m>> \in OpToRel(<, Nat))
  BY <1>1, NatLessThanWellFounded, WFMin
<1>3. \A y \in T : ~(y < m)
  BY Zenon, <1>1, <1>2 DEF OpToRel
<1>4. PICK x \in S : m = n - x
  BY <1>2 DEF T
<1>5. \A z \in S : x >= z
  <2> TAKE z \in S
  <2>1. n - z \in T
    BY DEF T
  <2>2. ~(n - z < n - x)
    BY Zenon, <1>3, <1>4, <2>1
  <2> QED
    BY <2>2
<1> QED
  BY Zenon, <1>5 DEF Max

\* Nothing weighs nothing.
LEMMA EmptyTotal == Total(<<>>) = 0
<1> DEFINE S(g) == [i \in 0 .. Len(<<>>) |-> IF i = 0 THEN 0 ELSE (g[i - 1] + <<>>[i].weight) % U32]
           sum == CHOOSE g : g = S(g)
<1>1. \E g : g = S(g)
  <2> DEFINE z == [i \in 0 .. 0 |-> 0]
  <2>1. Len(<<>>) = 0
    OBVIOUS
  <2>2. z = S(z)
    BY <2>1
  <2> QED
    BY Zenon, <2>2
<1>2. sum = S(sum)
  <2> HIDE DEF S
  <2> QED
    BY <1>1
<1>3. sum[0] = 0
  <2>1. S(sum)[0] = 0
    OBVIOUS
  <2> QED
    BY <2>1, <1>2
<1>4. Total(<<>>) = sum[Len(<<>>)]
  BY DEF Total, Sums
<1> QED
  BY <1>3, <1>4

LEMMA EmptyVec == ASSUME NEW v, IsVec(v), v # <<>> PROVE Len(v) >= 1 /\ DOMAIN v = 1 .. Len(v)
<1>1. CASE Len(v) = 0
  <2>1. v = [i \in {} |-> v[i]]
    BY <1>1 DEF IsVec
  <2> QED
    BY <2>1
<1>2. CASE Len(v) # 0
  BY <1>2 DEF IsVec
<1> QED
  BY <1>1, <1>2

\* Without a pin the router finds a group of the split.
LEMMA ResolveFinds ==
    ASSUME NEW split, NEW hash, NEW pin, IsVec(split.groups), Total(split.groups) = 100,
           ~(split.sticky /\ pin # {})
    PROVE  \E g \in ToSet(split.groups) : resolve(split, hash, pin) = {g.name}
<1> DEFINE L == Len(split.groups)
           sums == [i \in 1 .. L |-> Sums(split.groups)[i]]
           I == {i \in 1 .. Len(sums) : hash % Total(split.groups) < sums[i]}
           n == IF I # {} THEN Min(I) ELSE 0
<1>1. split.groups # <<>>
  BY EmptyTotal
<1>2. L \in Nat /\ L >= 1
  BY Zenon, <1>1, EmptyVec DEF IsVec
<1>3. resolve(split, hash, pin) = {split.groups[IF n = 0 THEN 1 ELSE n].name}
  <2>1. Total(split.groups) # 0
    OBVIOUS
  <2>2. resolve(split, hash, pin) = IF split.sticky /\ pin # {} THEN pin
                                    ELSE IF Total(split.groups) = 0 THEN {}
                                         ELSE {split.groups[IF n = 0 THEN 1 ELSE n].name}
    BY Zenon DEF resolve, SelectInSeq
  <2> HIDE DEF n
  <2> QED
    BY <2>1, <2>2
<1>4. Len(sums) = L
  BY <1>2
<1>5. I \in SUBSET (1 .. L) /\ I \in SUBSET Nat
  BY <1>2, <1>4
<1>6. n \in 0 .. L
  <2> HIDE DEF I
  <2>1. CASE I = {}
    BY <1>2, <2>1
  <2>2. CASE I # {}
    <3>1. Min(I) \in I
      BY Zenon, <1>5, <2>2, MinLeast
    <3>2. Min(I) \in 1 .. L
      BY Zenon, <1>5, <3>1
    <3>3. n = Min(I)
      BY <2>2
    <3> QED
      BY <1>2, <3>2, <3>3
  <2> QED
    BY Zenon, <2>1, <2>2
<1> HIDE DEF n
<1>7. (IF n = 0 THEN 1 ELSE n) \in 1 .. L
  BY <1>2, <1>6
<1>8. split.groups[IF n = 0 THEN 1 ELSE n] \in ToSet(split.groups)
  BY <1>7 DEF ToSet, IsVec
<1> QED
  BY <1>3, <1>8

Names(b, name) == \E split \in ToSet(b.ab_splits) : split.name = name

\* The router and the lookup each have one split for the name of a split.
LEMMA NamedSplits ==
    ASSUME NEW b, NEW name, IsVec(b.ab_splits), Names(b, name)
    PROVE  /\ \E i \in 1 .. Len(b.ab_splits) : Kept(b, name) = {i} /\ b.ab_splits[i].name = name
           /\ \E i \in 1 .. Len(b.ab_splits) : Found(b, name) = {i} /\ b.ab_splits[i].name = name
<1> DEFINE L == Len(b.ab_splits)
           I == {k \in 1 .. L : b.ab_splits[k].name = name}
<1>1. L \in Nat /\ DOMAIN b.ab_splits = 1 .. L
  BY DEF IsVec
<1>2. I # {} /\ I \in SUBSET (1 .. L) /\ I \in SUBSET Nat
  BY <1>1 DEF ToSet, Names
<1>3. Kept(b, name) = {IF I # {} THEN Max(I) ELSE 0} \ {0}
  BY Zenon DEF Kept, SelectLastInSeq
<1>4. Found(b, name) = {IF I # {} THEN Min(I) ELSE 0} \ {0}
  BY Zenon DEF Found, SelectInSeq
<1>5. \A i \in I : i \in 1 .. L /\ b.ab_splits[i].name = name /\ i # 0
  BY <1>1
<1> HIDE DEF I
<1>6. Max(I) \in I /\ Min(I) \in I
  BY Zenon, <1>1, <1>2, MaxGreatest, MinLeast
<1>7. Kept(b, name) = {Max(I)} /\ Found(b, name) = {Min(I)}
  BY <1>2, <1>3, <1>4, <1>5, <1>6
<1> QED
  BY Zenon, <1>5, <1>6, <1>7

\* A pin is the name of a group of a sticky split.
LEMMA PinOf ==
    ASSUME NEW b, ab_splits_ok(b), \A split \in ToSet(b.ab_splits) : IsVec(split.groups),
           NEW pin \in Pins(b), pin # {}
    PROVE  \E j \in StickySplits(b) : \E g \in ToSet(b.ab_splits[j].groups) : pin = {g.name}
<1>0. PICK j \in StickySplits(b) : pin \in {resolve(b.ab_splits[j], hash, {}) : hash \in Hashes}
  BY Zenon DEF Pins
<1>1. PICK h \in Hashes : pin = resolve(b.ab_splits[j], h, {})
  BY Zenon, <1>0
<1>2. b.ab_splits[j] \in ToSet(b.ab_splits)
  BY DEF StickySplits, ToSet
<1>3. IsVec(b.ab_splits[j].groups) /\ Total(b.ab_splits[j].groups) = 100
  BY Zenon, <1>2 DEF ab_splits_ok
<1>4. \E g \in ToSet(b.ab_splits[j].groups) : resolve(b.ab_splits[j], h, {}) = {g.name}
  BY <1>3, ResolveFinds
<1> QED
  BY <1>1, <1>4

\* The router has an answer, and if it is no group of the split the lookup finds, two splits
\* answer for the name.
LEMMA Answered ==
    ASSUME NEW b, NEW name, NEW hash, NEW pin \in Pins(b), ab_splits_ok(b), IsVec(b.ab_splits),
           \A split \in ToSet(b.ab_splits) : IsVec(split.groups),
           Names(b, name)
    PROVE  \E answer :
             /\ Chosen(b, name, hash, pin) = {answer}
             /\ \/ Ambiguous(b, name)
                \/ \E f \in Found(b, name) : \E g \in ToSet(b.ab_splits[f].groups) : g.name = answer
<1>1. PICK i \in 1 .. Len(b.ab_splits) : Kept(b, name) = {i} /\ b.ab_splits[i].name = name
  BY NamedSplits
<1> DEFINE split == b.ab_splits[i]
<1>2. Chosen(b, name, hash, pin) = resolve(split, hash, pin)
  BY Zenon, <1>1 DEF Chosen
<1>3. i \in DOMAIN b.ab_splits /\ split \in ToSet(b.ab_splits)
  BY Zenon DEF ToSet, IsVec
<1>4. CASE ~(split.sticky /\ pin # {})
  <2>1. IsVec(split.groups) /\ Total(split.groups) = 100
    BY <1>3 DEF ab_splits_ok
  <2>2. PICK g \in ToSet(split.groups) : resolve(split, hash, pin) = {g.name}
    BY <1>4, <2>1, ResolveFinds
  <2>3. Chosen(b, name, hash, pin) = {g.name}
    BY Zenon, <1>2, <2>2
  <2>4. Ambiguous(b, name) \/ Found(b, name) = {i}
    BY Zenon, <1>1 DEF Ambiguous
  <2>5. Ambiguous(b, name) \/ \E f \in Found(b, name) : \E h \in ToSet(b.ab_splits[f].groups) : h.name = g.name
    BY Zenon, <2>4
  <2> QED
    BY Zenon, <2>3, <2>5
<1>5. CASE split.sticky /\ pin # {}
  <2>1. PICK j \in StickySplits(b) : \E g \in ToSet(b.ab_splits[j].groups) : pin = {g.name}
    BY <1>5, PinOf
  <2>2. PICK g \in ToSet(b.ab_splits[j].groups) : pin = {g.name}
    BY Zenon, <2>1
  <2>3. Chosen(b, name, hash, pin) = {g.name}
    BY Zenon, <1>2, <1>5, <2>2 DEF resolve
  <2>4. i \in StickySplits(b)
    BY Zenon, <1>1, <1>3, <1>5 DEF StickySplits
  <2>5. i = j \/ Ambiguous(b, name)
    BY Zenon, <1>1, <2>1, <2>4 DEF Ambiguous
  <2>6. Ambiguous(b, name) \/ Found(b, name) = {i}
    BY <1>1 DEF Ambiguous
  <2>7. Ambiguous(b, name) \/ \E f \in Found(b, name) : g \in ToSet(b.ab_splits[f].groups)
    BY Zenon, <2>5, <2>6
  <2> QED
    BY Zenon, <2>3, <2>7
<1> QED
  BY Zenon, <1>4, <1>5

\* A group of the split the lookup finds has its pool.
LEMMA SplitFinds ==
    ASSUME NEW b, NEW name, NEW hash, NEW pin, ab_splits_ok(b), NEW f \in Found(b, name),
           b.ab_splits[f] \in ToSet(b.ab_splits),
           NEW g \in ToSet(b.ab_splits[f].groups), g.name \in Chosen(b, name, hash, pin)
    PROVE  select_split(b, name, hash, pin) # {}
<1>1. resolve_upstream(b, g.upstream) # 0
  BY DEF ab_splits_ok
<1>2. g \in UNION {ToSet(b.ab_splits[i].groups) : i \in Found(b, name)}
  BY Zenon
<1> QED
  BY Zenon, <1>1, <1>2 DEF select_split

LEMMA SplitResolves ==
    ASSUME NEW b, NEW name, NEW hash, NEW pin \in Pins(b), ab_splits_ok(b), IsVec(b.ab_splits),
           \A split \in ToSet(b.ab_splits) : IsVec(split.groups),
           Names(b, name)
    PROVE  select_split(b, name, hash, pin) # {} \/ Foreign(b, name, hash, pin)
<1>1. PICK answer : /\ Chosen(b, name, hash, pin) = {answer}
                    /\ \/ Ambiguous(b, name)
                       \/ \E f \in Found(b, name) : \E g \in ToSet(b.ab_splits[f].groups) : g.name = answer
  BY Zenon, Answered
<1>2. \A f \in Found(b, name) : b.ab_splits[f] \in ToSet(b.ab_splits)
  <2>1. PICK f \in 1 .. Len(b.ab_splits) : Found(b, name) = {f}
    BY NamedSplits
  <2> QED
    BY Zenon, <2>1 DEF ToSet, IsVec
<1>3. CASE \E f \in Found(b, name) : \E g \in ToSet(b.ab_splits[f].groups) : g.name = answer
  BY Zenon, <1>1, <1>2, <1>3, SplitFinds
<1>4. CASE ~\E f \in Found(b, name) : \E g \in ToSet(b.ab_splits[f].groups) : g.name = answer
  BY Zenon, <1>1, <1>4 DEF Foreign
<1> QED
  BY Zenon, <1>3, <1>4

(* For every configuration, whatever the hash of the session and its pin: in a block that
   Config::validate takes, a location that is proxied resolves to a pool, or the router's
   answer is a group the lookup does not know, under a name two splits answer for. *)
THEOREM ValidatedResolves ==
    ASSUME NEW n \in DOMAIN Configs, NEW root, validate(Configs[n], root),
           NEW b \in ToSet(Configs[n].http)
    PROVE  Resolvable(b)
<1>1. block_ok(b, root)
  BY Zenon DEF validate
<1>2. /\ IsVec(b.upstreams) /\ IsVec(b.ab_splits)
      /\ \A split \in ToSet(b.ab_splits) : IsVec(split.groups)
  BY Zenon, ConfigAssumption
<1> SUFFICES ASSUME NEW location \in b.locations, NEW hash \in Hashes, NEW pin \in Pins(b), is_proxy(location)
             PROVE  \/ select_upstream(b, location, hash, pin) # {}
                    \/ \E name \in location.ab_split : Foreign(b, name, hash, pin)
  BY Zenon DEF Resolvable
<1>3. location_ok(b, location) /\ ab_splits_ok(b)
  BY Zenon, <1>1 DEF block_ok
<1>4. CASE location.ab_split # {}
  <2>1. PICK name \in location.ab_split : Names(b, name)
    BY Zenon, <1>3, <1>4 DEF location_ok, Names
  <2>2. select_split(b, name, hash, pin) # {} \/ Foreign(b, name, hash, pin)
    BY Zenon, <1>2, <1>3, <2>1, SplitResolves
  <2>3. select_upstream(b, location, hash, pin) =
            {b.upstreams[m] : m \in UNION {select_split(b, nm, hash, pin) : nm \in location.ab_split}}
    BY Zenon, <1>4 DEF select_upstream
  <2> QED
    BY Zenon, <2>2, <2>3
<1>5. CASE location.ab_split = {} /\ location.upstream # {}
  BY Zenon, <1>5 DEF select_upstream
<1>6. CASE location.ab_split = {} /\ location.upstream = {}
  <2>1. b.upstreams # <<>>
    BY Zenon, <1>3, <1>6 DEF location_ok
  <2>2. 1 \in DOMAIN b.upstreams
    BY <1>2, <2>1, EmptyVec DEF IsVec
  <2> QED
    BY Zenon, <1>6, <2>2 DEF select_upstream
<1> QED
  BY Zenon, <1>4, <1>5, <1>6
-------------------------------------------------------------------------------
LEMMA LoadedRoutable == \A file, root : load(file, root) \subseteq Routable
  BY Zenon, ValidatedResolves DEF load, Routable

Taken == config \in [Procs -> Routable \cup {NoConfig}]

LEMMA TakenNext == ASSUME Taken, [Next]_vars PROVE Taken'
<1>1. ASSUME NEW p \in Procs, Exit(p) PROVE Taken'
  BY Zenon, <1>1 DEF Taken, Exit
<1>2. ASSUME config' = config PROVE Taken'
  BY Zenon, <1>2 DEF Taken
<1>3. ASSUME NEW p \in Procs, NEW n \in Routable, config' = [config EXCEPT ![p] = n] PROVE Taken'
  BY Zenon, <1>3 DEF Taken
<1>4. ASSUME NEW p \in Procs, Start(p) PROVE Taken'
  BY Zenon, <1>4, <1>2 DEF Start
<1>5. ASSUME NEW p \in Procs, Main(p) PROVE Taken'
  BY <1>5, <1>1, <1>3, LoadedRoutable DEF Main
<1>6. ASSUME NEW p \in Procs, Bind(p) PROVE Taken'
  BY Zenon, <1>6, <1>1, <1>2 DEF Bind, Bound
<1>7. ASSUME NEW p \in Procs, Drop(p) PROVE Taken'
  BY Zenon, <1>7, <1>1, <1>2 DEF Drop
<1>8. ASSUME NEW p \in Procs, Spawn(p) PROVE Taken'
  BY Zenon, <1>8, <1>2 DEF Spawn
<1>9. ASSUME NEW p \in Procs, NEW i \in managers[p], Issue(p, i) PROVE Taken'
  BY Zenon, <1>9, <1>1, <1>2 DEF Issue
<1>10. ASSUME NEW p \in Procs, Join(p) \/ Register(p) \/ LoopsBegin(p) PROVE Taken'
  BY Zenon, <1>10, <1>2 DEF Join, Register, LoopsBegin
<1>11. ASSUME NEW p \in Procs, Done(p) \/ Term(p) PROVE Taken'
  BY Zenon, <1>11, <1>1 DEF Done, Term
<1>12. ASSUME NEW p \in Procs, Hup(p) PROVE Taken'
  BY Zenon, <1>12, <1>1, <1>2 DEF Hup
<1>13. ASSUME NEW p \in Procs, Reload(p) PROVE Taken'
  <2>1. Reloaded(p) \subseteq Routable
    BY LoadedRoutable DEF Reloaded
  <2>2. config' = config \/ \E n \in Reloaded(p) : config' = [config EXCEPT ![p] = n]
    BY Zenon, <1>13 DEF Reload
  <2> QED
    BY <2>1, <2>2, <1>2, <1>3
<1>14. CASE UNCHANGED vars
  BY Zenon, <1>14, <1>2 DEF vars, local
<1> QED
  BY Zenon, <1>4, <1>5, <1>6, <1>7, <1>8, <1>9, <1>10, <1>11, <1>12, <1>13, <1>14 DEF Next, RunStep, CaAnswers

(* A 502 for want of a pool is left only to names that two splits answer for, at any time:
   what a process runs with, since its start or since a reload, came through load. *)
THEOREM Resolves == Spec => []RoutesResolve
<1>1. Init => Taken
  BY DEF Init, Taken
<1>2. Taken /\ [Next]_vars => Taken'
  BY TakenNext
<1>3. Taken => RoutesResolve
  BY DEF Taken, RoutesResolve
<1> QED
  BY <1>1, <1>2, <1>3, PTL DEF Spec
-------------------------------------------------------------------------------
(* Where listeners are bound. *)

\* Induction with the statement as a set of numbers.
LEMMA SetInduction ==
    ASSUME NEW S \in SUBSET Nat, 0 \in S, \A n \in Nat : n \in S => n + 1 \in S
    PROVE  \A n \in Nat : n \in S
<1> SUFFICES ASSUME Nat \ S # {} PROVE FALSE
  OBVIOUS
<1>1. PICK x \in Nat \ S : \A y \in Nat \ S : ~(<<y, x>> \in OpToRel(<, Nat))
  BY Zenon, NatLessThanWellFounded, WFMin
<1>2. x # 0 /\ x - 1 \in Nat
  OBVIOUS
<1>3. x - 1 \in S
  <2> SUFFICES ASSUME x - 1 \notin S PROVE FALSE
    OBVIOUS
  <2>1. <<x - 1, x>> \in OpToRel(<, Nat)
    BY <1>2 DEF OpToRel
  <2> QED
    BY Zenon, <1>1, <1>2, <2>1
<1>4. (x - 1) + 1 \in S
  BY Zenon, <1>2, <1>3
<1> QED
  BY <1>2, <1>4

\* FlattenSeq makes one sequence of several.
LEMMA Flattened ==
    ASSUME NEW T, NEW seqs, Len(seqs) \in Nat, \A i \in 1 .. Len(seqs) : seqs[i] \in Seq(T),
           Len(seqs) = 0 => seqs = <<>>
    PROVE  FlattenSeq(seqs) \in Seq(T)
<1> DEFINE F(g, n) == [i \in 1 .. n |-> IF i = 1 THEN seqs[i] ELSE g[i - 1] \o seqs[i]]
           Solved == {n \in Nat : \E g : g = F(g, n)}
           f == CHOOSE g : g = F(g, Len(seqs))
<1>1. 0 \in Solved
  <2> DEFINE g == [i \in 1 .. 0 |-> 0]
  <2>1. g = F(g, 0)
    OBVIOUS
  <2> QED
    BY Zenon, <2>1
<1>2. ASSUME NEW n \in Nat, n \in Solved PROVE n + 1 \in Solved
  <2>1. PICK g : g = F(g, n)
    BY Zenon, <1>2
  <2> DEFINE h == [i \in 1 .. n + 1 |-> IF i # n + 1 THEN g[i] ELSE IF i = 1 THEN seqs[1] ELSE g[n] \o seqs[i]]
  <2>2. ASSUME NEW i \in 1 .. n + 1 PROVE h[i] = IF i = 1 THEN seqs[i] ELSE h[i - 1] \o seqs[i]
    <3>1. CASE i = n + 1
      <4>1. i # 1 => i - 1 \in 1 .. n /\ i - 1 = n /\ i - 1 \in 1 .. n + 1 /\ i - 1 # n + 1
        BY <3>1
      <4>2. i # 1 => h[i - 1] = g[n]
        BY Zenon, <4>1
      <4> QED
        BY <3>1, <4>2
    <3>2. CASE i # n + 1
      <4>1. i \in 1 .. n
        BY <3>2
      <4>2. g[i] = IF i = 1 THEN seqs[i] ELSE g[i - 1] \o seqs[i]
        BY Zenon, <2>1, <4>1
      <4>3. h[i] = g[i] /\ (i # 1 => h[i - 1] = g[i - 1])
        BY <4>1
      <4> QED
        BY Zenon, <4>2, <4>3
    <3> QED
      BY <3>1, <3>2
  <2>3. h = F(h, n + 1)
    BY Zenon, <2>2
  <2>4. \E k : k = F(k, n + 1)
    <3> HIDE DEF h
    <3> QED
      BY Zenon, <2>3
  <2> HIDE DEF F
  <2> QED
    BY <2>4
<1>3. Len(seqs) \in Solved
  <2>1. Solved \in SUBSET Nat
    BY Zenon
  <2> HIDE DEF Solved
  <2> QED
    BY Zenon, <1>1, <1>2, <2>1, SetInduction
<1>4. f = F(f, Len(seqs))
  BY Zenon, <1>3
<1> HIDE DEF f
<1>5. CASE Len(seqs) = 0
  BY <1>5 DEF FlattenSeq
<1>6. CASE Len(seqs) # 0
  <2> DEFINE S == {n \in Nat : n + 1 <= Len(seqs) => f[n + 1] \in Seq(T)}
  <2>1. 0 \in S
    <3>1. 1 \in 1 .. Len(seqs)
      BY <1>6
    <3>2. f[1] = seqs[1]
      BY Zenon, <1>4, <3>1
    <3> QED
      BY <3>1, <3>2
  <2>2. ASSUME NEW n \in Nat, n \in S PROVE n + 1 \in S
    <3> SUFFICES ASSUME (n + 1) + 1 <= Len(seqs) PROVE f[(n + 1) + 1] \in Seq(T)
      OBVIOUS
    <3>1. /\ (n + 1) + 1 \in 1 .. Len(seqs) /\ (n + 1) + 1 # 1 /\ ((n + 1) + 1) - 1 = n + 1
          /\ n + 1 <= Len(seqs)
      OBVIOUS
    <3>2. f[(n + 1) + 1] = f[n + 1] \o seqs[(n + 1) + 1]
      BY Zenon, <1>4, <3>1
    <3>3. f[n + 1] \in Seq(T) /\ seqs[(n + 1) + 1] \in Seq(T)
      BY <2>2, <3>1
    <3> QED
      BY <3>2, <3>3
  <2>3. \A n \in Nat : n \in S
    <3>1. S \in SUBSET Nat
      OBVIOUS
    <3> HIDE DEF S
    <3> QED
      BY Zenon, <2>1, <2>2, <3>1, SetInduction
  <2>4. Len(seqs) - 1 \in Nat /\ (Len(seqs) - 1) + 1 = Len(seqs)
    BY <1>6
  <2>5. f[Len(seqs)] \in Seq(T)
    <3>1. Len(seqs) - 1 \in S
      BY Zenon, <2>3, <2>4
    <3>2. (Len(seqs) - 1) + 1 <= Len(seqs) => f[(Len(seqs) - 1) + 1] \in Seq(T)
      BY <3>1
    <3> QED
      BY <2>4, <3>2
  <2>6. FlattenSeq(seqs) = f[Len(seqs)]
    BY <1>6 DEF FlattenSeq, f
  <2> QED
    BY Zenon, <2>5, <2>6
<1> QED
  BY Zenon, <1>5, <1>6

LEMMA ListenTyped ==
    ASSUME NEW role, NEW idx, NEW listens, IsVec(listens), NEW T,
           \A x \in ToSet(listens) : [role |-> role, idx |-> idx, listen |-> x] \in T
    PROVE  Listen(role, idx, listens) \in Seq(T)
<1>1. Len(listens) \in Nat /\ DOMAIN listens = 1 .. Len(listens)
  BY DEF IsVec
<1>2. \A i \in 1 .. Len(listens) : listens[i] \in ToSet(listens)
  BY <1>1 DEF ToSet
<1>3. Listen(role, idx, listens) \in [1 .. Len(listens) -> T]
  BY <1>2 DEF Listen
<1> QED
  BY <1>1, <1>3

\* The validator has looked at the addresses of http and stream listeners.
LEMMA ValidatedListeners ==
    ASSUME NEW n \in DOMAIN Configs, NEW root, validate(Configs[n], root)
    PROVE  \A k \in DOMAIN Listeners[n] :
               Listeners[n][k].role # "mail" => listen_ok(Listeners[n][k].listen)
<1> DEFINE c == Configs[n]
           H == UNION {ToSet(b.listen) : b \in ToSet(c.http)}
           M == UNION {ToSet(mail.listen) : mail \in c.mail}
           A == [role : {"http", "stream", "mail"}, idx : Nat, listen : H \cup {sb.listen : sb \in ToSet(c.stream)} \cup M]
           T == {l \in A : l.role # "mail" => listen_ok(l.listen)}
           http == [i \in 1 .. Len(c.http) |-> Listen("http", i, c.http[i].listen)]
           stream == [i \in 1 .. Len(c.stream) |-> [role |-> "stream", idx |-> i, listen |-> c.stream[i].listen]]
           mails == IF c.mail = {} THEN <<>> ELSE Listen("mail", 1, (CHOOSE mail \in c.mail : TRUE).listen)
<1>1. /\ IsVec(c.http) /\ IsVec(c.stream)
      /\ \A b \in ToSet(c.http) : IsVec(b.listen)
      /\ \A mail \in c.mail : IsVec(mail.listen)
  BY Zenon, StartupAssumption
<1>2. /\ \A b \in ToSet(c.http) : \A listen \in ToSet(b.listen) : listen_ok(listen)
      /\ \A sb \in ToSet(c.stream) : listen_ok(sb.listen)
  BY Zenon DEF validate, block_ok, stream_ok
<1>3. /\ Len(c.http) \in Nat /\ \A i \in 1 .. Len(c.http) : c.http[i] \in ToSet(c.http)
      /\ Len(c.stream) \in Nat /\ \A i \in 1 .. Len(c.stream) : c.stream[i] \in ToSet(c.stream)
  BY Zenon, <1>1 DEF IsVec, ToSet
<1>4. FlattenSeq(http) \in Seq(T)
  <2>1. ASSUME NEW i \in 1 .. Len(c.http) PROVE http[i] \in Seq(T)
    <3>1. c.http[i] \in ToSet(c.http) /\ IsVec(c.http[i].listen) /\ i \in Nat
      BY <1>1, <1>3
    <3>2. ASSUME NEW x \in ToSet(c.http[i].listen) PROVE [role |-> "http", idx |-> i, listen |-> x] \in T
      <4>1. x \in H /\ listen_ok(x)
        BY Zenon, <1>2, <3>1
      <4> HIDE DEF H, M
      <4> QED
        BY Zenon, <3>1, <4>1
    <3> HIDE DEF T
    <3>3. Listen("http", i, c.http[i].listen) \in Seq(T)
      BY Zenon, <3>1, <3>2, ListenTyped
    <3> QED
      BY Zenon, <3>3
  <2>2. Len(http) = Len(c.http) /\ (Len(http) = 0 => http = <<>>)
    BY <1>3
  <2> HIDE DEF http, T
  <2> QED
    BY <1>3, <2>1, <2>2, Flattened
<1>5. stream \in Seq(T)
  <2>1. ASSUME NEW i \in 1 .. Len(c.stream) PROVE stream[i] \in T
    <3>1. c.stream[i] \in ToSet(c.stream) /\ listen_ok(c.stream[i].listen) /\ i \in Nat
      BY <1>2, <1>3
    <3>2. stream[i] = [role |-> "stream", idx |-> i, listen |-> c.stream[i].listen]
      BY Zenon
    <3> HIDE DEF H, M, stream
    <3>3. [role |-> "stream", idx |-> i, listen |-> c.stream[i].listen] \in T
      BY Zenon, <3>1
    <3> QED
      BY Zenon, <3>2, <3>3
  <2>2. stream \in [1 .. Len(c.stream) -> T]
    <3> HIDE DEF T
    <3> QED
      BY Zenon, <2>1
  <2> HIDE DEF stream, T
  <2> QED
    BY <1>3, <2>2
<1>6. mails \in Seq(T)
  <2>1. CASE c.mail = {}
    BY <2>1
  <2>2. CASE c.mail # {}
    <3>1. PICK mail \in c.mail : mail = CHOOSE m \in c.mail : TRUE
      BY Zenon, <2>2
    <3>2. ASSUME NEW x \in ToSet(mail.listen) PROVE [role |-> "mail", idx |-> 1, listen |-> x] \in T
      <4>1. x \in M
        BY Zenon
      <4> HIDE DEF H, M
      <4> QED
        BY Zenon, <4>1
    <3> HIDE DEF T
    <3>3. Listen("mail", 1, mail.listen) \in Seq(T)
      BY Zenon, <1>1, <3>2, ListenTyped
    <3> QED
      BY Zenon, <2>2, <3>1, <3>3
  <2> QED
    BY <2>1, <2>2
<1>7. Listeners[n] = FlattenSeq(http) \o stream \o mails
  BY Zenon DEF Listeners, AllListeners
<1> HIDE DEF http, stream, mails
<1>8. Listeners[n] \in Seq(T)
  <2> HIDE DEF T
  <2> QED
    BY <1>4, <1>5, <1>6, <1>7
<1>9. \A k \in DOMAIN Listeners[n] : Listeners[n][k] \in T
  <2> HIDE DEF T
  <2> QED
    BY <1>8
<1> HIDE DEF A
<1> QED
  BY Zenon, <1>9

\* What run() works with came through load.
Loadable == {n \in DOMAIN Configs : \E root : validate(Configs[n], root)}
Snapped == snapshot \in [Procs -> Loadable \cup {NoConfig}]

LEMMA SnappedNext == ASSUME Snapped, [Next]_vars PROVE Snapped'
<1>1. ASSUME NEW p \in Procs, Exit(p) PROVE Snapped'
  BY Zenon, <1>1 DEF Snapped, Exit
<1>2. ASSUME snapshot' = snapshot PROVE Snapped'
  BY <1>2 DEF Snapped
<1>3. ASSUME NEW p \in Procs, Main(p) PROVE Snapped'
  <2>1. CASE Exit(p)
    BY Zenon, <1>1, <2>1
  <2>2. CASE ~Exit(p)
    <3>1. PICK n \in load(disk[ConfigPath], cred[p].uid = 0) : snapshot' = [snapshot EXCEPT ![p] = n]
      BY Zenon, <1>3, <2>2 DEF Main
    <3>2. n \in Loadable
      BY Zenon, <3>1 DEF load, Loadable
    <3> QED
      BY Zenon, <3>1, <3>2 DEF Snapped
  <2> QED
    BY Zenon, <2>1, <2>2
<1>4. ASSUME NEW p \in Procs, Bind(p) PROVE Snapped'
  BY <1>4, <1>1, <1>2 DEF Bind, Bound
<1>5. ASSUME NEW p \in Procs, Drop(p) PROVE Snapped'
  BY Zenon, <1>5, <1>1, <1>2 DEF Drop
<1>6. ASSUME NEW p \in Procs, Start(p) \/ Spawn(p) PROVE Snapped'
  BY Zenon, <1>6, <1>2 DEF Start, Spawn
<1>7. ASSUME NEW p \in Procs, NEW i \in managers[p], Issue(p, i) PROVE Snapped'
  BY <1>7, <1>1, <1>2 DEF Issue
<1>8. ASSUME NEW p \in Procs, Join(p) \/ Register(p) \/ LoopsBegin(p) \/ Reload(p) PROVE Snapped'
  BY Zenon, <1>8, <1>2 DEF Join, Register, LoopsBegin, Reload
<1>9. ASSUME NEW p \in Procs, Done(p) \/ Term(p) PROVE Snapped'
  BY <1>9, <1>1 DEF Done, Term
<1>10. ASSUME NEW p \in Procs, Hup(p) PROVE Snapped'
  BY <1>10, <1>1, <1>2 DEF Hup
<1>11. CASE UNCHANGED vars
  BY Zenon, <1>11, <1>2 DEF vars, local
<1> QED
  BY Zenon, <1>3, <1>4, <1>5, <1>6, <1>7, <1>8, <1>9, <1>10, <1>11 DEF Next, RunStep, CaAnswers

LEMMA BoundAsTold == SInv /\ Snapped => ListensAsTold
<1> SUFFICES ASSUME SInv, Snapped, NEW p \in Procs, NEW k \in DOMAIN socks[p],
                    Listeners[snapshot[p]][k].role # "mail"
             PROVE  LET l == Listeners[snapshot[p]][k]
                    IN  socks[p][k].ip \in IF l.listen.address = None THEN {"0.0.0.0"} ELSE l.listen.address
  BY Zenon DEF ListensAsTold
<1> DEFINE n == snapshot[p]
           listen == Listeners[n][k].listen
<1>1. k \in DOMAIN Listeners[n] /\ socks[p][k] = listen_addr(listen)
  BY Zenon DEF SInv, OwnSockets
<1>2. ppc[p] \in Late \cup {"bind"}
  BY Zenon, NowhereEmpty DEF SInv, Types, Empty, Phases
<1>3. n \in DOMAIN Configs /\ \E root : validate(Configs[n], root)
  <2>1. n \in DOMAIN Configs
    BY Zenon, <1>2 DEF SInv, Types
  <2>2. n # NoConfig
    BY Zenon, <2>1, StartupAssumption
  <2> QED
    BY Zenon, <2>1, <2>2 DEF Snapped, Loadable
<1>4. listen_ok(listen)
  BY Zenon, <1>1, <1>3, ValidatedListeners
<1> HIDE DEF listen
<1>5. CASE listen.address = {}
  BY SMTT(40), <1>1, <1>5 DEF listen_addr, None, listen
<1>6. CASE listen.address # {}
  <2>1. \E a \in listen.address : parses(a)
    BY Zenon, <1>4, <1>6 DEF listen_ok
  <2>2. listen_addr(listen).ip \in listen.address
    BY Zenon, <2>1 DEF listen_addr
  <2> QED
    BY Zenon, <1>1, <1>6, <2>2 DEF None, listen
<1> QED
  BY Zenon, <1>5, <1>6

(* At every time a socket of an http or stream listener has the address its directive names,
   or all interfaces if it names none: the fallback of listen_addr is never reached with an
   address that does not parse, because only configurations that load has taken are run. *)
THEOREM Told == Spec => []ListensAsTold
<1>1. Init => SInv /\ Snapped
  BY Zenon, InitSInv DEF Init, Snapped
<1>2. SInv /\ Snapped /\ [Next]_vars => (SInv /\ Snapped)'
  BY NextSInv, SnappedNext
<1> QED
  BY <1>1, <1>2, BoundAsTold, PTL DEF Spec
================================================================================
