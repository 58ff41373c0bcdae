-------------------------------- MODULE Startup --------------------------------
(***************************************************************************)
(* Starting the server: main (main.rs), Server::run up to its join loop    *)
(* (server.rs) and drop_privileges (security/privilege.rs), by several     *)
(* processes that are started from one configuration file and compete for  *)
(* its ports.  Signals may arrive at any point: before                     *)
(* the signal handler is installed they have their default effect.  What   *)
(* happens to a reload or a shutdown behind the signal handler is          *)
(* Lifecycle's subject, issuance itself is AcmeCert's.                     *)
(***************************************************************************)
EXTENDS Config

CONSTANTS Procs,
          Disks,        \* what the files may hold: functions from paths to an Option of a content
          ConfigPath,   \* the path of --config
          Accounts,     \* the user database: a function from names to [uid, gid]
          Boots         \* the credentials a process may be started with

NoConfig == "none"

ASSUME StartupAssumption ==
    /\ \A d \in Disks : ConfigPath \in DOMAIN d
    /\ \A u \in DOMAIN Accounts : Accounts[u].uid \in Nat /\ Accounts[u].gid \in Nat
    /\ Boots \subseteq [uid : Nat, gid : Nat, groups : SUBSET Nat]
    /\ \A n \in DOMAIN Configs :
           LET c == Configs[n]
           IN  /\ \A u, v \in c.user : u = v
               /\ IsVec(c.http) /\ IsVec(c.stream)
               /\ \A b \in ToSet(c.http) : IsVec(b.listen)
               /\ \A mail \in c.mail : IsVec(mail.listen)
    /\ NoConfig \notin DOMAIN Configs

VARIABLES
    disk, boot, \* the files, and the credentials processes are started with
    ppc,        \* where a process is
    cred,       \* its credentials: [uid, gid, groups]
    config,     \* Server.config (a content)
    snapshot,   \* run()'s config_snapshot
    next,       \* the number of the listener that is bound next
    socks,      \* the sockets it holds: a function from listener numbers to addresses
    loops,      \* the accept loops it has spawned: a function from listener numbers to states
    managers,   \* the blocks whose ensure_cert is still to be awaited
    hup,        \* a SIGHUP waits for the signal handler
    fault       \* a signal or a CA that fails has interfered

local == <<ppc, cred, config, snapshot, next, socks, loops, managers, hup>>
vars == <<disk, boot, fault, local>>

None == {}
Nowhere == <<>>     \* the function without arguments: no socket, no loop
-------------------------------------------------------------------------------
\* The listeners in the order in which run() binds them.
Listen(role, idx, listens) ==
    [i \in 1 .. Len(listens) |-> [role |-> role, idx |-> idx, listen |-> listens[i]]]

AllListeners(c) ==
    FlattenSeq([i \in 1 .. Len(c.http) |-> Listen("http", i, c.http[i].listen)])
    \o [i \in 1 .. Len(c.stream) |-> [role |-> "stream", idx |-> i, listen |-> c.stream[i].listen]]
    \o IF c.mail = {} THEN <<>> ELSE Listen("mail", 1, (CHOOSE mail \in c.mail : TRUE).listen)

Listeners == [n \in DOMAIN Configs |-> AllListeners(Configs[n])]

plain == {"tcp", "http"}
tls   == {"tls", "https"}
quic  == {"quic", "h3", "http3"}

\* A listener of an http block whose protocol is not known is only warned about.
Known(l) == l.role # "http" \/ l.listen.protocol \in plain \cup tls \cup quic
IsTls(l)  == l.role = "http" /\ l.listen.protocol \in tls
IsQuic(l) == l.role = "http" /\ l.listen.protocol \in quic

\* The blocks that get an AcmeManager.
acme_managers(c) ==
    {i \in 1 .. Len(c.http) : \E ssl \in c.http[i].ssl : \E acme \in ssl.acme : acme.enabled}

\* Where a listener is bound: an address that is missing, or does not parse, is 0.0.0.0.
listen_addr(listen) ==
    [ip   |-> IF \E a \in listen.address : parses(a) THEN CHOOSE a \in listen.address : TRUE ELSE "0.0.0.0",
     port |-> listen.port]

\* bind(2): two sockets collide on one port unless their addresses differ.
Collide(k, a, j, b) ==
    /\ IsQuic(k) = IsQuic(j) /\ a.port = b.port /\ a.port # 0
    /\ a.ip = b.ip \/ "0.0.0.0" \in {a.ip, b.ip}
-------------------------------------------------------------------------------
(* setgroups(2), setgid(2) and setuid(2), each on the outcome of the one before:
   None once a call has failed. *)
setgroups(cs, gid) == {[c EXCEPT !.groups = {gid}] : c \in {d \in cs : d.uid = 0}}
setgid(cs, gid) == {[c EXCEPT !.gid = gid] : c \in {d \in cs : d.uid = 0 \/ d.gid = gid}}
setuid(cs, uid) == {[c EXCEPT !.uid = uid] : c \in {d \in cs : d.uid = 0 \/ d.uid = uid}}

\* Wrong on purpose: root's supplementary groups are kept.
DropKeepsGroups(c, user) ==
    IF c.uid # 0 THEN {c}
    ELSE UNION {setuid(setgid({c}, Accounts[u].gid), Accounts[u].uid) : u \in {user} \cap DOMAIN Accounts}

\* Wrong on purpose: the uid is dropped first.
DropUidFirst(c, user) ==
    IF c.uid # 0 THEN {c}
    ELSE UNION {setgid(setgroups(setuid({c}, Accounts[u].uid), Accounts[u].gid), Accounts[u].gid)
                : u \in {user} \cap DOMAIN Accounts}

\* None: the user is unknown, a call fails, or root can be regained.
drop_privileges(c, user) ==
    IF c.uid # 0 THEN {c}
    ELSE {d \in UNION {setuid(setgid(setgroups({c}, Accounts[u].gid), Accounts[u].gid), Accounts[u].uid)
                       : u \in {user} \cap DOMAIN Accounts} :
             Accounts[user].uid # 0 => setuid({d}, 0) = None}

\* open(2) for reading; no file is shared through its group.
readable(path, c) ==
    /\ exists(path)
    /\ \/ c.uid = 0
       \/ Files[path].owner = c.uid /\ (Files[path].mode \div 256) % 2 = 1
       \/ (Files[path].mode \div 4) % 2 = 1

\* create_dir_all and open(2) for appending.  For a log that is yet to be created, Files has
\* the directory it would be created below.
appendable(path, c) ==
    /\ exists(path)
    /\ \/ c.uid = 0
       \/ Files[path].owner = c.uid /\ (Files[path].mode \div 128) % 2 = 1
       \/ (Files[path].mode \div 2) % 2 = 1

\* build_logger: the log of the block, or else the fallback.  Without either it panics.
build_logger(path, c) == appendable(path, c) \/ appendable("./logs/access.log", c)
-------------------------------------------------------------------------------
Init ==
    /\ disk \in Disks /\ boot \in Boots
    /\ ppc = [p \in Procs |-> "off"] /\ cred = [p \in Procs |-> boot]
    /\ config = [p \in Procs |-> NoConfig] /\ snapshot = [p \in Procs |-> NoConfig]
    /\ next = [p \in Procs |-> 1]
    /\ socks = [p \in Procs |-> Nowhere] /\ loops = [p \in Procs |-> Nowhere]
    /\ managers = [p \in Procs |-> {}] /\ hup = [p \in Procs |-> FALSE]
    /\ fault = FALSE

\* The process ends; its tasks, sockets and credentials go with it.
Exit(p) ==
    /\ ppc' = [ppc EXCEPT ![p] = "off"] /\ cred' = [cred EXCEPT ![p] = boot]
    /\ config' = [config EXCEPT ![p] = NoConfig] /\ snapshot' = [snapshot EXCEPT ![p] = NoConfig]
    /\ next' = [next EXCEPT ![p] = 1]
    /\ socks' = [socks EXCEPT ![p] = Nowhere] /\ loops' = [loops EXCEPT ![p] = Nowhere]
    /\ managers' = [managers EXCEPT ![p] = {}] /\ hup' = [hup EXCEPT ![p] = FALSE]
    /\ UNCHANGED <<disk, boot>>

\* A process is started, with or without --test.
Start(p) ==
    /\ ppc[p] = "off" /\ \E how \in {"main", "test"} : ppc' = [ppc EXCEPT ![p] = how]
    /\ UNCHANGED <<disk, boot, cred, config, snapshot, next, socks, loops, managers, hup, fault>>

\* main: under --test, or when the file is not taken, that is all.  run() then writes the
\* pid file, which no part of the program reads, and collects the ACME managers.
Main(p) ==
    LET loaded == load(disk[ConfigPath], cred[p].uid = 0)
    IN
    /\ ppc[p] \in {"main", "test"} /\ UNCHANGED fault
    /\ IF loaded = None \/ ppc[p] = "test" THEN Exit(p)
       ELSE \E n \in loaded :
              /\ config' = [config EXCEPT ![p] = n] /\ snapshot' = [snapshot EXCEPT ![p] = n]
              /\ managers' = [managers EXCEPT ![p] = acme_managers(Configs[n])]
              /\ ppc' = [ppc EXCEPT ![p] = "bind"]
              /\ UNCHANGED <<disk, boot, cred, next, socks, loops, hup>>
-------------------------------------------------------------------------------
(* Server::run. *)
snap(p) == Configs[snapshot[p]]

\* bind(2) also fails for a port below 1024 without root.
CanBind(l, addr, c) ==
    /\ addr.port \in 1 .. 1023 => c.uid = 0
    /\ ~\E q \in Procs : \E k \in DOMAIN socks[q] :
           Collide(Listeners[snapshot[q]][k], socks[q][k], l, addr)

\* The next listener has been dealt with: bound to addr, or (new = {}) not bound.
Bound(p, new, addr) ==
    /\ socks' = [socks EXCEPT ![p] = [k \in DOMAIN socks[p] \cup new |-> IF k \in new THEN addr ELSE socks[p][k]]]
    /\ next' = [next EXCEPT ![p] = next[p] + 1]
    /\ UNCHANGED <<disk, boot, ppc, cred, config, snapshot, loops, managers, hup>>

\* Wrong on purpose: a listener that cannot be bound is left out.
BindOrSkip(p) ==
    LET l == Listeners[snapshot[p]][next[p]] addr == listen_addr(l.listen)
    IN
    /\ ppc[p] = "bind" /\ next[p] \in DOMAIN Listeners[snapshot[p]] /\ UNCHANGED fault
    /\ IF Known(l) /\ CanBind(l, addr, cred[p]) THEN Bound(p, {next[p]}, addr) ELSE Bound(p, {}, addr)

\* The listeners are bound one after the other; a failure ends the process.
Bind(p) ==
    LET l == Listeners[snapshot[p]][next[p]] addr == listen_addr(l.listen)
    IN
    /\ ppc[p] = "bind" /\ next[p] \in DOMAIN Listeners[snapshot[p]] /\ UNCHANGED fault
    /\ IF ~Known(l) THEN Bound(p, {}, addr)
       ELSE IF CanBind(l, addr, cred[p]) THEN Bound(p, {next[p]}, addr) ELSE Exit(p)

\* Everything is bound.
Drop(p) ==
    LET dropped == UNION {drop_privileges(cred[p], user) : user \in snap(p).user}
    IN
    /\ ppc[p] = "bind" /\ DOMAIN Listeners[snapshot[p]] \subseteq 1 .. next[p] - 1 /\ UNCHANGED fault
    /\ IF snap(p).user # None /\ dropped = None THEN Exit(p)
       ELSE /\ cred' \in {[cred EXCEPT ![p] = c] : c \in IF snap(p).user = None THEN {cred[p]} ELSE dropped}
            /\ ppc' = [ppc EXCEPT ![p] = "spawn"]
            /\ UNCHANGED <<disk, boot, config, snapshot, next, socks, loops, managers, hup>>

\* QUIC is served when the block has http3 and, without ACME, an ssl section.
block(n, l) == Configs[n].http[l.idx]
Deferred(n, l) == (IsTls(l) \/ IsQuic(l)) /\ l.idx \in acme_managers(Configs[n])
Served(n, l) == IsQuic(l) => block(n, l).http3 /\ (Deferred(n, l) \/ block(n, l).ssl # None)

\* Loops for everything but the listeners that wait for a certificate; the sockets of
\* QUIC listeners that are not served are closed.
Spawn(p) ==
    LET n      == snapshot[p]
        served == {k \in DOMAIN socks[p] : Served(n, Listeners[n][k])}
        now    == {k \in served : ~Deferred(n, Listeners[n][k])}
    IN
    /\ ppc[p] = "spawn"
    /\ ppc' = [ppc EXCEPT ![p] = "issue"]
    /\ socks' = [socks EXCEPT ![p] = [k \in served |-> socks[p][k]]]
    /\ loops' = [loops EXCEPT ![p] = [k \in now |-> "spawned"]]
    /\ UNCHANGED <<disk, boot, cred, config, snapshot, next, managers, hup, fault>>

\* The files issuance reads, as the user the process has become.
load_eab(acme, c) == \A eab \in acme.eab : readable(eab.hmac_key, c)
post_dns_webhook(acme, c) == \A webhook \in acme.dns_webhook : \A path \in webhook.auth_header : readable(path, c)

Issuable(n, i, c) ==
    \A ssl \in Configs[n].http[i].ssl : \A acme \in ssl.acme :
        load_eab(acme, c) /\ (acme.challenge_types = {"dns-01"} => post_dns_webhook(acme, c))

\* ensure_cert for the managers in any order.  When it succeeds, if only because of a
\* certificate from an earlier run, the listeners of the block are served; when it fails,
\* the process ends.
Issue(p, i) ==
    LET n     == snapshot[p]
        ready == {k \in DOMAIN socks[p] : Deferred(n, Listeners[n][k]) /\ Listeners[n][k].idx = i}
    IN
    /\ ppc[p] = "issue" /\ i \in managers[p]
    /\ \/ /\ loops' = [loops EXCEPT ![p] = [k \in DOMAIN loops[p] \cup ready |->
                                                IF k \in ready THEN "spawned" ELSE loops[p][k]]]
          /\ managers' = [managers EXCEPT ![p] = managers[p] \ {i}]
          /\ UNCHANGED <<disk, boot, ppc, cred, config, snapshot, next, socks, hup, fault>>
       \/ ~Issuable(n, i, cred[p]) /\ Exit(p) /\ UNCHANGED fault
       \/ Exit(p) /\ fault' = TRUE

\* Only now is the signal handler spawned; it registers for the signals when it is
\* first polled.
Join(p) ==
    /\ ppc[p] = "issue" /\ managers[p] = {}
    /\ ppc' = [ppc EXCEPT ![p] = "join"]
    /\ UNCHANGED <<disk, boot, cred, config, snapshot, next, socks, loops, managers, hup, fault>>

Register(p) ==
    /\ ppc[p] = "join"
    /\ ppc' = [ppc EXCEPT ![p] = "handling"]
    /\ UNCHANGED <<disk, boot, cred, config, snapshot, next, socks, loops, managers, hup, fault>>

\* The certificate and the key of a static block can be loaded.
CanLoad(b, c) ==
    \E ssl \in b.ssl : /\ ssl.certificate # None /\ ssl.certificate_key # None
                       /\ \A path \in ssl.certificate \cup ssl.certificate_key : readable(path, c)

\* The key of a listener that waited for issuance is the user's own.
HasPair(n, l, c) == Deferred(n, l) \/ CanLoad(block(n, l), c)

\* What accept_loop does before it accepts: a TLS loop that gets no acceptor serves
\* without TLS (.ok()); without a log the task panics.  Streams and mail are not logged.
accept_loop(n, l, c) ==
    IF l.role = "http" /\ ~build_logger(block(n, l).access_log, c) THEN "ended"
    ELSE IF IsTls(l) /\ HasPair(n, l, c) THEN "tls" ELSE "plain"

\* Without a pair accept_quic_loop returns its error, without a log it panics.
accept_quic_loop(n, l, c) ==
    IF HasPair(n, l, c) /\ build_logger(block(n, l).access_log, c) THEN "quic" ELSE "ended"

Prologue(n, l, c) == IF IsQuic(l) THEN accept_quic_loop(n, l, c) ELSE accept_loop(n, l, c)

\* The loops begin; as they share nothing yet, those that were spawned begin together.
LoopsBegin(p) ==
    LET n     == snapshot[p]
        begun == [k \in DOMAIN loops[p] |-> IF loops[p][k] = "spawned"
                                               THEN Prologue(n, Listeners[n][k], cred[p]) ELSE loops[p][k]]
    IN
    /\ \E k \in DOMAIN loops[p] : loops[p][k] = "spawned"
    /\ loops' = [loops EXCEPT ![p] = begun]
    /\ socks' = [socks EXCEPT ![p] = [k \in {j \in DOMAIN socks[p] : j \in DOMAIN begun => begun[j] # "ended"}
                                         |-> socks[p][k]]]
    /\ UNCHANGED <<disk, boot, ppc, cred, config, snapshot, next, managers, hup, fault>>

\* run() returns when all its tasks have; the renewal tasks only do so at shutdown.
Done(p) ==
    /\ ppc[p] \in {"join", "handling"} /\ acme_managers(snap(p)) = {}
    /\ \A k \in DOMAIN loops[p] : loops[p][k] = "ended"
    /\ Exit(p) /\ UNCHANGED fault
-------------------------------------------------------------------------------
Running(p) == ppc[p] # "off"

\* SIGTERM ends the process, with or without the signal handler.
Term(p) == Running(p) /\ Exit(p) /\ fault' = TRUE

\* SIGHUP, too, as long as nobody has registered for it.
Hup(p) ==
    /\ Running(p)
    /\ IF ppc[p] = "handling"
       THEN /\ ~hup[p] /\ hup' = [hup EXCEPT ![p] = TRUE]
            /\ UNCHANGED <<disk, boot, ppc, cred, config, snapshot, next, socks, loops, managers, fault>>
       ELSE Exit(p) /\ fault' = TRUE

\* The file of a reload: pid_file.replace(".pid", ".conf").  A path is <<stem, extension>>.
conf_path(pid_file) == IF pid_file[2] = "pid" THEN <<pid_file[1], "conf">> ELSE pid_file

Reloaded(p) ==
    UNION {load(disk[conf_path(f)], cred[p].uid = 0) :
              f \in {g \in Configs[config[p]].pid_file : conf_path(g) \in DOMAIN disk}}

Reload(p) ==
    /\ hup[p] /\ hup' = [hup EXCEPT ![p] = FALSE]
    /\ config' \in IF Reloaded(p) = None THEN {config} ELSE {[config EXCEPT ![p] = n] : n \in Reloaded(p)}
    /\ UNCHANGED <<disk, boot, ppc, cred, snapshot, next, socks, loops, managers, fault>>

RunStep(p) == Main(p) \/ Bind(p) \/ Drop(p) \/ Spawn(p) \/ Join(p) \/ Done(p)
CaAnswers(p) == \E i \in managers[p] : Issue(p, i)

Next == \E p \in Procs : Start(p) \/ RunStep(p) \/ CaAnswers(p) \/ Register(p) \/ LoopsBegin(p) \/ Reload(p) \/ Term(p) \/ Hup(p)

\* The tasks of a process that has been started are scheduled; nobody has to start one or
\* to send signals, and no CA has to answer (the ACME client has no timeout).
Spec == Init /\ [][Next]_vars
             /\ \A p \in Procs : WF_vars(RunStep(p)) /\ WF_vars(Register(p))
                                    /\ WF_vars(LoopsBegin(p)) /\ WF_vars(Reload(p))
-------------------------------------------------------------------------------
Exclusive(l) == Known(l) /\ ~IsQuic(l) /\ l.listen.port # 0

\* The process accepts on a TCP port that it has for itself.
Accepts(p) == \E k \in DOMAIN loops[p] : loops[p][k] \in {"tls", "plain"} /\ Exclusive(Listeners[snapshot[p]][k])

(* Two processes that were started from one configuration never both accept, on whichever
   of its TCP ports, although both may be under way: run() spawns no loop before all its
   sockets are bound, gives up when one cannot be, and a socket is given back before the
   process ends only by a loop that finds no log, which no other process would find. *)
OneServer == \A p, q \in Procs : (p # q /\ snapshot[p] = snapshot[q]) => ~(Accepts(p) /\ Accepts(q))

(* Invariant 9 of the contract, where `user` is configured: an accept loop of a process that
   root has started runs with the user, the group and the groups of that account and no
   other, also if issuance spawns it much later. *)
UnprivilegedLoops ==
    \A p \in Procs : (boot.uid = 0 /\ loops[p] # Nowhere) =>
        \A user \in snap(p).user :
            /\ user \in DOMAIN Accounts
            /\ cred[p] = [uid |-> Accounts[user].uid, gid |-> Accounts[user].gid,
                          groups |-> {Accounts[user].gid}]

(* A listener of an http or stream block is bound where its directive says.
   (listen_addr falls back to all interfaces for an address that does not parse, and the
   validator does not look at those of mail listeners.) *)
ListensAsTold ==
    \A p \in Procs : \A k \in DOMAIN socks[p] :
        LET l == Listeners[snapshot[p]][k]
        IN  l.role # "mail" => socks[p][k].ip \in IF l.listen.address = None THEN {"0.0.0.0"}
                                                   ELSE l.listen.address

\* The names that two splits answer for: the router and the lookup mean different splits, or
\* a pin of another sticky split is taken for one of this.
Ambiguous(b, name) ==
    \/ Kept(b, name) # Found(b, name)
    \/ \E i, j \in StickySplits(b) : i # j /\ b.ab_splits[i].name = name

(* In a configuration that was taken, at startup or by a reload, a proxied location resolves
   to a pool for every hash and every pin of a session, as validate has looked up the pools
   of all groups.  What it leaves of the 502 of select_upstream: the router does name a
   group, but not one of the split the lookup finds, and it does so only under a name that
   two splits answer for. *)
Foreign(b, name, hash, pin) ==
    /\ Ambiguous(b, name) /\ Chosen(b, name, hash, pin) # {}
    /\ \A i \in Found(b, name) : \A g \in ToSet(b.ab_splits[i].groups) : g.name \notin Chosen(b, name, hash, pin)
Resolvable(b) ==
    \A location \in b.locations : \A hash \in Hashes : \A pin \in Pins(b) :
        is_proxy(location) => \/ select_upstream(b, location, hash, pin) # {}
                              \/ \E name \in location.ab_split : Foreign(b, name, hash, pin)
Routable == {n \in DOMAIN Configs : \A b \in ToSet(Configs[n].http) : Resolvable(b)}
RoutesResolve == \A p \in Procs : config[p] \in Routable \cup {NoConfig}

\* The listeners do not stand in each other's way, and `user` can bind, be found, read
\* what it needs and write a log.
Startable(n, c) ==
    LET user  == Configs[n].user
        after == IF c.uid # 0 \/ user = None THEN c ELSE [c EXCEPT !.uid = Accounts[CHOOSE u \in user : TRUE].uid]
    IN
    /\ (\E k \in DOMAIN Listeners[n] : Exclusive(Listeners[n][k])) /\ (c.uid = 0 => user \subseteq DOMAIN Accounts)
    /\ \A k \in DOMAIN Listeners[n] : listen_addr(Listeners[n][k].listen).port \in 1 .. 1023 => c.uid = 0
    /\ \A i, j \in DOMAIN Listeners[n] : i # j =>
           ~Collide(Listeners[n][i], listen_addr(Listeners[n][i].listen),
                    Listeners[n][j], listen_addr(Listeners[n][j].listen))
    /\ \A i \in acme_managers(Configs[n]) : Issuable(n, i, after)
    /\ \A b \in ToSet(Configs[n].http) : build_logger(b.access_log, after)

\* The process waits for a CA that never answers.
Unanswered(p) == [](ppc[p] = "issue" /\ managers[p] # {})

\* Every listener is served (a QUIC listener unless its certificate did not load).
AllUp(p) ==
    /\ ppc[p] = "handling"
    /\ \A k \in DOMAIN Listeners[snapshot[p]] :
           LET l == Listeners[snapshot[p]][k]
           IN  Known(l) /\ Served(snapshot[p], l) =>
                   k \in DOMAIN loops[p] /\ loops[p][k] \in {"tls", "plain", IF IsQuic(l) THEN "ended" ELSE "plain", "quic"}

(* When processes are started from a configuration that can be served, one of them ends up
   serving all of it, privileged ports and deferred listeners included, unless a signal or
   the CA (by an error, or by never answering) gets in the way: contenders bind in the
   same order, so they do not all fail. *)
OneComesUp ==
    \A p \in Procs :
        (ppc[p] = "main" /\ \E n \in load(disk[ConfigPath], boot.uid = 0) : Startable(n, boot))
            ~> (fault \/ \E q \in Procs : AllUp(q) \/ Unanswered(q))

(* Criterion 8 of the contract: a SIGHUP applies the configuration file.  Here: the very file
   the process was started with is taken again. *)
ReloadAccepts ==
    \A p \in Procs : (hup[p] /\ \E f \in Configs[config[p]].pid_file : conf_path(f) = ConfigPath)
                        => Reloaded(p) # None
===============================================================================
