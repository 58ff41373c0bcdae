------------------------------- MODULE Lifecycle -------------------------------
(***************************************************************************)
(* The running server: the configuration behind its RwLock, the signal     *)
(* handler, the accept loops that pick a reloaded configuration up, the    *)
(* connections they serve and shutdown (server.rs, after Server::run has   *)
(* spawned everything).                                                    *)
(*                                                                         *)
(* The reload broadcast channel has capacity 1: sent counts the messages,  *)
(* seen[l] is the position of a loop's receiver, and a receiver more than  *)
(* one message behind gets Lagged and is moved to the last one.            *)
(***************************************************************************)
EXTENDS Integers, FiniteSets

CONSTANTS PlainLoops,   \* accept_loop on "http" listeners
          TlsLoops,     \* accept_loop on "https" listeners
          QuicLoops,    \* accept_quic_loop
          Conns,
          MaxEdits,     \* bound: rewrites of the configuration file
          MaxHups,      \* bound: SIGHUPs
          MaxRenewals   \* bound: renewals begun in the background; 0: no block uses ACME

Loops == PlainLoops \cup TlsLoops \cup QuicLoops

ASSUME LifecycleAssumption ==
    /\ IsFiniteSet(Loops) /\ IsFiniteSet(Conns)
    /\ PlainLoops \cap TlsLoops = {} /\ (PlainLoops \cup TlsLoops) \cap QuicLoops = {}
    /\ MaxEdits \in Nat /\ MaxHups \in Nat /\ MaxRenewals \in Nat

VARIABLES
    disk,       \* the configuration file: its version and what the model needs of it
    config,     \* Server.config, behind the RwLock
    sig,        \* where the signal handler is
    fresh,      \* the signal handler's new_config
    hup, term,  \* signals raised and not yet received (signals of a kind coalesce)
    hups,       \* SIGHUPs raised so far
    sent, seen, \* the reload channel
    down,       \* a message is in the shutdown channel
    lpc,        \* where each accept loop is
    snap,       \* a loop's new_config
    block,      \* the version of the block and handler a loop serves with
    acceptor,   \* its tls_acceptor: "tls", or "none"
    conn,       \* the connections
    renewal,    \* where the task of acme_renewal_loop is
    renewals,   \* renewals begun so far
    up          \* "serving", then "exited"

vars == <<disk, config, sig, fresh, hup, term, hups, sent, seen, down, lpc, snap,
          block, acceptor, conn, renewal, renewals, up>>

Versions == 0 .. MaxEdits
\* valid: Config::load accepts the file.  pid: it names a pid_file.  blocks: the
\* loops whose http block it still has.  What else an invalid file says is never
\* looked at.
Configs == [ver : Versions, valid : {TRUE}, pid : BOOLEAN, blocks : SUBSET Loops]
             \cup [ver : Versions, valid : {FALSE}, pid : {TRUE}, blocks : {Loops}]
NoConn == [st |-> "closed", loop |-> "none", ver |-> 0, tls |-> FALSE]

Init ==
    /\ disk = [ver |-> 0, valid |-> TRUE, pid |-> TRUE, blocks |-> Loops]
    /\ config = disk /\ fresh = disk
    /\ sig = "wait" /\ hup = FALSE /\ term = FALSE /\ hups = 0
    /\ sent = 0 /\ seen = [l \in Loops |-> 0]
    /\ down = FALSE
    /\ lpc = [l \in Loops |-> "shutdown?"]
    /\ snap = [l \in Loops |-> disk]
    /\ block = [l \in Loops |-> 0]
    \* the acceptor built at startup: building it may already fail (.ok())
    /\ acceptor \in [Loops -> {"tls", "none"}]
    /\ \A l \in Loops : acceptor[l] = "tls" => l \notin PlainLoops
    /\ \A l \in QuicLoops : acceptor[l] = "tls"
    /\ conn = [c \in Conns |-> NoConn]
    /\ renewal = (IF MaxRenewals = 0 THEN "stopped" ELSE "waiting") /\ renewals = 0
    /\ up = "serving"

\* A connection whose task is dropped: a request it was serving is lost.
Cut(r) == [r EXCEPT !.st = IF r.st \in {"busy", "aborted"} THEN "aborted" ELSE "closed"]

loopvars == <<seen, lpc, snap, block, acceptor>>
envvars  == <<disk, hups, renewal, renewals>>
-------------------------------------------------------------------------------
(* The operator. *)
Edit ==
    /\ disk.ver < MaxEdits
    /\ disk' \in {d \in Configs : d.ver = disk.ver + 1}
    /\ UNCHANGED <<config, sig, fresh, hup, term, hups, sent, down, loopvars, conn,
                   renewal, renewals, up>>

RaiseHup ==
    /\ hups < MaxHups /\ up = "serving"
    /\ hups' = hups + 1 /\ hup' = TRUE
    /\ UNCHANGED <<disk, config, sig, fresh, term, sent, down, loopvars, conn,
                   renewal, renewals, up>>

RaiseTerm ==
    /\ ~term /\ up = "serving"
    /\ term' = TRUE
    /\ UNCHANGED <<envvars, config, sig, fresh, hup, sent, down, loopvars, conn, up>>
-------------------------------------------------------------------------------
(* signal_handler. *)
OnTerm ==
    /\ sig = "wait" /\ term
    /\ down' = TRUE /\ sig' = "gone"
    /\ UNCHANGED <<envvars, config, fresh, hup, term, sent, loopvars, conn, up>>

\* SIGHUP: the current configuration is read for its pid_file, and the file next
\* to it is loaded and validated; without a pid_file, or on an error, nothing
\* more happens.
OnHup ==
    /\ sig = "wait" /\ hup
    /\ hup' = FALSE
    /\ IF config.pid /\ disk.valid
       THEN fresh' = disk /\ sig' = "write"
       ELSE UNCHANGED <<fresh, sig>>
    /\ UNCHANGED <<envvars, config, term, sent, down, loopvars, conn, up>>

Write ==
    /\ sig = "write"
    /\ config' = fresh /\ sig' = "send"
    /\ UNCHANGED <<envvars, fresh, hup, term, sent, down, loopvars, conn, up>>

Send ==
    /\ sig = "send"
    /\ sent' = sent + 1 /\ sig' = "wait"
    /\ UNCHANGED <<envvars, config, fresh, hup, term, down, loopvars, conn, up>>

SignalStep == OnTerm \/ OnHup \/ Write \/ Send
-------------------------------------------------------------------------------
(* acme_renewal_loop: a biased select over shutdown and the check interval. *)
\* The certificate is due; issue_with_retry is awaited in the branch.
RenewalBegin ==
    /\ renewal = "waiting" /\ ~down /\ renewals < MaxRenewals
    /\ renewal' = "issuing" /\ renewals' = renewals + 1
    /\ UNCHANGED <<disk, hups, config, sig, fresh, hup, term, sent, down, loopvars, conn, up>>

\* A new certificate tells the loops to reload; a failure waits for the next check.
RenewalEnd ==
    /\ renewal = "issuing" /\ up = "serving"
    /\ renewal' = "waiting" /\ sent' \in {sent, sent + 1}
    /\ UNCHANGED <<disk, hups, renewals, config, sig, fresh, hup, term, down, loopvars, conn, up>>

RenewalStop ==
    /\ renewal = "waiting" /\ down
    /\ renewal' = "stopped"
    /\ UNCHANGED <<disk, hups, renewals, config, sig, fresh, hup, term, sent, down, loopvars,
                   conn, up>>
-------------------------------------------------------------------------------
(* accept_loop and accept_quic_loop: a biased select polls shutdown, then    *)
(* reload, then accept; a message may arrive between two of the polls.       *)
Goto(l, p) == lpc' = [lpc EXCEPT ![l] = p]
rest == <<envvars, config, sig, fresh, hup, term, sent, down, up>>

\* The shutdown branch breaks out of the loop; the QUIC loop then closes its
\* endpoint, and with it every connection of it.
PollShutdown(l) ==
    /\ lpc[l] = "shutdown?"
    /\ Goto(l, IF down THEN "stopped" ELSE "reload?")
    /\ conn' = IF down /\ l \in QuicLoops
               THEN [c \in Conns |-> IF conn[c].loop = l THEN Cut(conn[c]) ELSE conn[c]]
               ELSE conn
    /\ UNCHANGED <<rest, seen, snap, block, acceptor>>

\* Wrong on purpose: only an Ok from recv counts, and a Lagged receiver skips on.
PollIgnoresLag(l) ==
    /\ lpc[l] = "reload?"
    /\ seen' = [seen EXCEPT ![l] = sent]
    /\ Goto(l, IF sent = seen[l] + 1 THEN "read" ELSE "accept?")
    /\ UNCHANGED <<rest, conn, snap, block, acceptor>>

\* recv() yields Ok or Err(Lagged): either way the branch is taken.
PollReload(l) ==
    /\ lpc[l] = "reload?"
    /\ IF sent > seen[l]
       THEN /\ seen' = [seen EXCEPT ![l] = IF sent - seen[l] > 1 THEN sent - 1 ELSE sent]
            /\ Goto(l, "read")
       ELSE Goto(l, "accept?") /\ UNCHANGED seen
    /\ UNCHANGED <<rest, conn, snap, block, acceptor>>

\* config.read().await, and the clone.
ReadConfig(l) ==
    /\ lpc[l] = "read"
    /\ snap' = [snap EXCEPT ![l] = config]
    /\ Goto(l, "install")
    /\ UNCHANGED <<rest, conn, seen, block, acceptor>>

\* Wrong on purpose: a loop whose block is gone goes back to its first one.
InstallFallsBack(l) ==
    /\ lpc[l] = "install"
    /\ block' = [block EXCEPT ![l] = IF l \in snap[l].blocks THEN snap[l].ver ELSE 0]
    /\ Goto(l, "shutdown?")
    /\ UNCHANGED <<rest, conn, seen, snap, acceptor>>

\* The loop's own block of the new configuration, if there is one, replaces the
\* old; an https loop rebuilds its acceptor from the certificate files, and the
\* rebuild may fail.  The QUIC endpoint keeps the certificate it has.
Install(l) ==
    /\ lpc[l] = "install"
    /\ IF l \in snap[l].blocks
       THEN /\ block' = [block EXCEPT ![l] = snap[l].ver]
            /\ IF l \in TlsLoops
               THEN \E a \in {"tls", "none"} : acceptor' = [acceptor EXCEPT ![l] = a]
               ELSE UNCHANGED acceptor
       ELSE UNCHANGED <<block, acceptor>>
    /\ Goto(l, "shutdown?")
    /\ UNCHANGED <<rest, conn, seen, snap>>

\* build_logger: when neither the access log of the new block nor the one under ./logs can
\* be opened, it panics.  The task of the loop ends, and its listener with it; the
\* connections it has spawned go on.
LoggerPanics(l) ==
    /\ lpc[l] = "install" /\ l \in snap[l].blocks
    /\ Goto(l, "dead")
    /\ UNCHANGED <<rest, conn, seen, snap, block, acceptor>>

\* Wrong on purpose: the loop waits in accept without looking at shutdown again.
ParkInAccept(l) ==
    /\ lpc[l] = "accept?"
    /\ Goto(l, "reload?")
    /\ UNCHANGED <<rest, conn, seen, snap, block, acceptor>>

\* No connection is waiting: the loop sleeps until a branch is ready.
Park(l) ==
    /\ lpc[l] = "accept?"
    /\ Goto(l, "shutdown?")
    /\ UNCHANGED <<rest, conn, seen, snap, block, acceptor>>

Accept(l, c) ==
    /\ lpc[l] = "accept?" /\ conn[c].st = "closed" /\ up = "serving"
    /\ conn' = [conn EXCEPT ![c] = [st |-> "idle", loop |-> l, ver |-> block[l],
                                    tls |-> acceptor[l] = "tls"]]
    /\ Goto(l, "shutdown?")
    /\ UNCHANGED <<rest, seen, snap, block, acceptor>>

LoopStep(l) == \/ PollShutdown(l) \/ PollReload(l) \/ ReadConfig(l) \/ Install(l)
               \/ LoggerPanics(l) \/ Park(l)
-------------------------------------------------------------------------------
(* A connection's task serves requests with the handler it was spawned with. *)
SetConn(c, s) == conn' = [conn EXCEPT ![c].st = s] /\ UNCHANGED <<rest, loopvars>>

BeginRequest(c) == conn[c].st = "idle" /\ SetConn(c, "busy")
EndRequest(c)   == conn[c].st = "busy" /\ SetConn(c, "idle")
CloseConn(c)    == conn[c].st \in {"idle", "aborted"} /\ SetConn(c, "closed")

Ended == {"stopped", "dead"}

\* join_next() has drained the JoinSet (a panic is only logged): run() returns, main returns, and the
\* runtime drops the connection tasks it did not wait for.
Exit ==
    /\ up = "serving" /\ renewal = "stopped" /\ \A l \in Loops : lpc[l] \in Ended
    /\ up' = "exited"
    /\ conn' = [c \in Conns |-> Cut(conn[c])]
    /\ UNCHANGED <<envvars, config, sig, fresh, hup, term, sent, down, loopvars>>

Next ==
    \/ Edit \/ RaiseHup \/ RaiseTerm \/ SignalStep \/ Exit
    \/ RenewalBegin \/ RenewalEnd \/ RenewalStop
    \/ \E l \in Loops : LoopStep(l)
    \/ \E l \in Loops, c \in Conns : Accept(l, c)
    \/ \E c \in Conns : BeginRequest(c) \/ EndRequest(c) \/ CloseConn(c)

\* Tokio goes on polling the tasks of the server.  Nothing is assumed of the
\* operator, of clients, of how long a request takes, or of the CA: issuance has
\* no deadline.
Spec == Init /\ [][Next]_vars /\ WF_vars(SignalStep) /\ WF_vars(Exit) /\ WF_vars(RenewalStop)
             /\ \A l \in Loops : WF_vars(LoopStep(l))
-------------------------------------------------------------------------------

(* No reload is lost, although the channel keeps one message only: a loop that
   serves an older configuration than the current one has a message to read, or
   is on its way to the configuration, or is about to be sent a message (a loop
   whose block the new configuration drops keeps the old one). *)
StaleOnlyIfPending ==
    \A l \in Loops :
        (lpc[l] \notin Ended /\ l \in config.blocks /\ block[l] # config.ver) =>
            \/ seen[l] < sent \/ sig = "send"
            \/ lpc[l] = "read" \/ (lpc[l] = "install" /\ snap[l] = config)

(* A loop never goes back to an older configuration, however reloads, renewals
   and the loop's own read of the configuration interleave. *)
NeverBackwards == [][\A l \in Loops : block'[l] >= block[l]]_vars

(* A configuration that was swapped in reaches every loop whose block it has,
   unless a later one does, or the loop has ended: at shutdown, or because the reload
   found no access log to open and killed it. *)
ReloadReaches ==
    \A l \in Loops, v \in Versions :
        (config.ver = v /\ l \in config.blocks)
            ~> (block[l] >= v \/ config.ver > v \/ lpc[l] \in Ended)

(* SIGTERM ends the process, whatever requests are in flight and whatever reloads
   are under way.  The one thing that holds it up is a renewal that awaits the CA:
   its task does not look at the shutdown channel then, and run() joins it. *)
TermExits == term ~> (up = "exited" \/ renewal = "issuing")

(* Contract, criterion 13: "SIGTERM during an active request: the request
   completes before the process exits." *)
RequestsDrained == \A c \in Conns : conn[c].st # "aborted"

(* Contract, invariant 47: a reloaded configuration is "fully validated and
   initialized before replacing active runtime state": a listener that serves
   TLS still does after a reload. *)
ReloadKeepsTls == [][\A l \in TlsLoops : acceptor[l] = "tls" => acceptor'[l] = "tls"]_vars
===============================================================================
