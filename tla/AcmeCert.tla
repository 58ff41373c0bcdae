------------------------------- MODULE AcmeCert -------------------------------
(***************************************************************************)
(* One block with acme.enabled: issuance at startup and renewal in the     *)
(* background (AcmeManager in acme.rs, Server::run and acme_renewal_loop   *)
(* in server.rs), the two files the certificate and its key are kept in,   *)
(* and the TLS and QUIC loops that load them.  The process may be killed   *)
(* at any point and started again; the files stay as they are.             *)
(*                                                                         *)
(* A certificate and the key it was issued for carry the same id.  An id   *)
(* that is nowhere in use any more may be issued again, so renewal can go  *)
(* on for ever in a finite model.                                          *)
(***************************************************************************)
EXTENDS Integers, FiniteSets

CONSTANTS Loops,        \* the TLS and QUIC accept loops of the block
          Ids,          \* issued pairs
          Responders,   \* who may be able to answer the configured challenge (see Answerable)
          MaxAttempts,  \* max_attempts (5 in the code)
          Interval,     \* renewal_check_interval
          RetryAfters,  \* what a Retry-After may ask for; 0: there is no such header
          MaxCaFaults,  \* bound: attempts the CA fails although it could have validated
          MaxBreaks     \* bound: writes of a file that fail and kills of the process, together

Missing == 0
Torn == -1      \* a file that was truncated and not written
NoPair == <<Missing, Missing>>

ASSUME AcmeAssumption ==
    /\ Ids \subseteq Nat \ {0} /\ IsFiniteSet(Loops)
    /\ MaxAttempts \in Nat \ {0} /\ Interval \in Nat /\ RetryAfters \subseteq Nat
    /\ MaxCaFaults \in Nat /\ MaxBreaks \in Nat
    /\ Responders \subseteq {"http", "tls", "nobody"}

VARIABLES
    QuicLoops,  \* the loops on UDP sockets
    responder,  \* who can
    cert, key,  \* the two files
    due,        \* the certificate on disk is within renewal_window of its expiry
    mpc,        \* where the manager is: run() before serving, the renewal task after
    started,    \* run() has got past ensure_cert
    new,        \* the pair being written (Missing: none is)
    attempt,    \* issue_with_retry's local (1 outside of it)
    wait,       \* what is left of a sleep
    server,     \* the Retry-After that issue_with_retry goes by
    slept,      \* history: the time since the last attempt failed
    lpc, got,   \* where a loop is, and the certificate it has read
    acc,        \* the pair a loop serves; NoPair: it has no acceptor
    pend,       \* a reload message waits for the loop
    crashes, caFaults, ioFaults

vars == <<QuicLoops, responder, cert, key, due, mpc, started, new, attempt, wait, server,
          slept, lpc, got, acc, pend, crashes, caFaults, ioFaults>>
faults == <<crashes, caFaults, ioFaults>>
conf == <<QuicLoops, responder>>
files == <<conf, cert, key>>
retry == <<server, slept>>
TlsLoops == Loops \ QuicLoops
loops == <<lpc, got, acc, pend>>

Larger(a, b) == IF a > b THEN a ELSE b
InUse == {cert, key} \cup {acc[l][1] : l \in Loops} \cup {acc[l][2] : l \in Loops}
                     \cup {got[l] : l \in Loops}

Init ==
    /\ QuicLoops \in SUBSET Loops
    /\ responder \in Responders
    /\ \E n \in {Missing, CHOOSE i \in Ids : TRUE} : cert = n /\ key = n
    /\ due = FALSE /\ mpc = "startup" /\ started = FALSE /\ new = Missing
    /\ attempt = 1 /\ wait = 0 /\ server = 0 /\ slept = 0
    /\ crashes = 0 /\ caFaults = 0 /\ ioFaults = 0
    /\ lpc = [l \in Loops |-> "off"] /\ got = [l \in Loops |-> Missing]
    /\ acc = [l \in Loops |-> NoPair] /\ pend = [l \in Loops |-> FALSE]
-------------------------------------------------------------------------------
(* load_certified_key: both files parse.  Whether they belong together is not
   looked at. *)
has_usable_cert == cert \in Ids /\ key \in Ids

\* run(): the deferred listeners are spawned, and the renewal task, which sleeps.
Serve ==
    /\ lpc' = [l \in Loops |-> "read cert"]
    /\ started' = TRUE /\ mpc' = "sleep" /\ wait' = Interval
    /\ UNCHANGED <<got, acc, pend>>

\* ensure_cert.
EnsureCert ==
    /\ mpc = "startup"
    /\ IF has_usable_cert
       THEN Serve /\ UNCHANGED attempt
       ELSE mpc' = "attempt" /\ attempt' = 1 /\ UNCHANGED <<started, wait, loops>>
    /\ UNCHANGED <<files, due, new, retry, faults>>

\* An acme-tls/1 handshake needs a TLS loop with an acceptor.
TlsAnswers == \E l \in TlsLoops : lpc[l] # "off" /\ acc[l] # NoPair

\* Wrong on purpose: the HTTP listeners, too, wait for the certificate.
AnswerableLate == TlsAnswers

\* The CA can check the challenge.  "http": http-01 in a block with a plain listener, which
\* serves the tokens of its own block from the start; "nobody": http-01 without one, which
\* the validator takes; "tls": tls-alpn-01.
Answerable == responder = "http" \/ (responder = "tls" /\ TlsAnswers)

\* try_issue up to poll_certificate.
Validated ==
    /\ mpc = "attempt" /\ Answerable
    /\ Ids \ InUse # {} /\ new' = CHOOSE n \in Ids \ InUse : TRUE    \* bound: Ids
    /\ mpc' = "open cert"
    /\ UNCHANGED <<files, due, started, attempt, wait, retry, loops, faults>>

\* Wrong on purpose: startup goes on without a certificate.
GiveUpServes ==
    /\ IF started THEN mpc' = "sleep" /\ wait' = Interval /\ UNCHANGED <<started, loops>>
                  ELSE Serve
    /\ attempt' = 1

\* issue_with_retry returns the error: run() bails out, or the renewal task waits
\* for its next check.
GiveUp ==
    /\ IF started THEN mpc' = "sleep" /\ wait' = Interval
                  ELSE mpc' = "down" /\ UNCHANGED wait
    /\ attempt' = 1
    /\ UNCHANGED <<started, loops>>

\* 1 << min(attempt - 1, 6), in seconds.
Backoff == <<1, 2, 4, 8, 16, 32, 64>>[IF attempt > 7 THEN 7 ELSE attempt]

\* Wrong on purpose: the backoff wins over a longer Retry-After.
RetryOnBackoff(secs) ==
    /\ mpc' = "backoff" /\ wait' = Backoff /\ server' = secs
    /\ UNCHANGED <<started, loops, attempt, slept>>

\* inv 71: the longer of Retry-After and the exponential backoff.
Retry(secs) ==
    /\ mpc' = "backoff" /\ wait' = Larger(secs, Backoff) /\ server' = secs
    /\ UNCHANGED <<started, loops, attempt, slept>>

\* What the CA may answer: 503 stands for every other status.
Refusals == [status : {429, 503}, form : {"seconds", "date"}, after : RetryAfters]

\* The client notes the Retry-After of a 429 that parses as a number of seconds, and no
\* other.
request(rsp) == IF rsp.status = 429 /\ rsp.form = "seconds" THEN rsp.after ELSE 0

\* An attempt failed at the CA.
AttemptFails ==
    /\ mpc = "attempt" /\ (caFaults < MaxCaFaults \/ ~Answerable)
    /\ caFaults' = IF Answerable THEN caFaults + 1 ELSE caFaults
    /\ IF attempt >= MaxAttempts THEN GiveUp /\ UNCHANGED retry
       ELSE \E rsp \in Refusals : Retry(request(rsp))
    /\ UNCHANGED <<files, due, new, crashes, ioFaults>>

NextAttempt ==
    /\ mpc = "backoff" /\ wait = 0
    /\ mpc' = "attempt" /\ attempt' = attempt + 1 /\ server' = 0 /\ slept' = 0
    /\ UNCHANGED <<files, due, started, new, wait, loops, faults>>
-------------------------------------------------------------------------------
(* write_cert: fs::write truncates and then writes, the certificate first. *)
OpenCert ==
    /\ mpc = "open cert"
    /\ cert' = Torn /\ mpc' = "write cert"
    /\ UNCHANGED <<conf, key, due, started, new, attempt, wait, retry, loops, faults>>

\* Wrong on purpose: a renewal keeps the key it finds.
WriteCertOnly ==
    /\ mpc = "write cert"
    /\ cert' = new /\ due' = FALSE
    /\ IF started THEN mpc' = "sleep" /\ wait' = Interval
                  ELSE mpc' = "open key" /\ UNCHANGED wait
    /\ UNCHANGED <<conf, key, started, new, attempt, retry, loops, faults>>

WriteCert ==
    /\ mpc = "write cert"
    /\ cert' = new /\ due' = FALSE /\ mpc' = "open key"
    /\ UNCHANGED <<conf, key, started, new, attempt, wait, retry, loops, faults>>

OpenKey ==
    /\ mpc = "open key"
    /\ key' = Torn /\ mpc' = "write key"
    /\ UNCHANGED <<conf, cert, due, started, new, attempt, wait, retry, loops, faults>>

\* Wrong on purpose: the renewal task does not tell the loops.
WriteKeySilent ==
    /\ mpc = "write key"
    /\ key' = new /\ new' = Missing /\ attempt' = 1
    /\ IF started THEN mpc' = "sleep" /\ wait' = Interval /\ UNCHANGED <<started, loops>>
                  ELSE Serve
    /\ UNCHANGED <<conf, cert, due, retry, faults>>

\* Issuance is complete: run() serves, or the renewal task sends a reload.
WriteKey ==
    /\ mpc = "write key"
    /\ key' = new /\ new' = Missing /\ attempt' = 1
    /\ IF started THEN /\ mpc' = "sleep" /\ wait' = Interval
                       /\ pend' = [l \in Loops |-> lpc[l] # "off"]
                       /\ UNCHANGED <<started, lpc, got, acc>>
                  ELSE Serve
    /\ UNCHANGED <<conf, cert, due, retry, faults>>

\* A step of write_cert fails, and with it the attempt: the file is left as it was
\* (it cannot be opened), truncated, or complete (its mode cannot be set).
WriteFails ==
    /\ crashes + ioFaults < MaxBreaks /\ mpc \in {"open cert", "write cert", "open key", "write key"}
    /\ ioFaults' = ioFaults + 1
    /\ cert' \in IF mpc = "write cert" THEN {cert, new} ELSE {cert}
    /\ key'  \in IF mpc = "write key"  THEN {key, new}  ELSE {key}
    /\ due' = (due /\ cert' = cert) /\ new' = Missing
    /\ IF attempt >= MaxAttempts THEN GiveUp /\ UNCHANGED retry ELSE Retry(0)
    /\ UNCHANGED <<conf, crashes, caFaults>>
-------------------------------------------------------------------------------
\* Wrong on purpose: the check of the renewal window is the wrong way round.
CheckInverted ==
    /\ mpc = "sleep" /\ wait = 0
    /\ IF cert = Missing \/ (cert \in Ids /\ ~due)
       THEN mpc' = "attempt" /\ attempt' = 1 /\ UNCHANGED wait
       ELSE wait' = Interval /\ UNCHANGED <<mpc, attempt>>
    /\ UNCHANGED <<files, due, started, new, retry, loops, faults>>

\* acme_renewal_loop: needs_renewal.  A file that does not parse is an error, and
\* an error is only logged.
CheckRenewal ==
    /\ mpc = "sleep" /\ wait = 0
    /\ IF cert = Missing \/ (cert \in Ids /\ due)
       THEN mpc' = "attempt" /\ attempt' = 1 /\ UNCHANGED wait
       ELSE wait' = Interval /\ UNCHANGED <<mpc, attempt>>
    /\ UNCHANGED <<files, due, started, new, retry, loops, faults>>

\* A sleep goes on.
Tick ==
    /\ wait > 0 /\ wait' = wait - 1
    /\ slept' = IF mpc = "backoff" THEN slept + 1 ELSE slept
    /\ UNCHANGED <<files, due, mpc, started, new, attempt, server, loops, faults>>

\* The certificate comes within renewal_window of its expiry.
Age ==
    /\ cert \in Ids /\ ~due
    /\ due' = TRUE
    /\ UNCHANGED <<files, mpc, started, new, attempt, wait, retry, loops, faults>>
-------------------------------------------------------------------------------
\* A SIGHUP reload reaches the loops.
Hup ==
    /\ \E l \in Loops : lpc[l] # "off" /\ ~pend[l]
    /\ pend' = [l \in Loops |-> lpc[l] # "off"]
    /\ UNCHANGED <<files, due, mpc, started, new, attempt, wait, retry, lpc, got, acc, faults>>

others == <<files, due, mpc, started, new, attempt, wait, retry, faults>>

\* A TLS loop rebuilds its acceptor; a QUIC loop has nothing to rebuild.
TakeReload(l) ==
    /\ lpc[l] = "serving" /\ pend[l]
    /\ pend' = [pend EXCEPT ![l] = FALSE]
    /\ lpc' = [lpc EXCEPT ![l] = IF l \in TlsLoops THEN "read cert" ELSE "serving"]
    /\ UNCHANGED <<others, got, acc>>

ReadCert(l) ==
    /\ lpc[l] = "read cert"
    /\ got' = [got EXCEPT ![l] = cert]
    /\ lpc' = [lpc EXCEPT ![l] = "read key"]
    /\ UNCHANGED <<others, acc, pend>>

\* Both files have to load.  Only the QUIC configuration is refused when the key
\* is not the certificate's.
build_tls_acceptor_acme(c, k) == IF c \in Ids /\ k \in Ids THEN <<c, k>> ELSE NoPair
build_quinn_from_paths(c, k)  == IF c \in Ids /\ k = c THEN <<c, k>> ELSE NoPair

\* The key is read after the certificate.  Without a pair a TLS loop goes on with
\* no acceptor (.ok()) and a QUIC loop ends.
ReadKey(l) ==
    LET pair  == IF l \in TlsLoops THEN build_tls_acceptor_acme(got[l], key)
                                   ELSE build_quinn_from_paths(got[l], key)
        quits == l \in QuicLoops /\ pair = NoPair
    IN
    /\ lpc[l] = "read key"
    /\ acc' = [acc EXCEPT ![l] = pair]
    /\ got' = [got EXCEPT ![l] = Missing]
    /\ lpc' = [lpc EXCEPT ![l] = IF quits THEN "off" ELSE "serving"]
    /\ pend' = IF quits THEN [pend EXCEPT ![l] = FALSE] ELSE pend
    /\ UNCHANGED others

LoopStep(l) == TakeReload(l) \/ ReadCert(l) \/ ReadKey(l)
-------------------------------------------------------------------------------
Crash ==
    /\ mpc # "down" /\ crashes + ioFaults < MaxBreaks
    /\ crashes' = crashes + 1
    /\ mpc' = "down" /\ started' = FALSE /\ new' = Missing /\ attempt' = 1 /\ wait' = 0
    /\ server' = 0 /\ slept' = 0
    /\ lpc' = [l \in Loops |-> "off"] /\ got' = [l \in Loops |-> Missing]
    /\ acc' = [l \in Loops |-> NoPair] /\ pend' = [l \in Loops |-> FALSE]
    /\ UNCHANGED <<files, due, caFaults, ioFaults>>

Restart ==
    /\ mpc = "down"
    /\ mpc' = "startup"
    /\ UNCHANGED <<files, due, started, new, attempt, wait, retry, loops, faults>>

\* The steps of the manager itself, and the answers it awaits.
ManagerStep == EnsureCert \/ NextAttempt \/ OpenCert \/ WriteCert \/ OpenKey \/ WriteKey
                  \/ WriteFails \/ CheckRenewal
CaAnswers == Validated \/ AttemptFails

Next == ManagerStep \/ CaAnswers \/ Tick \/ Age \/ Hup \/ Crash \/ Restart
            \/ \E l \in Loops : LoopStep(l)

\* The runtime polls its tasks, and time passes.  The CA need not answer, as the client has
\* no timeout; nobody has to restart a process that went down or to send a SIGHUP, and
\* nothing has to crash.
Spec == Init /\ [][Next]_vars /\ WF_vars(ManagerStep) /\ WF_vars(Tick)
             /\ \A l \in Loops : WF_vars(LoopStep(l))
-------------------------------------------------------------------------------
(* Invariant 76 of the contract: the TLS and QUIC listeners of the block start
   only when a certificate and a key are there, whatever failed before. *)
ServesOnlyWithCert ==
    [][(~started /\ started') => (cert' \in Ids /\ key' \in Ids)]_vars

(* Within one issue_with_retry, no attempt is made before its exponential backoff and the
   Retry-After the client has noted are both over.  (It notes that of a 429 in seconds;
   what any other response asks for is not waited for.) *)
RetryWaits == [][(mpc = "backoff" /\ mpc' = "attempt") => slept >= server /\ slept >= Backoff]_vars

(* As long as no crash or failed write has intervened, the two files belong
   together whenever the manager is not just writing them. *)
FilesMatch ==
    (crashes = 0 /\ ioFaults = 0 /\ mpc \notin {"write cert", "open key", "write key"})
        => cert = key

(* A complete pair on disk is what every TLS loop serves in the end, unless the
   next renewal begins first: a loop that read one file before and the other
   after a renewal does not stay with that.  (An attempt whose last step fails, the
   mode of a file that is already written, sends no reload.) *)
HotSwap ==
    \A l \in Loops : (l \in TlsLoops /\ mpc = "sleep" /\ cert = key)
                       ~> (acc[l] = <<cert, key>> \/ mpc # "sleep" \/ ioFaults > 0)

\* What the server cannot help: the CA leaves an attempt without an answer, or a process that
\* went down is not started again.
Abandoned == [](mpc = "attempt") \/ [](mpc = "down")

(* A certificate that falls due is replaced, although the CA may fail attempts and
   whole rounds of them.  And although a crash between the two writes leaves a
   certificate with the key of another, which has_usable_cert accepts, the files
   belong together again in the end as long as certificates keep falling due.  (A
   write that fails may leave a file that does not parse; needs_renewal then fails
   for good.  One attempt that is never answered ends renewal.) *)
RenewedWhenDue ==
    responder = "http" =>
        /\ due ~> (~due \/ ioFaults > 0 \/ Abandoned)
        /\ ([]<>due) => (cert # key ~> (cert = key \/ ioFaults > 0 \/ Abandoned))

(* The listeners come up in the end, also after a crash or a failed write that left
   unusable files, once the CA validates the challenges it can check and unless it falls
   silent.  That asks for http-01 and a plain listener in the same block: with tls-alpn-01
   the first certificate would need a listener that waits for it. *)
StartupServes == responder = "http" => (mpc = "startup" ~> (started \/ Abandoned))
===============================================================================
