# A verification project for flexd

TLA+ specifications of flexd (a web server and reverse
proxy written in Rust), their TLC runs, and TLAPS proofs. Line numbers refer to
`src/src/`; "the contract" is `src/flexible-webserver-local-0.2.3.osc.md`.

## The system

`Server::run` (server.rs) binds every listener, drops privileges, spawns one task
per listener into a `JoinSet`, obtains ACME certificates, starts one renewal task
per ACME block and a signal handler, and waits for the `JoinSet`. Accept loops
share a process-wide connection counter and receive shutdown and reload messages
over broadcast channels of capacity one. Each connection is a detached task that
runs hyper (HTTP/1, HTTP/2) or h3 around `HandlerService`: checks, rewriting,
location choice, then static files, a proxy with load balancing and failover, an
A/B split, or a CONNECT tunnel. Outgoing names go through a vetting, caching
resolver.

| Part | Source | Module | Status |
|---|---|---|---|
| Configuration: loading, validation, the lookups that rely on it | config.rs, handler.rs, absplit.rs | `Config` | modelled, proved |
| Entry point, startup, privilege drop | main.rs, server.rs, security/privilege.rs | `Startup` | modelled, proved |
| Signals, reload, shutdown | server.rs | `Lifecycle` | modelled, proved |
| Connection admission | security/limits.rs, server.rs | `ConnLimits` (abstract: `BoundedAdmission`) | modelled, proved |
| Connection tasks, bare-LF guard | server.rs | `Connection` | modelled, proved |
| HTTP/2 reset limiting | security/rate_limit.rs, server.rs | `Http2Reset`, in `Connection` | modelled, proved |
| Request pipeline, rewriting, host and URI checks, CONNECT | handler.rs, rewrite.rs, security/ | `Pipeline` | modelled, proved |
| HTTP/3 requests, upstream filter, request headers, static files | server.rs, proxy.rs, security/, static_file.rs | `Pipeline` | partly |
| Load balancing, failover, stream proxy | balance.rs, handler.rs, proxy.rs, server.rs | `Balance`, `ProxyDispatch` | modelled (response headers are not), proved |
| A/B splits | absplit.rs, handler.rs | `AbSplit` | modelled, proved |
| DNS pinning | resolver.rs | `Resolver` | modelled, proved |
| ACME certificates | acme.rs, tls.rs, server.rs | `AcmeCert` | partly (CA protocol as one outcome), proved |
| Mail listener | server.rs | `Startup`, `ConnLimits` | binding and accepting; not the session |
| Access log | logging.rs | `Startup`, `Lifecycle`, `Pipeline` | opening it and one line per request; not the line |
| GeoIP | geoip.rs | – | not modelled |

"Proved" is said of the safety properties; liveness is model-checked throughout.

## Modules

**Config, Startup.** `Config` is `Config::validate` over parsed contents, one
operator per group of checks, with the file modes and the effective user its verdict
depends on, and next to it what `select_upstream` looks up at request time, with every
hash and every pin a session may have from a sticky split of the router. A
configuration is a record with the fields the checks read; an address, a CIDR or a
regex is malformed or not. `Startup` has one process per server that is started from
the file: `Main`, `Bind` (one listener per step, as other processes bind in between),
`Drop`, `Spawn`, `Issue`, `Join`, then the signal handler's `Register`, and
`LoopsBegin`, what the accept loops do before they accept: a loop that finds neither its
log nor the fallback panics and gives its socket back. `Term` and `Hup` may come
at any point; before `Register` both kill the process. A process that ends releases
its ports, and may be started again. `drop_privileges` is a chain of the three system
calls, each of which may fail. `MCStartup` has twenty-one configurations that are taken
and one for each check that refuses.

**ConnLimits.** Variables: the atomic counter, each accept loop's place and
locals, each connection's state. `FetchAdd`, `GiveBack` and `Spawn` are the steps
of `acquire_connection`; `Finish` is `ConnectionGuard::drop`; `Upgrade` is a
CONNECT upgrade, which drops the guard; stream and mail loops use `AcceptRaw`.
`BoundedAdmission` is what admission promises: a set that never exceeds the cap.

**Balance, ProxyDispatch.** `Balance` holds the arithmetic of balance.rs.
`ProxyDispatch` has one process per request and per stream: `RoundRobin`,
`FixedOrder`, `LeastConn` and `Compare` compute the candidates (each comparison
of the least-conn sort is a step, since gauges move during it; std sorts up to twenty
elements by insertion, to which `SortAssumption` limits that strategy), `track` and `drop`
are the guard, `Forward`, `ConnectError`, `ForwardError`, `ResponseHead` and
`BodyDone` are `forward`, the `Stream…` actions are `accept_stream_loop`.

**Lifecycle.** The signal handler (`OnTerm`, `OnHup`, `Write`, `Send`), the
renewal task, the accept loops (one step per poll of the biased `select!` and per
await in the reload branch), connections and the exit of `run`. The broadcast
channel is a count of messages sent and, per receiver, seen: a receiver that lags
reads one `Lagged`, which the loops treat as a message. `LoggerPanics` is a reload that
finds no access log to open: the loop is dead, the process goes on.

**Http2Reset, Connection.** `Http2Reset` is one HTTP/2 connection: streams open,
complete or are dropped; `record_reset` is the tracker; `Kill` is the second branch of
`serve_http2`, after which the connection drains. `Connection` extends it to the task of
an accepted connection: the handshake and ALPN, the one read that is peeked at on a
plain listener, the 400 of the guard, and the reads of hyper, first from the guard's
prefix and then from the socket, of whatever size.

**AbSplit.** `resolve` by concurrent requests, its two critical sections as two
steps (`PinHit` or `PinMiss`, then `Pin` within `Assign`), over routers that a reload
replaces. All sticky splits of a router share its table. The hash is a constant function.

**AcmeCert.** Startup, retry rounds with the Retry-After the client notes (of a 429, in
seconds), who can answer the challenge (`Answerable`), the two files (missing, torn or the id of a
pair), renewal, and the loops that load them one file at a time. A process may be
killed anywhere and restarted. Ids that nothing uses any more are issued again,
which keeps an endless sequence of renewals finite.

**Resolver.** Tasks between cache lookup, DNS lookup, vetting and store, with a
clock.

**Pipeline.** One request from its entry point (`Handle`, `AcceptH3`) through its
body (`Chunk`, `BodyError`, `BodyEnd`) to `Process`, which runs without an await
and so is one step, and on to `serve_file`, `Proxied` or the CONNECT steps
(`Connect`, `ResolveTarget`, `DialFails`, `DialSucceeds`); `Cancelled` is hyper
dropping the future. The early returns are lists of checks with their status, in the
code's order. A path, a host or an address is a model value, a header is who set
it. `validate_uri` is its verdict, which may be a panic: it slices the path at byte
offsets that need not be character boundaries. The request then gets no answer (`Refuse`).

**MCRequestPath** puts `Pipeline`, `AbSplit` and `Resolver`, which share no state, side
by side in one run.

Operators marked "Wrong on purpose" are plausible mistakes in the code; each
checked property has one that breaks it (`mutants` in PROJECT.json).

## Runs

| Run | Checks | Outcome |
|---|---|---|
| Startup | two processes of one file never both serve, loops run as the configured user, listeners are bound as told, accepted configurations route every request, whatever its pin; one process comes up | hold |
| StartupReload | the file a process was started with is accepted at a reload (contract, line 438) | violated |
| ConnLimits | exact counter, justified refusals, refinement of `BoundedAdmission` (which holds the cap); loops return to accept | hold |
| Connection | hyper reads what was sent, byte for byte, or nothing; resets: kills justified, undetected ones bounded, a connection that trips drains | hold |
| RequestPath | what reaches a handler, an upstream or a tunnel passed every check in its final form; body limits; one log line. Table of pins bounded, a session only gets what its hash and its router assign. Cache of names bounded and vetted | hold |
| PipelineLog | every 4xx is logged (contract, lines 554 and 45) | violated |
| AbSplitSticky | a session keeps its group for the life of the process (absplit.rs:6-7) | violated |
| Dispatch | single delivery, complete failover, fair cursor, exact gauges across a reload, sound sort over moving gauges, every sweep ends | hold |
| Lifecycle | no reload lost, no loop goes back, reloads arrive at loops that live, SIGTERM ends the process | hold |
| LifecycleDrain | requests complete before exit (contract, line 448) | violated |
| LifecycleTls | a reload keeps TLS (contract, line 140) | violated |
| AcmeCert | TLS only with a certificate, files of one pair, retries wait long enough; listeners come up, renewals arrive and are served | hold |

Every violated run has an entry under `findings` with the code line.

**Other deviations met while modelling.** The models follow the code in each of
them; no run is spent on them.

- limits.rs:3-5 speaks of all connections; streams, mail sessions, 503 answers and
  CONNECT tunnels hold no slot (`AcceptRaw`, `Refuse`, `Upgrade`).
- proxy.rs:66-67 speaks of a deadline for the response; the body has none.
- Idle streams are to be closed (contract, line 72); the copy has no timeout.
- A keep-alive connection keeps the configuration it was accepted under (line 59).
- rate_limit.rs:6 says sliding window; the window tumbles, so up to twice the rate
  passes around a boundary (`UndetectedBound`).
- config.rs:621-622 means to rule out splits that answer 502; two sticky splits of
  one block share a table of pins (absplit.rs:73), so a session pinned by one gets
  502 from the other when that has no group of the name. `OwnAssignment` and
  `RoutesResolve` say how far the mix-up can go (`Sharing`, `Ambiguous`, `Foreign`).
- The authority of an HTTP/2 request is not compared with its Host (lines 146 and
  504), nor is Host made from it; `DispatchedClean` asks it of HTTP/3 only,
  where `handle_h3` does both.
- A request on whose path `validate_uri` panics is dropped with its task: no answer, no
  line in the access log (line 45).
- `build_logger` falls back to `./logs/access.log` and panics if that fails too: at a
  reload, too, which line 140 wants to leave the running state alone (`LoggerPanics`).
- Least-conn with more than twenty servers leaves the insertion sort; a comparison that is
  not a total order, as moving gauges make it, may then panic (balance.rs:151).
- The expansion ratio is an integer division, which lets just under one more times
  the limit through (line 168; `BodyBounded`).
- X-GeoIP-Region (line 49) is never set.
- A renewed certificate does not reach QUIC endpoints (server.rs:1145).
- tls-alpn-01 cannot issue the first certificate, since its listener starts after
  issuance (line 36); and http-01 in a block without a plain listener, which the validator
  takes, has nobody to answer it.
- acme.rs:247-248 says an unreadable certificate warrants re-issuance; for a file
  that can be read and not parsed `needs_renewal` is an error, and the renewal task
  goes on without issuing until the process is restarted.
- Line 188 asks for Retry-After to be respected. The client notes it for a 429 and in
  seconds only (acme.rs:175-184), and that of the last attempt of a round is dropped.
- The ACME client has no timeout (acme.rs:159): one attempt that is never answered holds
  up startup, renewal and shutdown for good (`Abandoned`, `Unanswered`, `TermExits`).
- A second miss for a name replaces the pinned answer before its TTL (line 130).
- Privileges are to be dropped, to `nobody` by default (line 64); without `user` they
  are kept. `UnprivilegedLoops` is about configurations with `user`.
- A SIGHUP or SIGTERM that comes before the signal handler has registered, which
  includes all of the first issuance, kills the process.
- The file of a reload is derived from `pid_file`, not from `--config`; without a
  `pid_file` a SIGHUP does nothing.
- The key of a static certificate is read after the drop. If only root may read it,
  the error is dropped (`.ok()`) and the listener serves without TLS, as does an
  `https` listener without an `ssl` section. Secrets of issuance are checked as root and
  read as `user`.
- The listen address of a mail listener is not validated; one that does not parse
  becomes 0.0.0.0 (`ListensAsTold` leaves mail out).
- Two splits of one name pass the validator; the router keeps the last and the lookup
  finds the first, which may answer 502 (`Ambiguous`). The sum of weights is a u32
  that wraps in a release build. An inline upstream, and the pool of a group, may be
  without servers; upstreams of stream blocks are not checked like the others.
- A second instance overwrites the pid file before its bind fails; nothing reads it.
- A failed issuance ends the whole process, where line 198 speaks of the listener.
- The bare-LF guard inspects the first read of a plain connection; what comes later,
  and TLS connections, are left to hyper. Its flag `rejected` is always false.
- `AccessLogger::reopen` is never called.
- SIGHUP does not trigger an ACME renewal check (line 37), and stickiness follows
  the client address, not a session cookie (line 50).

**Bounds.** They are constants of the cfg files.

- `Startup`: two processes suffice for every race over a port, since a process only
  meets the sockets of others. The configurations share ports 80, 443 and 8080, and
  some have several blocks with deferred listeners. `U32` is 1024, so that weights of
  900 and 224 wrap to 100, as 2^32 would with larger ones.
- `ConnLimits`: four connections, a cap of three and one HTTP, one QUIC and one raw
  loop. The two loops that take slots can straddle the cap at once, and the cap exceeds
  their number, without which `RefusedNearCap` would hold of anything.
- `Connection`: all byte sequences up to `MaxWire` (6) over CR, LF and another byte,
  with a `PeekSize` of 5 and reads of up to `MaxRoom` (3): CR LF CR LF fits before, across
  and behind the seam. Five resets, a limit of two and three windows.
- `Dispatch`: three servers with weights 2, 0 (counted as 1) and 1 give a round of four.
  `CursorRange` is 6, which is not a multiple of four: the cursor wraps in the middle of
  a round, and `RoundRobinFair` starts its count again there, since the real cursor is
  unfair for that one round too.
- `Lifecycle`: two edits and two SIGHUPs let a second reload overtake the first, and with
  a renewal's message the receiver lags. One loop, as loops do not interact; the proofs
  are for any number.
- `Pipeline` (in `RequestPath`, `PipelineLog`): five families of cases (routing, hosts,
  bodies, headers, tunnels), each varying what one part looks at together with its
  settings. A body may exceed `MaxBody` by two, so a chunk can straddle the cap, and
  inflated sizes lie on both sides of `MaxSize` and of the ratio.
- `AcmeCert`: `Responders` are a plain listener of the block or nobody; `MaxAttempts`
  and `RetryAfters` let rounds end and be outlasted by a Retry-After; `MaxCaFaults` lets
  a whole round fail, `MaxBreaks` is one kill or one failed write at any point. Six
  `Ids` are more than two files and one loop can use, so there is always one to issue.
- `Resolver` (in `RequestPath`): two tasks, two names and a cache for one, so that stores
  evict.
- `AbSplit` (in `RequestPath`): two requests, two sessions and a table for one, so that a
  pin clears the table under the other request; both splits are sticky and one reload
  changes the weights. `AbSplitSticky` has one sticky split, as two of them would show
  less.

**Fairness.** Weak fairness of the steps a task takes by itself (tokio polls a
runnable task again), of timeouts the code sets, and of clocks. Clients, upstreams
and operators are not obliged to do anything, and neither is the CA: the ACME client has
no timeout, so an attempt may hang for ever. `RenewedWhenDue`, `StartupServes`,
`OneComesUp` and `TermExits` each name that as their exception. In `Startup` the steps of
`run`, of the spawned loops and of the signal handler are fair; nobody has to start a
process, in `AcmeCert` nobody has to restart one. `Http2Reset` has fairness of the woken
select and of a connection whose streams are all done (`Drained`), not of the peer's
acknowledgement or of handlers, which `TripDrains` therefore names.
Deadlock checking is off only in `Lifecycle` and `Connection`, where the process or
the connection ends.

## Proofs

All proofs hold for every value of the constants that satisfies the named assumptions
of the module. Every safety property of the passing runs is proved.

**Induction.** What loops and running sums compute is proved with `SetInduction`: a set
of numbers that has 0 and, with n, n + 1 has them all (a least number outside of it would
have a predecessor inside; the least number comes from `WFMin`). A function that is
defined by recursion first has to be shown to satisfy its equation; lemmas named
`…Def` do that, by extending a solution up to n to one up to n + 1. `Cumulative`,
`Sums`, `Scanned` and `looked` are such functions, one for each loop of the code.

`ConnLimitsProofs`: `TypeOK`, `OwnedByOneLoop`, `CounterExact`, `CapHolds`,
`RefusedNearCap` and the refinement of `BoundedAdmission`. The inductive invariant is
`TypeOK`, `OwnedByOneLoop`, `CounterExact` and `SlotsPromised`. `CapHolds` alone is not
inductive: a loop whose `fetch_add` saw room has yet to spawn, so it is counted in
by `SlotsPromised`. For that to be preserved by `FetchAdd` the counter has to be
exact, and for the cardinalities to change by one, connections must have one
owner. `LimitsAssumption`: finite sets, disjoint kinds of loops, a natural cap.

`DispatchProofs` and `BalanceProofs` (the last two): the five safety properties of
`ProxyDispatch`, for any servers (at most twenty with least-conn), weights, tasks and
reloads.
- `DeliveredOnce` and `FailoverComplete` from `DInv`. It says that the candidates are a
  permutation of the servers (`Complete`: of the ring order, of the fixed orders, and
  kept by each swap of the sort), that a task has tried exactly those it passed, that all
  it passed have refused, and that nothing was delivered before the response head.
- `GaugeExact` from `DInv`: a task holds a guard exactly while it talks to its candidate,
  in the pool it started with, so each `track` and `drop` changes one set of holders by one.
- `LeastConnOrder` from `LInv`, the invariant of an insertion sort: all positions up to the
  element on its way are in order except that element, which is still the last server.
  Comparing by cross products is transitive (`CrossProducts`) since weights are positive.
- `RoundRobinFair` holds at the end of a round only. `RInv` says at every point of a round how
  many picks each server has had: full rounds times its weight, and the part of its
  stretch of points that the cursor has passed.

`ConnectionProofs`: `KillJustified` and `UndetectedBound` from `ResetInv`, which counts the
resets since the window began and says of every stretch that reaches the current window
that it met at most one window before (`Untripped`): two windows, twice the limit.
`AllOrNothing` from `ReadInv`: prefix and what hyper has are both beginnings of what was
sent, and while the prefix lasts hyper has just the drained part of it. That the code's
two searches, for the end of the header section and for an LF without CR, agree with a
parser that goes byte by byte is `ScanIsCheck`.

`ReloadProofs`, for what a reload replaces. Of `Lifecycle`: `StaleOnlyIfPending` and
`NeverBackwards`. The first is not inductive: a loop that is up to date may hold an older
clone it is about to install. `Reads` says that such a loop still has a message to come,
and `Ordered` how the versions on the way from the file to a loop compare. (A loop that
died in a reload serves nothing, and the first leaves it out.) Of `AbSplit`: `OwnAssignment` and
`TableBounded`, for any hash, weights, table size and number of sticky splits. The
invariant of the first is about the table: every pin is what its session's hash assigns
it in some sticky split of that router (`PinsOwn`), which is why neither the race between
lookup and pin nor requests that outlive a reload do more harm. `Shares` is about the loop
over the weights: each point below the total belongs to one group, with a weight. So no
request goes to a group of weight 0 (`Weighted`).

`StartupProofs`: `OneServer`, `UnprivilegedLoops`, `ListensAsTold` and `RoutesResolve`, for any
processes, files, accounts and configurations. For the first the invariant says that a
process past `Bind` holds a socket for each of its TCP listeners whose loop has not ended,
that no two sockets of different processes collide, and that a loop ends for what it finds
in its configuration, with its credentials (`Decided`). Two processes of one configuration
have the same credentials by then, so the listener one of them accepts on has not ended in
the other, and both would hold colliding sockets. For the second it
follows the credentials through the three calls: once `Drop` is past, they are those of the
account. For the third, every listener in the flattened list comes from a directive
of a block that `validate` has taken, whose address parses. For the last,
`ValidatedResolves` shows it of one block: weights that sum to 100 are not an empty list,
so the router returns the name of some group, of its own split or by a pin of another
sticky one; either it is a group of the split the lookup finds, and every group's pool was
looked up by `validate`, or two splits answer for the name. As every
configuration in use came through `load`, reloads keep it. `ConfigAssumption` and
`StartupAssumption`: vectors are sequences. The weights are arbitrary, and may wrap.

`OutboundProofs`, for the two parts that call other services. Of `Resolver`: `VettedOnly` and
`CacheBounded`. A task is handed what the network or another task's entry says, so the
invariant is about the cache: what it holds is vetted and not empty. Of `AcmeCert`:
`FilesMatch`, `ServesOnlyWithCert` and `RetryWaits` from `AInv`. It says that the time
slept and the time still to sleep add up to the backoff and to the Retry-After at least
(`Enough`), and that the certificate on disk is the new one when its key is written.

`PipelineProofs`: `DispatchedClean`, `BodyBounded`, `HeadersStripped`, `AttributionHonest`,
`TunnelVetted`, `LoggedOnce` and `LocationChosen`, for all requests, blocks, rewrite rules and
limits. Each has its own small invariant: that an HTTP/3 request in `process` has a Host
that agrees (`Agrees`), that whatever may be dialled is vetted (`Tunnelling`), that the GeoIP
header is stamped before a proxy sees the request (`HInv`), that the cap holds until there
is an answer (`Unanswered`, `BInv`). `AllPass` is the lemma about lists of checks: status 0
means that none has failed. `LoggedOnce` is about what `HandlerService` answers; a panic
(`Refused`) is no answer. `LocationChosen` rests on the loop invariant `Knows` of
`find_location`: it has stopped at the first direct match, or has met none and remembers the
first of the longest prefixes. `PipelineAssumption` takes from elsewhere that the http crate
has parsed the path, that rewrite flags are those `validate` accepts, that no host has
the empty name, and that locations are a vector.

Only model-checked: liveness (`LoopReturns`, `SweepEnds`, `ReloadReaches`, `TermExits`,
`TripDrains`, `HotSwap`, `RenewedWhenDue`, `StartupServes`, `OneComesUp`), since fairness
and ENABLED are beyond the prover; and that the five findings are real, which are
counterexamples.

## Not modelled

- The mail session: one task that answers a line at a time, with no state shared and
  nothing to interleave with. `read_line` buffers a whole line before its length is
  tested.
- The wording of the access log, its rotation, and GeoIP: file output and a read-only
  lookup.
- Response headers and their redaction: fixed insertions without state.
- The path resolution of static files: it depends on a file system that changes under
  it, of which the code sees one answer at a time.
- The protocol with the CA, the dns-01 webhook and account binding: their outcome is an
  attempt that succeeds, fails or asks to wait.
- Parsers and ranges: JSON and TOML, PEM, `validate_uri`'s characters, the address ranges
  of the upstream filter, HPACK and framing in hyper. The models take their verdicts.
