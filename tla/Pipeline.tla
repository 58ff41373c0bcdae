------------------------------- MODULE Pipeline -------------------------------
(***************************************************************************)
(* One request on its way through HandlerService: the entry points of      *)
(* HTTP/1, HTTP/2 (handle) and HTTP/3 (serve_http3, handle_h3), the body   *)
(* that arrives in chunks, the shared pipeline of process, routing, the    *)
(* headers that go upstream, and CONNECT tunnels.                          *)
(*                                                                         *)
(* A header is told apart by who set it.  Header values never hold CR or   *)
(* LF (the http crate refuses them), so that check of security_checks      *)
(* never fires and is left out.                                            *)
(***************************************************************************)
EXTENDS Integers, Sequences, SequencesExt, FiniteSetsExt

CONSTANTS Cases,        \* pairs of a block's settings and a request
          MaxBody,      \* max_body_size
          MaxSize,      \* max_decompression_size
          MaxRatio,     \* max_decompression_ratio
          MaxChunk,     \* bound: bytes that arrive at once
          ValidPaths,   \* paths that pass validate_uri
          PanicPaths,   \* paths it panics on: one of its slices would end inside a character
          UriPaths,     \* paths the http crate takes as a path-and-query
          Rules,        \* rewrites: which paths a rule matches, its result, its flag
          HostsNamed,   \* hosts that match server_name
          HostsAllowed  \* allowed_hosts

None == "none"
NotGzip == -1
Unparsed == -1          \* a Content-Length that is no number
Panic == -1             \* in place of a status: a check panics

ATTRIBUTION == {"x-forwarded-for", "forwarded", "x-real-ip", "x-forwarded-host", "x-forwarded-proto"}
Names == ATTRIBUTION \cup {"content-length", "transfer-encoding", "x-geoip-country", "x-other"}
HOP_BY_HOP == {"transfer-encoding"}
NOMINATION_EXEMPT == {"host", "content-length"}
Addrs == {"public", "private", "mapped"}   \* "mapped": the IPv4-mapped form of "private"

Requests ==
    [proto : {"h1.0", "h1", "h2", "h3"}, method : STRING, path : UriPaths, authority : STRING,
     host : STRING, big : BOOLEAN, lengths : Seq(Int), te : BOOLEAN, size : Nat, gzip : BOOLEAN,
     inflated : Int, supplied : SUBSET Names, nominated : SUBSET STRING,
     target : [name : STRING, port : BOOLEAN, literal : Addrs \cup {None}]]

\* No host has the empty name; the flags are those the configuration's validator takes.
ASSUME PipelineAssumption ==
    /\ MaxBody \in Nat /\ MaxSize \in Nat /\ MaxRatio \in Nat /\ MaxChunk \in Nat \ {0}
    /\ None \notin HostsNamed \cup HostsAllowed /\ "" \notin HostsNamed \cup HostsAllowed
    /\ \A c \in Cases : /\ c.req \in Requests
                       /\ Len(c.block.locations) \in Nat
                       /\ DOMAIN c.block.locations = 1 .. Len(c.block.locations)
                       /\ \A i \in DOMAIN c.block.locations : c.block.locations[i].len \in Nat
    /\ Len(Rules) \in Nat
    /\ \A i \in 1 .. Len(Rules) : Rules[i].flag \in {"break", "last", "redirect", "permanent"}

VARIABLES
    block,    \* the settings of the http block
    req,      \* the request; path and host change on the way
    pc,
    got,      \* bytes of the body received
    body,     \* bytes of the body as handlers see it
    hdr,      \* who set each header, or "absent"
    loc,      \* the location find_location chose (0: none)
    sent,     \* the headers of the upstream request
    vetted,   \* addresses a tunnel may be opened to
    tunnel,   \* the address it was opened to
    status,   \* of the answer; 0 while there is none
    lines     \* access log lines

vars == <<block, req, pc, got, body, hdr, loc, sent, vetted, tunnel, status, lines>>

Has(n) == IF n = "content-length" THEN req.lengths # <<>> ELSE IF n = "transfer-encoding" THEN req.te
          ELSE n \in req.supplied

Init ==
    /\ \E c \in Cases : block = c.block /\ req = c.req
    /\ hdr = [n \in Names |-> IF Has(n) THEN "client" ELSE "absent"]
    /\ pc = "new" /\ got = 0 /\ body = 0 /\ loc = 0 /\ sent = <<>>
    /\ vetted = <<>> /\ tunnel = None /\ status = 0 /\ lines = 0

\* error_response, simple_response and finalize: the answer, and its log line.
Respond(s) == status' = s /\ lines' = lines + 1 /\ pc' = "done"
NoAnswer   == UNCHANGED <<status, lines>>

\* A check has failed with status s.  A panic unwinds the task that polls the request, and
\* no answer is given.
Refuse(s) == IF s = Panic THEN pc' = "dropped" /\ NoAnswer ELSE Respond(s)

\* The status of the first check that fails, 0 if all pass.
FirstFailure(checks) ==
    LET failed == {i \in DOMAIN checks : checks[i][1]}
    IN  IF failed = {} THEN 0 ELSE checks[Min(failed)][2]
-------------------------------------------------------------------------------
(* Header and framing checks. *)
validate_uri(p) == IF p \in PanicPaths THEN Panic ELSE IF p \in ValidPaths THEN 0 ELSE 400

security_checks ==
    FirstFailure(<<
        <<req.big, 431>>,
        <<req.lengths # <<>> /\ Head(req.lengths) > MaxBody, 413>>,
        <<req.proto = "h1.0" /\ req.te, 400>>,
        <<block.reject_ambiguous_framing /\ req.lengths # <<>> /\ (req.te \/ Len(req.lengths) > 1), 400>>,
        <<validate_uri(req.path) # 0, validate_uri(req.path)>> >>)

\* The ACME challenge path, of a known token or of another one, is answered from
\* the store before anything else.
IsChallenge == block.acme /\ req.path \in {"token", "other-token"}

acme_challenge_response == Respond(IF req.path = "token" THEN 200 ELSE 404)

\* handle, up to the body.
Handle ==
    /\ pc = "new" /\ req.proto # "h3"
    /\ CASE IsChallenge              -> acme_challenge_response
         [] ~IsChallenge /\ req.method = "CONNECT" -> pc' = "connect" /\ NoAnswer
         [] OTHER -> IF security_checks # 0 THEN Refuse(security_checks)
                     ELSE pc' = "body" /\ NoAnswer
    /\ UNCHANGED <<block, req, got, body, hdr, loc, sent, vetted, tunnel>>

\* serve_http3 collects the body first; a request it cannot resolve is dropped.
AcceptH3 ==
    /\ pc = "new" /\ req.proto = "h3"
    /\ pc' \in {"body", "dropped"}
    /\ UNCHANGED <<block, req, got, body, hdr, loc, sent, vetted, tunnel, status, lines>>

\* Wrong on purpose: the cap rests on the declared length only.
ChunkUncapped(n) ==
    /\ pc = "body" /\ got + n <= req.size
    /\ got' = got + n /\ UNCHANGED <<pc, status, lines>>
    /\ UNCHANGED <<block, req, body, hdr, loc, sent, vetted, tunnel>>

\* A chunk of n bytes.  Limited refuses one that would pass the cap; serve_http3
\* appends it first and answers 413 without a log line.
Chunk(n) ==
    /\ pc = "body" /\ got + n <= req.size
    /\ CASE got + n <= MaxBody -> got' = got + n /\ UNCHANGED <<pc, status, lines>>
         [] got + n > MaxBody /\ req.proto = "h3" ->
              got' = got + n /\ pc' = "done" /\ status' = 413 /\ UNCHANGED lines
         [] OTHER -> Respond(413) /\ UNCHANGED got
    /\ UNCHANGED <<block, req, body, hdr, loc, sent, vetted, tunnel>>

\* Wrong on purpose: the error path of the body forgets the log.
BodyErrorSilent ==
    /\ pc = "body"
    /\ IF req.proto = "h3" THEN pc' = "dropped" /\ NoAnswer
       ELSE pc' = "done" /\ status' = 400 /\ UNCHANGED lines
    /\ UNCHANGED <<block, req, got, body, hdr, loc, sent, vetted, tunnel>>

\* The body breaks off: 400, or for HTTP/3 the end of the task.
BodyError ==
    /\ pc = "body"
    /\ IF req.proto = "h3" THEN pc' = "dropped" /\ NoAnswer ELSE Respond(400)
    /\ UNCHANGED <<block, req, got, body, hdr, loc, sent, vetted, tunnel>>

\* handle_h3: Host must agree with :authority, and is made from it if absent.
\* An empty or unreadable Host ("") is let through.
handle_h3 ==
    CASE req.authority # None /\ req.host \notin {None, "", req.authority} ->
             Respond(400) /\ UNCHANGED req
      [] req.authority # None /\ req.host = None ->
             req' = [req EXCEPT !.host = req.authority] /\ pc' = "process" /\ NoAnswer
      [] OTHER -> pc' = "process" /\ NoAnswer /\ UNCHANGED req

BodyEnd ==
    /\ pc = "body" /\ got = req.size
    /\ IF req.proto = "h3" THEN handle_h3 ELSE pc' = "process" /\ NoAnswer /\ UNCHANGED req
    /\ UNCHANGED <<block, got, body, hdr, loc, sent, vetted, tunnel>>
-------------------------------------------------------------------------------
(* process: no await before dispatch, so it is one step. *)
Inflates  == req.gzip /\ got > 0 /\ req.inflated # NotGzip
\* maybe_decompress inflates at most MaxSize + 1 bytes; the ratio is an integer one.
Inflated  == IF req.inflated > MaxSize THEN MaxSize + 1 ELSE req.inflated
Oversized == Inflates /\ (Inflated > MaxSize \/ Inflated \div got > MaxRatio)

validate_host(h) ==
    CASE block.host_header_policy = "any"  -> TRUE
      [] block.host_header_policy = "list" -> h \in HostsAllowed \cup HostsNamed
      [] OTHER                             -> h \in HostsNamed

check_method_allowed == req.method = "GET"   \* GET stands for the seven allowed ones

\* RewriteEngine::apply: the first rule that matches.
apply(p) == LET i == SelectInSeq(Rules, LAMBDA r : p \in r.paths)
            IN  IF i = 0 THEN [flag |-> None, to |-> p] ELSE Rules[i]
Redirects(a) == a.flag \in {"redirect", "permanent"}

\* block.geoip: there is a database, and it knows the client's address.
stamp_geoip == [hdr EXCEPT !["x-geoip-country"] = IF block.geoip THEN "server" ELSE "absent"]

Matches(l, p) == p \in l.paths

\* Wrong on purpose: the first prefix that matches is taken.
FirstPrefix(p) ==
    SelectInSeq(block.locations, LAMBDA l : Matches(l, p))

\* One pass over the locations: an exact or regex match returns at once, the
\* longest prefix is remembered.  0 if there is none.
look(acc, i, p) ==
    LET l == block.locations[i] IN
    IF acc.final \/ ~Matches(l, p) THEN acc
    ELSE IF l.match_type # "prefix" THEN [at |-> i, len |-> 0, final |-> TRUE]
    ELSE IF l.len > acc.len THEN [at |-> i, len |-> l.len, final |-> FALSE]
    ELSE acc
looked(p) ==
    LET acc[i \in 0 .. Len(block.locations)] ==
            IF i = 0 THEN [at |-> 0, len |-> 0, final |-> FALSE] ELSE look(acc[i - 1], i, p)
    IN  acc
find_location(p) == looked(p)[Len(block.locations)].at

\* 500 if the target makes no header value.
redirect_response(s) == \E t \in {s, 500} : Respond(t)

\* 200 and 301 stand for the status the location configures.
\* The location's handler; without a location, the files under the block's root.
dispatch(i) ==
    LET l == block.locations[i] IN
    CASE i = 0 -> IF block.root THEN pc' = "static" /\ NoAnswer ELSE Respond(404)
      [] i # 0 /\ l.handler = "static" ->
             IF l.root \/ block.root THEN pc' = "static" /\ NoAnswer ELSE Respond(500)
      [] i # 0 /\ l.handler = "proxy"    -> pc' = "proxy" /\ NoAnswer
      [] i # 0 /\ l.handler = "return"   -> Respond(200)
      [] i # 0 /\ l.handler = "redirect" -> IF l.target THEN redirect_response(301) ELSE Respond(500)
      [] i # 0 /\ l.handler = "deny"     -> Respond(403)
      [] OTHER                           -> Respond(501)

Refusal ==
    FirstFailure(<<
        <<security_checks # 0, security_checks>>,
        <<got > MaxBody, 413>>,
        <<Oversized, 413>>,
        <<~validate_host(req.host), 400>>,
        <<~check_method_allowed, 405>> >>)

\* Wrong on purpose: the rewritten path goes on unchecked.
RewriteTrusted(a) == 0

\* A rewritten path is validated again, and must still make a URI: an
\* authority-form one, whose path is empty, has no scheme to go with a path.
RewriteRefusal(a) ==
    FirstFailure(<< <<validate_uri(a.to) # 0, validate_uri(a.to)>>, <<a.to \notin UriPaths, 400>>,
                    <<req.path = "", 500>> >>)

\* set_path, stamp_geoip, find_location and dispatch.
Route(a) ==
    /\ req' = [req EXCEPT !.path = a.to]
    /\ hdr' = stamp_geoip
    /\ loc' = find_location(a.to)
    /\ dispatch(loc')

Process ==
    /\ pc = "process"
    /\ body' = IF Refusal = 0 /\ Inflates THEN Inflated ELSE got
    /\ LET a == apply(req.path) IN
       CASE Refusal # 0 -> Refuse(Refusal) /\ UNCHANGED <<req, hdr, loc>>
         [] Refusal = 0 /\ Redirects(a) ->
                /\ redirect_response(IF a.flag = "permanent" THEN 301 ELSE 302)
                /\ UNCHANGED <<req, hdr, loc>>
         [] Refusal = 0 /\ ~Redirects(a) /\ a.flag # None /\ RewriteRefusal(a) # 0 ->
                Refuse(RewriteRefusal(a)) /\ UNCHANGED <<req, hdr, loc>>
         [] OTHER -> Route(a)
    /\ UNCHANGED <<block, got, sent, vetted, tunnel>>
-------------------------------------------------------------------------------
(* Handlers that await. *)
serve_file ==
    /\ pc = "static"
    /\ \E s \in {200, 400, 403, 404, 500} : Respond(s)
    /\ UNCHANGED <<block, req, got, body, hdr, loc, sent, vetted, tunnel>>

Without(h, S) == [n \in Names |-> IF n \in S THEN "absent" ELSE h[n]]

\* Wrong on purpose: Connection is removed before its nominations are read.
StripConnectionFirst(h) == Without(h, HOP_BY_HOP)

strip_hop_by_hop(h) == Without(h, (req.nominated \ NOMINATION_EXEMPT) \cup HOP_BY_HOP)

apply_forwarding_policy(h) ==
    LET base == IF block.trusted THEN h ELSE Without(h, ATTRIBUTION)
    IN  [base EXCEPT !["x-forwarded-for"] = IF @ = "client" THEN "client, server" ELSE "server",
                     !["x-real-ip"] = IF @ = "client" THEN @ ELSE "server",
                     !["x-forwarded-proto"] = IF @ = "client" THEN @ ELSE "server",
                     !["x-forwarded-host"] = IF @ = "client" \/ req.host = None THEN @ ELSE "server"]

\* Wrong on purpose: hop-by-hop headers are stripped last.
StampThenStrip ==
    LET h == Without(hdr, {"content-length"})
    IN  strip_hop_by_hop(IF block.normalize THEN apply_forwarding_policy(h) ELSE h)

\* forward: the headers of the upstream request (hyper adds the framing).
UpstreamHeaders ==
    LET h == Without(strip_hop_by_hop(hdr), {"content-length"})
    IN  IF block.normalize THEN apply_forwarding_policy(h) ELSE h

UpstreamRequest ==
    [hdr |-> UpstreamHeaders, path |-> IF req.path = "" THEN "/" ELSE req.path, body |-> body,
     host |-> IF req.host = None THEN "upstream" ELSE req.host]

\* dispatch_proxy and forward; their failover is in ProxyDispatch.
Proxied ==
    /\ pc = "proxy"
    /\ \/ \E s \in {200, 502, 504} : Respond(s) /\ sent' = UpstreamRequest
       \/ \E s \in {403, 502, 504} : Respond(s) /\ UNCHANGED sent    \* no candidate was reached
    /\ UNCHANGED <<block, req, got, body, hdr, loc, vetted, tunnel>>
-------------------------------------------------------------------------------
(* handle_connect. *)
canonical(a) == IF a = "mapped" THEN "private" ELSE a

\* An IPv4-mapped address is judged by the address in it.
is_restricted(a) == canonical(a) = "private"

ip_allowed(a) == is_restricted(a) => {a, canonical(a)} \cap block.networks # {}

\* connect_allowed_targets if it is set, else the servers of connect_upstream.
connect_target_permitted ==
    IF block.connect_allowed_targets # {None}
    THEN req.target.name \in block.connect_allowed_targets
    ELSE req.target.name \in block.connect_upstream

Connect ==
    /\ pc = "connect"
    /\ LET refusal == FirstFailure(<<
               <<~block.allow_connect, 405>>,
               <<req.target.name = None, 400>>,
               <<~req.target.port, 400>>,
               <<~connect_target_permitted, 403>>,
               <<req.target.literal # None /\ ~ip_allowed(req.target.literal), 403>> >>)
       IN  CASE refusal # 0 -> Respond(refusal) /\ UNCHANGED vetted
             [] refusal = 0 /\ req.target.literal # None ->
                    vetted' = <<req.target.literal>> /\ pc' = "dial" /\ NoAnswer
             [] OTHER -> pc' = "resolve" /\ NoAnswer /\ UNCHANGED vetted
    /\ UNCHANGED <<block, req, got, body, hdr, loc, sent, tunnel>>

\* Wrong on purpose: one address that passes is enough.
ResolvePartial(answer) ==
    /\ pc = "resolve"
    /\ IF \A i \in DOMAIN answer : ~ip_allowed(answer[i])
       THEN Respond(403) /\ UNCHANGED vetted
       ELSE vetted' = answer /\ pc' = "dial" /\ NoAnswer
    /\ UNCHANGED <<block, req, got, body, hdr, loc, sent, tunnel>>

\* resolve_checked: an error, an empty answer or any restricted address refuses.
ResolveTarget(answer) ==
    /\ pc = "resolve"
    /\ IF answer = <<>> \/ \E i \in DOMAIN answer : ~ip_allowed(answer[i])
       THEN Respond(403) /\ UNCHANGED vetted
       ELSE vetted' = answer /\ pc' = "dial" /\ NoAnswer
    /\ UNCHANGED <<block, req, got, body, hdr, loc, sent, tunnel>>

\* The vetted addresses are tried in turn, each for ten seconds.
DialFails ==
    /\ pc = "dial"
    /\ vetted' = Tail(vetted)
    /\ IF vetted' = <<>> THEN Respond(502) ELSE UNCHANGED pc /\ NoAnswer
    /\ UNCHANGED <<block, req, got, body, hdr, loc, sent, tunnel>>

DialSucceeds ==
    /\ pc = "dial"
    /\ tunnel' = Head(vetted) /\ Respond(200)
    /\ UNCHANGED <<block, req, got, body, hdr, loc, sent, vetted>>

Answers == {<<>>} \cup {<<a>> : a \in Addrs} \cup {<<a, b>> : a, b \in Addrs}

\* The connection ends, or the stream is reset: hyper drops the future of handle.
\* The tasks of serve_http3 are detached and go on.
Cancelled ==
    /\ pc \in {"body", "static", "proxy", "resolve", "dial"} /\ req.proto # "h3"
    /\ pc' = "dropped"
    /\ UNCHANGED <<block, req, got, body, hdr, loc, sent, vetted, tunnel, status, lines>>

\* The request has its answer, or was dropped.
Finished == pc \in {"done", "dropped"} /\ UNCHANGED vars

Next ==
    \/ Handle \/ AcceptH3 \/ BodyError \/ BodyEnd \/ Process \/ serve_file \/ Proxied
    \/ Connect \/ DialFails \/ DialSucceeds \/ Cancelled \/ Finished
    \/ \E n \in 1 .. MaxChunk : Chunk(n)
    \/ \E answer \in Answers : ResolveTarget(answer)

Spec == Init /\ [][Next]_vars
-------------------------------------------------------------------------------

Handled == pc \in {"static", "proxy"}

(* What a file or proxy handler gets has passed every check in the form it has
   then, whatever entry point it came by: process validates the rewritten path
   again, and checks HTTP/3 requests that handle never saw, whose Host agrees with
   :authority (only the policy "any" lets an empty or unreadable one through). *)
DispatchedClean ==
    Handled => /\ validate_uri(req.path) = 0 /\ req.path \in UriPaths
               /\ validate_host(req.host) /\ req.method = "GET"
               /\ ~req.big /\ (block.reject_ambiguous_framing => Len(req.lengths) <= 1)
               /\ (req.proto = "h3" /\ req.authority # None) =>
                      req.host = req.authority \/ (req.host = "" /\ block.host_header_policy = "any")

(* The body cap bounds what is buffered however the body is framed: HTTP/1 and
   HTTP/2 never hold more, HTTP/3 at most one chunk more; an inflated body keeps
   within its own two limits (the integer ratio lets just under one more times
   through). *)
BodyBounded ==
    /\ got <= MaxBody \/ (req.proto = "h3" /\ got <= MaxBody + MaxChunk /\ ~Handled)
    /\ Handled => \/ body = got /\ got <= MaxBody
                  \/ body <= MaxSize /\ body < (MaxRatio + 1) * got

(* The location is the one for the path that handlers and upstreams see: the first
   exact or regex match in the order of the configuration, and if there is none
   the longest matching prefix (an empty one never matches). *)
LocationChosen ==
    Handled =>
        LET L == block.locations
            hits     == {i \in DOMAIN L : req.path \in L[i].paths}
            direct   == {i \in hits : L[i].match_type # "prefix"}
            prefixes == {i \in hits : L[i].len > 0}
        IN  IF direct # {} THEN loc = Min(direct)
            ELSE IF prefixes = {} THEN loc = 0
            ELSE loc \in prefixes /\ \A i \in prefixes :
                     L[i].len < L[loc].len \/ (L[i].len = L[loc].len /\ loc <= i)

(* No hop-by-hop header and none the client named in Connection goes upstream
   with the client's value, nor a stale Content-Length; Host can not be named away. *)
HeadersStripped ==
    sent # <<>> =>
        /\ \A n \in HOP_BY_HOP \cup {"content-length"} : sent.hdr[n] = "absent"
        /\ \A n \in (req.nominated \ NOMINATION_EXEMPT) \cap Names : sent.hdr[n] \in {"absent", "server"}
        /\ req.host # None => sent.host = req.host

(* Upstreams can rely on what the server says of the client: X-Forwarded-For always
   has the client's address, and nothing but it unless the client is a trusted
   proxy, although the client may name these headers in Connection; a GeoIP header
   is never the client's. *)
AttributionHonest ==
    sent # <<>> =>
        /\ sent.hdr["x-geoip-country"] # "client"
        /\ block.normalize =>
             /\ sent.hdr["x-forwarded-for"] \in {"server", "client, server"}
             /\ ~block.trusted => /\ sent.hdr["x-forwarded-for"] = "server"
                                  /\ \A n \in ATTRIBUTION : sent.hdr[n] # "client"

(* A tunnel is only ever opened for a permitted target of an enabled block, to an
   address that is public or in an allowed network, by whichever form of the
   address and whichever of several answers; HTTP/3 has no tunnels. *)
TunnelVetted ==
    tunnel # None =>
        /\ block.allow_connect /\ connect_target_permitted /\ req.proto # "h3"
        /\ tunnel = "public" \/ tunnel \in block.networks \/ "private" \in block.networks

\* The one answer that HandlerService does not give: the 413 of serve_http3.
ServeHttp3Answers == req.proto = "h3" /\ got > MaxBody

(* Every early return writes its line, and none writes two: what HandlerService answers,
   by whichever entry point and check, has exactly one line in the access log when it is
   answered, and no line is written before there is an answer. *)
LoggedOnce ==
    /\ lines <= 1 /\ (lines = 1 => pc = "done" /\ status # 0)
    /\ (pc = "done" /\ ~ServeHttp3Answers) => lines = 1

(* Contract, line 554: "All security rejections (4xx responses due to policy, not
   application logic) must be logged"; line 45: "one line per request". *)
RejectionsLogged == (pc = "done" /\ status \in 400 .. 499) => lines = 1
===============================================================================
