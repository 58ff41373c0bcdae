------------------------------ MODULE MCPipeline ------------------------------
(***************************************************************************)
(* Requests and settings for Pipeline.  Five families vary what one part   *)
(* of the pipeline looks at together with the settings it consults; the    *)
(* rest of the request is that of an ordinary GET.                         *)
(***************************************************************************)
EXTENDS Pipeline

Protos == {"h1.0", "h1", "h2", "h3"}
MCUriPaths == {"", "/", "/app", "/app/x", "/bad", "token", "other-token",
               "/moved", "/old", "/up", "/odd", "/here", "/sliced", "/cut"}
MCPanicPaths == {"/sliced"}
MCValidPaths == (MCUriPaths \ {"/bad", "/sliced"}) \cup {"unparsable"}
Rule(P, f, to) == [paths |-> P, flag |-> f, to |-> to]
MCRules == <<Rule({"/moved"}, "permanent", "/"), Rule({"/old", "/moved", ""}, "break", "/app/x"),
             Rule({"/up"}, "last", "/bad"), Rule({"/odd"}, "last", "unparsable"),
             Rule({"/here"}, "redirect", "/"), Rule({"/cut"}, "break", "/sliced")>>
Loc(m, P, n, h) ==
    [match_type |-> m, paths |-> P, len |-> n, handler |-> h, root |-> FALSE, target |-> TRUE]
Tables == LET any   == Loc("prefix", MCUriPaths \ {""}, 1, "proxy")
              empty == Loc("prefix", MCUriPaths, 0, "deny")
              app   == Loc("prefix", {"/app", "/app/x"}, 4, "static")
              again == Loc("prefix", {"/app", "/app/x"}, 4, "proxy")
              exact == Loc("exact", {"/app"}, 4, "proxy")
              regex == Loc("regex", {"/app", "/app/x"}, 3, "proxy")
              other == Loc("exact", {"/"}, 1, "return")
              bare  == [Loc("exact", {"/"}, 1, "redirect") EXCEPT !.target = FALSE]
          IN  {<<>>, <<empty, any>>, <<any, app, exact>>, <<exact, any, app>>, <<app, again, any>>,
               <<app, regex, exact>>, <<any, app, regex>>, <<other, empty, any>>, <<bare, empty>>, <<Loc("exact", {"/"}, 1, "deny")>>, <<Loc("exact", {"/"}, 1, "unknown")>>,
               <<Loc("exact", {"/"}, 1, "redirect"), empty, regex>>}

Block == [host_header_policy |-> "strict", reject_ambiguous_framing |-> TRUE, acme |-> FALSE, geoip |-> FALSE,
          normalize |-> TRUE, trusted |-> FALSE, root |-> FALSE, allow_connect |-> FALSE,
          connect_allowed_targets |-> {None}, connect_upstream |-> {}, networks |-> {},
          locations |-> <<Loc("prefix", MCUriPaths \ {""}, 1, "proxy")>>]
Get == [proto |-> "h1", method |-> "GET", path |-> "/", authority |-> None, host |-> "site",
        big |-> FALSE, lengths |-> <<>>, te |-> FALSE, size |-> 0, gzip |-> FALSE,
        inflated |-> NotGzip, supplied |-> {}, nominated |-> {},
        target |-> [name |-> None, port |-> TRUE, literal |-> None]]

Case(b, r) == [block |-> b, req |-> r]

\* Only HTTP/1 has authority-form requests, whose path is empty.
PathsOf == {v \in {"h1", "h3"} \X MCUriPaths : v[2] = "" => v[1] = "h1"}
Routing ==
    {Case([Block EXCEPT !.root = r, !.locations = t, !.acme = a],
          [Get EXCEPT !.proto = v[1], !.path = v[2]]) :
        r \in BOOLEAN, t \in Tables, a \in BOOLEAN, v \in PathsOf}

HostCases ==
    {Case([Block EXCEPT !.host_header_policy = o],
          [Get EXCEPT !.proto = p, !.method = m, !.authority = a, !.host = h]) :
        o \in {"strict", "list", "any"}, p \in Protos, m \in {"GET", "TRACE"},
        a \in {None, "site", "other", "alias"}, h \in {None, "", "site", "other", "alias"}}

\* A declared length is the length of the body, except over HTTP/3; the h2 crate
\* refuses Transfer-Encoding.
Framed(r) == /\ r.lengths = <<>> \/ r.proto = "h3" \/ r.size = Head(r.lengths)
             /\ r.proto = "h2" => ~r.te
Bodies ==
    {Case([Block EXCEPT !.reject_ambiguous_framing = s], r) :
        s \in BOOLEAN,
        r \in {x \in {[Get EXCEPT !.proto = p, !.big = b, !.lengths = l, !.te = t, !.size = n,
                                  !.gzip = z # 0, !.inflated = IF z = 0 THEN NotGzip ELSE z] :
                          p \in Protos, b \in BOOLEAN, t \in BOOLEAN, n \in 0 .. MaxBody + 2,
                          l \in {<<>>, <<Unparsed>>, <<1>>, <<MaxBody>>, <<MaxBody + 1>>, <<1, 1>>},
                          z \in {0, NotGzip, 2, MaxSize, MaxSize + 2}} : Framed(x)}}

Headers ==
    {Case([Block EXCEPT !.normalize = n, !.trusted = t, !.geoip = g, !.host_header_policy = "any"],
          [Get EXCEPT !.host = h, !.te = TRUE, !.supplied = s, !.nominated = c]) :
        n \in BOOLEAN, t \in BOOLEAN, g \in BOOLEAN, h \in {None, "site"},
        s \in {x \cup y : x \in SUBSET {"x-forwarded-for", "x-real-ip", "x-forwarded-host", "x-other"},
                         y \in {{}, {"forwarded", "x-forwarded-proto", "x-geoip-country"}}},
        c \in {{"x-geoip-country", "x-forwarded-host"}} \cup SUBSET {"host", "x-forwarded-for", "x-other"}}

Tunnels ==
    {Case([Block EXCEPT !.allow_connect = a, !.connect_allowed_targets = l,
                        !.connect_upstream = u, !.networks = n],
          [Get EXCEPT !.proto = p, !.method = "CONNECT", !.path = "",
                      !.target = [name |-> x, port |-> o, literal |-> i]]) :
        a \in BOOLEAN, l \in {{None}, {}, {"t1"}}, u \in {{}, {"t2"}},
        n \in {{}, {"private"}, {"mapped"}}, p \in {"h1", "h2", "h3"},
        x \in {None, "t1", "t2"}, o \in BOOLEAN, i \in Addrs \cup {None}}

MCCases == Routing \cup HostCases \cup Bodies \cup Headers \cup Tunnels
===============================================================================
