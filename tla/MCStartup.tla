------------------------------- MODULE MCStartup -------------------------------
(* Startup with configurations that differ in what startup and the validator tell
   apart: some that can be served, and others with one fault each. *)
EXTENDS Startup

CONSTANTS p1, p2

Listener(protocol, port) == [protocol |-> protocol, address |-> {}, port |-> port]
At(listener, address) == [listener EXCEPT !.address = {address}]
Server(address, weight) == [address |-> address, weight |-> weight]
Pool(name, servers) == [name |-> name, strategy |-> "round-robin", servers |-> servers]
Group(name, upstream, weight) == [name |-> name, upstream |-> upstream, weight |-> weight]
Split(name, groups) == [name |-> name, groups |-> groups, sticky |-> FALSE]
Sticky(split) == [split EXCEPT !.sticky = TRUE]
Proxy(split, upstream) == [match_type |-> "prefix", pattern |-> "/", handler_type |-> "proxy",
                           ab_split |-> split, upstream |-> upstream]

Block(listen) ==
    [listen |-> listen, ab_splits |-> <<>>, upstreams |-> <<>>, locations |-> {},
     connect_upstream |-> {}, allow_connect |-> FALSE, rewrites |-> {}, trusted_proxies |-> {},
     connect_allowed_targets |-> {}, host_header_policy |-> "strict", allowed_hosts |-> {},
     server_name |-> {<<"*", "example", "com">>}, upstream_allowed_networks |-> {}, ssl |-> {},
     http3 |-> FALSE, access_log |-> "user log"]

Static(key) == [protocols |-> {"TLSV1.3"}, acme |-> {}, certificate |-> {"cert"}, certificate_key |-> {key}]

Acme(port) ==
    [enabled |-> TRUE, email |-> "admin", agree_tos |-> TRUE, domains |-> {<<"www", "example", "com">>},
     staging |-> FALSE, ca_endpoint |-> "production", http_challenge_port |-> port, dns_webhook |-> {},
     eab |-> {[kid |-> "kid", hmac_key |-> "user secret"]}, ca_root |-> {}, challenge_types |-> {"http-01"}]

Issued(acme) == [protocols |-> {}, acme |-> {acme}, certificate |-> {}, certificate_key |-> {}]

Process(blocks) == [http |-> blocks, stream |-> <<>>, mail |-> {}, user |-> {"www"}, pid_file |-> {<<"flexd", "pid">>}]

MCFiles == [path \in {"cert", "root key", "user key", "user secret", "open secret", "directory",
                        "user log", "./logs/access.log"} |->
               [kind  |-> IF path = "directory" THEN path ELSE "file",
                mode  |-> IF path \in {"cert", "open secret"} THEN 420 ELSE 384,
                owner |-> IF path \in {"cert", "root key", "./logs/access.log"} THEN 0 ELSE 33]]

MCAccounts == [root |-> [uid |-> 0, gid |-> 0], www |-> [uid |-> 33, gid |-> 33]]

Root == [uid |-> 0, gid |-> 0, groups |-> {0, 4}]
MCBoots == {Root, [uid |-> 33, gid |-> 33, groups |-> {33}]}
-------------------------------------------------------------------------------
(* Configurations that are taken, some of them only from root. *)
Web(key) == [Block(<<Listener("http", 80), Listener("https", 443), Listener("quic", 443)>>)
                EXCEPT !.ssl = {Static(key)}, !.http3 = TRUE]

AcmeBlock(acme, a, b) == [Block(<<Listener("http", a), Listener("https", b), Listener("h3", b)>>)
                             EXCEPT !.ssl = {Issued(acme)}, !.http3 = TRUE]

Ab == [Block(<<Listener("http", 8080)>>) EXCEPT
          !.upstreams = <<Pool("a", <<Server("public", 1)>>), Pool("b", <<Server("name", 2)>>)>>,
          !.ab_splits = <<Split("s", <<Group("x", "a", 30), Group("y", "b", 70)>>)>>,
          !.locations = {Proxy({"s"}, {}), Proxy({}, {Pool("c", <<Server("private", 1)>>)}), Proxy({}, {})}]

Stream(listen) == [listen |-> listen, upstream |-> Pool("db", <<Server("private", 0)>>)]
Mail(listen) == [listen |-> listen, upstream |-> Pool("mx", <<>>)]

Services == [Process(<<Block(<<Listener("gopher", 70), Listener("tcp", 0), At(Listener("http", 8080), "10.0.0.1")>>)>>)
                EXCEPT !.stream = <<Stream(At(Listener("tcp", 8080), "10.0.0.2"))>>,
                       !.mail = {Mail(<<At(Listener("smtp", 2525), Malformed)>>)}]

TwoAcme == Process(<<AcmeBlock(Acme(80), 80, 443), [Block(<<Listener("https", 8443)>>) EXCEPT !.ssl = {Issued(Acme(8080))}]>>)

Taken ==
    [web      |-> Process(<<Web("user key")>>),
     rootkey  |-> Process(<<Web("root key")>>),
     noSsl    |-> Process(<<[Web("user key") EXCEPT !.ssl = {}]>>),
     quicOnly |-> Process(<<[Web("root key") EXCEPT !.listen = <<Listener("quic", 8443)>>]>>),
     acme     |-> TwoAcme,
     asRoot   |-> [TwoAcme EXCEPT !.user = {"root"}],
     keepsUid |-> [TwoAcme EXCEPT !.user = {}],
     unread   |-> Process(<<AcmeBlock([Acme(8080) EXCEPT !.eab = {[kid |-> "kid", hmac_key |-> "root key"]}], 8080, 8443)>>),
     webhook  |-> Process(<<AcmeBlock([Acme(8080) EXCEPT !.challenge_types = {"dns-01"},
                                           !.dns_webhook = {[auth_header |-> {"root key"}]}], 8080, 8443)>>),
     ghost    |-> [Process(<<Ab>>) EXCEPT !.user = {"ghost"}],
     services |-> Services,
     clash    |-> [Services EXCEPT !.stream = <<Stream(Listener("tcp", 8080))>>],
     ab       |-> [Process(<<Ab>>) EXCEPT !.pid_file = {<<"other", "pid">>}],
     wraps    |-> Process(<<[Ab EXCEPT !.ab_splits[1].groups = <<Group("x", "a", 900), Group("y", "b", 224)>>]>>),
     twice    |-> Process(<<[Ab EXCEPT !.ab_splits = @ \o <<Split("s", <<Group("z", "b", 100)>>)>>]>>),
     sticky   |-> Process(<<[Ab EXCEPT !.ab_splits = <<Sticky(@[1]), Sticky(Split("t", <<Group("x", "b", 50), Group("z", "b", 50)>>))>>]>>),
     noLog    |-> Process(<<[Ab EXCEPT !.access_log = "nowhere"], Block(<<Listener("http", 8081)>>)>>),
     mute     |-> Process(<<[AcmeBlock(Acme(8080), 8080, 8443) EXCEPT !.access_log = "nowhere"]>>),
     fallback |-> [Process(<<[Ab EXCEPT !.access_log = "nowhere"]>>) EXCEPT !.user = {}],
     noPid    |-> [Process(<<Ab>>) EXCEPT !.pid_file = {}],
     badPid   |-> [Process(<<Ab>>) EXCEPT !.pid_file = {<<"flexd", "lock">>}]]
-------------------------------------------------------------------------------
(* Configurations with one fault each. *)
Faulty(b) == Process(<<b>>)
FaultyAcme(acme) == Faulty(AcmeBlock(acme, 8080, 8443))
FaultySsl(ssl) == Faulty([Web("user key") EXCEPT !.ssl = {ssl}])

Rejected ==
    [sum       |-> Faulty([Ab EXCEPT !.ab_splits[1].groups[1].weight = 29]),
     group     |-> Faulty([Ab EXCEPT !.ab_splits[1].groups[1].upstream = "z"]),
     address   |-> Faulty([Ab EXCEPT !.listen[1].address = {Malformed}]),
     strategy  |-> Faulty([Ab EXCEPT !.upstreams[1].strategy = "random"]),
     weight    |-> Faulty([Ab EXCEPT !.upstreams[1].servers[1].weight = 0]),
     inline    |-> Faulty([Ab EXCEPT !.locations = {Proxy({}, {Pool("c", <<Server("name", 0)>>)})}]),
     connect   |-> Faulty([Ab EXCEPT !.connect_upstream = {Pool("c", <<Server("name", 0)>>)}]),
     match     |-> Faulty([Ab EXCEPT !.locations = {[l EXCEPT !.match_type = "suffix"] : l \in @}]),
     regex     |-> Faulty([Ab EXCEPT !.locations = {[l EXCEPT !.match_type = "regex", !.pattern = Malformed] : l \in @}]),
     split     |-> Faulty([Ab EXCEPT !.locations = {Proxy({"t"}, {})}]),
     servers   |-> Faulty([Ab EXCEPT !.ab_splits = <<>>, !.upstreams = <<>>, !.locations = {Proxy({}, {})}]),
     rewrite   |-> Faulty([Ab EXCEPT !.rewrites = {[pattern |-> "/", flag |-> "next"]}]),
     proxies   |-> Faulty([Ab EXCEPT !.trusted_proxies = {Malformed}]),
     target    |-> Faulty([Ab EXCEPT !.connect_allowed_targets = {""}]),
     policy    |-> Faulty([Ab EXCEPT !.host_header_policy = "none"]),
     list      |-> Faulty([Ab EXCEPT !.host_header_policy = "list", !.server_name = {}]),
     network   |-> Faulty([Ab EXCEPT !.upstream_allowed_networks = {Malformed}]),
     private   |-> Faulty([Ab EXCEPT !.upstreams[1].servers[1].address = "private"]),
     noConnect |-> Faulty([Ab EXCEPT !.allow_connect = TRUE]),
     protocol  |-> FaultySsl([Static("user key") EXCEPT !.protocols = {"TLSV1.1"}]),
     noKey     |-> FaultySsl(Static("nowhere")),
     email     |-> FaultyAcme([Acme(8080) EXCEPT !.email = ""]),
     tos       |-> FaultyAcme([Acme(8080) EXCEPT !.agree_tos = FALSE]),
     domain    |-> FaultyAcme([Acme(8080) EXCEPT !.domains = {<<"example", "org">>}]),
     staging   |-> FaultyAcme([Acme(8080) EXCEPT !.staging = TRUE]),
     secret    |-> FaultyAcme([Acme(8080) EXCEPT !.eab = {[kid |-> "kid", hmac_key |-> "open secret"]}]),
     dirSecret |-> FaultyAcme([Acme(8080) EXCEPT !.dns_webhook = {[auth_header |-> {"directory"}]}]),
     dns       |-> FaultyAcme([Acme(8080) EXCEPT !.challenge_types = {"dns-01"}]),
     caRoot    |-> FaultyAcme([Acme(8080) EXCEPT !.ca_root = {"nowhere"}]),
     stream    |-> [Services EXCEPT !.stream = <<Stream(At(Listener("tcp", 9000), Malformed))>>],
     mail      |-> [Services EXCEPT !.mail = {Mail(<<Listener("smtp", 0)>>)}]]

MCConfigs == Taken @@ Rejected

\* The other file is reached by a reload from "ab".
MCConfigPath == <<"flexd", "conf">>
MCDisks == {(MCConfigPath :> {n}) @@ (<<"other", "conf">> :> {m}) : n \in DOMAIN MCConfigs \cup {"gibberish"}, m \in {"web", "group"}}
               \cup {MCConfigPath :> {}}
===============================================================================
