-------------------------------- MODULE Config --------------------------------
(***************************************************************************)
(* The configuration: Config::validate (config.rs), which decides at       *)
(* startup, under --test and at every reload whether a file is taken, and  *)
(* the lookups at request time that rely on what it has checked            *)
(* (select_upstream in handler.rs with the router of absplit.rs).          *)
(*                                                                         *)
(* An Option is a set with at most one element.  Vectors whose order       *)
(* matters are sequences, the others sets.  A text that has to parse (an   *)
(* address, a CIDR, a regex) either is Malformed or parses.  A domain name *)
(* is the sequence of its labels, a file mode the number it is, and a TLS  *)
(* version is written in upper case, as it is compared.                    *)
(***************************************************************************)
EXTENDS Integers, SequencesExt

CONSTANTS Configs,  \* what files may say: a function from contents to what they parse to
          U32,      \* where a u32 wraps (2^32 in the code)
          Files     \* the file system: a function from paths to [kind, mode, owner]

Malformed == "malformed"
parses(text) == text # Malformed

IsVec(v) == Len(v) \in Nat /\ v = [i \in 1 .. Len(v) |-> v[i]]

ASSUME ConfigAssumption ==
    /\ U32 \in Nat \ {0}
    /\ \A n \in DOMAIN Configs : \A b \in ToSet(Configs[n].http) :
           /\ IsVec(b.upstreams) /\ IsVec(b.ab_splits)
           /\ \A split \in ToSet(b.ab_splits) : IsVec(split.groups)
    /\ \A path \in DOMAIN Files : /\ Files[path].kind \in {"file", "directory"}
                                  /\ Files[path].mode \in 0 .. 511
                                  /\ Files[path].owner \in Nat

exists(path) == path \in DOMAIN Files
-------------------------------------------------------------------------------
\* The running sums of u32 weights, as the release build adds them: they wrap.
Sums(groups) ==
    LET sum[i \in 0 .. Len(groups)] == IF i = 0 THEN 0 ELSE (sum[i - 1] + groups[i].weight) % U32
    IN  sum

Total(groups) == Sums(groups)[Len(groups)]

resolve_upstream(b, name) == SelectInSeq(b.upstreams, LAMBDA u : u.name = name)

\* Wrong on purpose: the pools of the groups are not looked up.
SumsOnly(b) == \A split \in ToSet(b.ab_splits) : Total(split.groups) = 100

\* Invariant 4, and every group has its pool.
ab_splits_ok(b) ==
    \A split \in ToSet(b.ab_splits) :
        /\ Total(split.groups) = 100
        /\ \A g \in ToSet(split.groups) : resolve_upstream(b, g.upstream) # 0

listen_ok(listen) == \A addr \in listen.address : parses(addr)

check_upstream(u) ==
    /\ u.strategy \in {"round-robin", "least-conn", "ip-hash"}
    /\ \A s \in ToSet(u.servers) : s.weight # 0

upstreams_ok(b) ==
    /\ \A u \in ToSet(b.upstreams) : check_upstream(u)
    /\ \A location \in b.locations : \A u \in location.upstream : check_upstream(u)
    /\ \A u \in b.connect_upstream : check_upstream(u)

is_proxy(location) == location.handler_type \in {"proxy", "reverse_proxy"}

\* A proxy location names a split of the block, or there are servers to proxy to.
location_ok(b, location) ==
    /\ \/ location.match_type \in {"exact", "prefix"}
       \/ location.match_type = "regex" /\ parses(location.pattern)
    /\ is_proxy(location) =>
         IF location.ab_split # {}
         THEN \A name \in location.ab_split : \E s \in ToSet(b.ab_splits) : s.name = name
         ELSE \/ \E u \in location.upstream : u.servers # <<>>
              \/ b.upstreams # <<>> /\ b.upstreams[1].servers # <<>>

rewrite_ok(rule) == parses(rule.pattern) /\ rule.flag \in {"break", "last", "redirect", "permanent"}

host_policy_ok(b) ==
    /\ b.host_header_policy \in {"strict", "any", "list"}
    /\ b.host_header_policy = "list" => (b.allowed_hosts # {} \/ b.server_name # {})

\* An address literal of a private, loopback, link-local or multicast range has to
\* lie in a network that is allowed; a name passes.
validate_upstream_address(host, networks) ==
    host = "private" => \E net \in networks : net = "private network"

allowlists_ok(b) ==
    (\A cidr \in b.trusted_proxies : parses(cidr)) /\ "" \notin b.connect_allowed_targets

networks_ok(b) ==
    /\ \A net \in b.upstream_allowed_networks : parses(net)
    /\ \A u \in ToSet(b.upstreams) : \A s \in ToSet(u.servers) :
           validate_upstream_address(s.address, b.upstream_allowed_networks)
-------------------------------------------------------------------------------
\* A wildcard covers the bare domain and names of any depth below it.
matches_wildcard(pattern, domain) ==
    IF pattern[1] = "*" THEN IsSuffix(Tail(pattern), domain) ELSE pattern = domain

\* Invariants 73 and 77: a regular file without a bit for group or others.
check_secret_file(path) ==
    exists(path) /\ Files[path].kind = "file" /\ Files[path].mode % 64 = 0

\* root: the effective user is root when validate runs.
acme_ok(b, acme, root) ==
    acme.enabled =>
        /\ acme.email # "" /\ acme.agree_tos
        /\ \A domain \in acme.domains : \E s \in b.server_name :
                                       s = domain \/ matches_wildcard(s, domain)
        /\ ~(acme.staging /\ acme.ca_endpoint = "production")
        /\ acme.http_challenge_port < 1024 => root
        /\ \A webhook \in acme.dns_webhook : \A path \in webhook.auth_header : check_secret_file(path)
        /\ \A eab \in acme.eab : eab.kid # "" /\ check_secret_file(eab.hmac_key)
        /\ \A path \in acme.ca_root : exists(path)
        /\ "dns-01" \in acme.challenge_types => acme.dns_webhook # {}

ssl_ok(b, ssl, root) ==
    /\ ssl.protocols \subseteq {"TLSV1.2", "TLSV1.3"}
    /\ \A acme \in ssl.acme : acme_ok(b, acme, root)
    /\ \A path \in ssl.certificate \cup ssl.certificate_key : exists(path)

block_ok(b, root) ==
    /\ ab_splits_ok(b)
    /\ \A listen \in ToSet(b.listen) : listen_ok(listen)
    /\ upstreams_ok(b)
    /\ \A location \in b.locations : location_ok(b, location)
    /\ \A rule \in b.rewrites : rewrite_ok(rule)
    /\ allowlists_ok(b) /\ host_policy_ok(b) /\ networks_ok(b)
    /\ \A ssl \in b.ssl : ssl_ok(b, ssl, root)
    /\ b.allow_connect => b.connect_upstream # {}

\* Wrong on purpose: stream blocks are taken as they are.
StreamUnchecked(sb) == sb.listen.port >= 1

stream_ok(sb) ==
    /\ sb.listen.port >= 1
    /\ sb.upstream.name # "" /\ sb.upstream.servers # <<>>
    /\ listen_ok(sb.listen)

\* The addresses of the mail listeners are not looked at.
mail_ok(mail) == mail.upstream.name # "" /\ \A listen \in ToSet(mail.listen) : listen.port >= 1

validate(c, root) ==
    /\ \A b \in ToSet(c.http) : block_ok(b, root)
    /\ \A sb \in ToSet(c.stream) : stream_ok(sb)
    /\ \A mail \in c.mail : mail_ok(mail)

\* Config::load.  A file is an Option of its content; what does not parse is not in
\* Configs.
load(file, root) == {n \in file \cap DOMAIN Configs : validate(Configs[n], root)}
-------------------------------------------------------------------------------
(* What a proxied request finds. *)

\* resolve: in a sticky split a session that has a pin (an Option of a group's name) keeps it,
\* whichever split has left it.  Otherwise the first group whose running sum exceeds the hash,
\* or else the first group.  None: no weight.
resolve(split, hash, pin) ==
    LET n == SelectInSeq([i \in 1 .. Len(split.groups) |-> Sums(split.groups)[i]],
                         LAMBDA sum : hash % Total(split.groups) < sum)
    IN  IF split.sticky /\ pin # {} THEN pin
        ELSE IF Total(split.groups) = 0 THEN {} ELSE {split.groups[IF n = 0 THEN 1 ELSE n].name}

\* AbSplitRouter::new keeps the last split of a name, the lookup finds the first.
Kept(b, name)  == {SelectLastInSeq(b.ab_splits, LAMBDA s : s.name = name)} \ {0}
Found(b, name) == {SelectInSeq(b.ab_splits, LAMBDA s : s.name = name)} \ {0}

\* hash_session, up to the total weight of a split that is taken.
Hashes == 0 .. 99

\* The pins a session may have: none, or what a sticky split of the router has given it.
StickySplits(b) == {i \in DOMAIN b.ab_splits : i \in Kept(b, b.ab_splits[i].name) /\ b.ab_splits[i].sticky}
Pins(b) == {{}} \cup UNION {{resolve(b.ab_splits[i], hash, {}) : hash \in Hashes} : i \in StickySplits(b)}

\* The group the router chooses, and its pool.
Chosen(b, name, hash, pin) == UNION {resolve(b.ab_splits[i], hash, pin) : i \in Kept(b, name)}

select_split(b, name, hash, pin) ==
    LET groups == UNION {ToSet(b.ab_splits[i].groups) : i \in Found(b, name)}
    IN  {resolve_upstream(b, g.upstream) : g \in {h \in groups : h.name \in Chosen(b, name, hash, pin)}} \ {0}

\* The pools a request to the location may be sent to: {} stands for the 502 of a
\* location that resolves to none.
select_upstream(b, location, hash, pin) ==
    IF location.ab_split # {}
    THEN {b.upstreams[n] : n \in UNION {select_split(b, name, hash, pin) : name \in location.ab_split}}
    ELSE IF location.upstream # {} THEN location.upstream
         ELSE {b.upstreams[n] : n \in {1} \cap DOMAIN b.upstreams}
===============================================================================
