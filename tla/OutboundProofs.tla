---------------------------- MODULE OutboundProofs ----------------------------
(***************************************************************************)
(* Proofs about the two parts that call other services: Resolver, for any  *)
(* tasks, names, DNS answers, TTL, cache size and length of run, and       *)
(* AcmeCert, for any loops, ids, Retry-After values, attempts and faults.  *)
(* What a task is handed comes from the network or from an entry some      *)
(* other task has stored, so VettedOnly needs that no entry is empty.      *)
(***************************************************************************)
EXTENDS Resolver, AcmeCert, FiniteSetTheorems, TLAPS
-------------------------------------------------------------------------------
(* The resolver. *)

Entry == [addrs : SUBSET Addresses, expires : Nat]

RTypes ==
    /\ now \in Nat /\ cache \in [Hosts -> Entry] /\ host \in [Tasks -> Hosts]
    /\ tpc \in [Tasks -> {"idle", "cached", "lookup", "vet"}]
    /\ heard \in [Tasks -> SUBSET Addresses]
    /\ outcome \in [Tasks -> {"none", "ok", "io_error", "not_found", "denied"}]

CacheVetted == \A h \in Hosts : /\ cache[h].addrs \subseteq Allowed
                                /\ cache[h] # NoEntry => cache[h].addrs # {}

Good(t) == (tpc[t] = "idle" /\ outcome[t] = "ok") => heard[t] # {} /\ heard[t] \subseteq Allowed

RInv == RTypes /\ CacheVetted /\ \A t \in Tasks : Good(t)

LEMMA InitRInv == ResolverInit => RInv
  BY ResolverAssumption DEF ResolverInit, RInv, RTypes, CacheVetted, Good, Entry, NoEntry

\* A task that ends with addrs and outcome o.
LEMMA ReturnRInv ==
    ASSUME RInv, NEW t \in Tasks, NEW o \in {"ok", "io_error", "not_found", "denied"},
           NEW addrs \in SUBSET Addresses, Return(t, o, addrs),
           UNCHANGED <<now, host>>, cache' \in [Hosts -> Entry], CacheVetted',
           o = "ok" => addrs # {} /\ addrs \subseteq Allowed
    PROVE  RInv'
<1>1. RTypes'
  BY DEF RInv, RTypes, Return
<1>2. ASSUME NEW s \in Tasks PROVE Good(s)'
  <2>1. CASE s = t
    BY <2>1 DEF RInv, RTypes, Return, Good
  <2>2. CASE s # t
    BY <2>2 DEF RInv, RTypes, Return, Good
  <2> QED
    BY <2>1, <2>2
<1> QED
  BY <1>1, <1>2 DEF RInv

LEMMA StepRInv == RInv /\ [ResolverNext]_resolverVars => RInv'
<1> SUFFICES ASSUME RInv, [ResolverNext]_resolverVars PROVE RInv'
  OBVIOUS
<1>1. CASE UNCHANGED resolverVars \/ Clock
  BY <1>1 DEF resolverVars, Clock, RInv, RTypes, CacheVetted, Good
<1>2. ASSUME NEW t \in Tasks, NEW h \in Hosts, Resolve(t, h) PROVE RInv'
  BY <1>2 DEF Resolve, RInv, RTypes, CacheVetted, Good
<1>3. ASSUME NEW t \in Tasks, CacheHit(t) PROVE RInv'
  <2> DEFINE e == cache[host[t]]
  <2>1. host[t] \in Hosts /\ e \in Entry /\ e # NoEntry
    BY <1>3 DEF CacheHit, RInv, RTypes
  <2>2. e.addrs \in SUBSET Addresses /\ e.addrs # {} /\ e.addrs \subseteq Allowed
    BY <2>1 DEF RInv, CacheVetted, Entry
  <2>3. Return(t, "ok", e.addrs) /\ UNCHANGED <<now, cache, host>>
    BY <1>3 DEF CacheHit
  <2>4. cache' \in [Hosts -> Entry] /\ CacheVetted'
    BY <2>3 DEF RInv, RTypes, CacheVetted
  <2> QED
    BY <2>2, <2>3, <2>4, ReturnRInv
<1>4. ASSUME NEW t \in Tasks, CacheMiss(t) PROVE RInv'
  <2>1. cache' = [cache EXCEPT ![host[t]] = NoEntry] /\ NoEntry \in Entry /\ NoEntry.addrs = {}
    BY <1>4 DEF CacheMiss, NoEntry, Entry
  <2>2. CacheVetted' /\ cache' \in [Hosts -> Entry]
    BY <2>1 DEF RInv, RTypes, CacheVetted
  <2> QED
    BY <1>4, <2>2 DEF CacheMiss, RInv, RTypes, Good
<1>5. ASSUME NEW t \in Tasks, LookedUp(t) PROVE RInv'
  BY <1>5, ResolverAssumption DEF LookedUp, RInv, RTypes, CacheVetted, Good
<1>6. ASSUME NEW t \in Tasks, LookupFailed(t) \/ Reject(t) PROVE RInv'
  <2>1. UNCHANGED <<now, cache, host>> /\ \E o \in {"io_error", "not_found", "denied"} : Return(t, o, {})
    BY <1>6 DEF LookupFailed, Reject
  <2>2. cache' \in [Hosts -> Entry] /\ CacheVetted'
    BY <2>1 DEF RInv, RTypes, CacheVetted
  <2> QED
    BY <2>1, <2>2, ReturnRInv
<1>7. ASSUME NEW t \in Tasks, Store(t) PROVE RInv'
  <2> DEFINE kept == IF Cardinality(Entries) >= MaxEntries THEN [h \in Hosts |-> NoEntry] ELSE cache
             e == [addrs |-> heard[t], expires |-> now + Ttl]
  <2>1. /\ heard[t] # {} /\ heard[t] \subseteq Allowed /\ heard[t] \in SUBSET Addresses
        /\ cache' = [kept EXCEPT ![host[t]] = e]
        /\ Return(t, "ok", heard[t]) /\ UNCHANGED <<now, host>>
    BY <1>7 DEF Store, RInv, RTypes
  <2>2. e \in Entry /\ e.addrs = heard[t]
    BY <2>1, ResolverAssumption DEF RInv, RTypes, Entry
  <2>3. kept \in [Hosts -> Entry] /\ \A h \in Hosts : kept[h] \in {NoEntry, cache[h]}
    BY DEF RInv, RTypes, Entry, NoEntry
  <2>4. NoEntry.addrs = {}
    BY DEF NoEntry
  <2> HIDE DEF kept, e
  <2>5. cache' \in [Hosts -> Entry] /\ \A h \in Hosts : cache'[h] \in {NoEntry, cache[h], e}
    BY <2>1, <2>2, <2>3
  <2>6. CacheVetted'
    BY <2>1, <2>2, <2>4, <2>5 DEF RInv, CacheVetted
  <2> QED
    BY <2>1, <2>5, <2>6, ReturnRInv
<1> QED
  BY <1>1, <1>2, <1>3, <1>4, <1>5, <1>6, <1>7 DEF ResolverNext

(* Whatever DNS answers and however tasks race on the cache: no address outside the allowed
   ranges is cached or handed out. *)
THEOREM Vetted == ResolverSpec => []VettedOnly
<1>1. RInv => VettedOnly
  BY DEF RInv, CacheVetted, Good, VettedOnly
<1> QED
  BY <1>1, InitRInv, StepRInv, PTL DEF ResolverSpec

\* One more entry.
LEMMA OneMore ==
    ASSUME NEW P, IsFiniteSet(P), NEW h
    PROVE  /\ IsFiniteSet(P \cup {h})
           /\ Cardinality(P) \in Nat /\ Cardinality(P \cup {h}) \in Nat
           /\ Cardinality(P \cup {h}) <= Cardinality(P) + 1
<1>1. /\ IsFiniteSet(P \cup {h})
      /\ Cardinality(P \cup {h}) = IF h \in P THEN Cardinality(P) ELSE Cardinality(P) + 1
  BY FS_AddElement, Zenon
<1>2. Cardinality(P) \in Nat
  BY FS_CardinalityType
<1> QED
  BY <1>1, <1>2

\* The entries are among the names; fewer entries are not more.
LEMMA FewerEntries ==
    ASSUME CacheBounded, Entries' \subseteq Entries
    PROVE  CacheBounded'
<1>1. IsFiniteSet(Entries)
  <2>1. Entries \subseteq Hosts
    BY DEF Entries
  <2> QED
    BY <2>1, ResolverAssumption, FS_Subset
<1>2. Cardinality(Entries') <= Cardinality(Entries) /\ Cardinality(Entries) \in Nat /\ Cardinality(Entries') \in Nat
  BY <1>1, FS_Subset, FS_CardinalityType
<1> QED
  BY <1>2, ResolverAssumption DEF CacheBounded

LEMMA StoreBounded ==
    ASSUME RInv, CacheBounded, NEW t \in Tasks, Store(t)
    PROVE  CacheBounded'
<1> DEFINE kept == IF Cardinality(Entries) >= MaxEntries THEN [h \in Hosts |-> NoEntry] ELSE cache
           K == {h \in Hosts : kept[h] # NoEntry}
           h0 == host[t]
<1>1. MaxEntries \in Nat \ {0} /\ IsFiniteSet(Entries) /\ Cardinality(Entries) \in Nat
  <2>1. Entries \subseteq Hosts
    BY DEF Entries
  <2> QED
    BY <2>1, ResolverAssumption, FS_Subset, FS_CardinalityType
<1>2. IsFiniteSet(K) /\ Cardinality(K) \in Nat /\ Cardinality(K) + 1 <= MaxEntries
  <2>1. CASE Cardinality(Entries) >= MaxEntries
    <3>1. K = {}
      BY <2>1
    <3>2. IsFiniteSet({}) /\ Cardinality({}) = 0
      BY FS_EmptySet
    <3> HIDE DEF K
    <3> QED
      BY <1>1, <3>1, <3>2
  <2>2. CASE ~(Cardinality(Entries) >= MaxEntries)
    <3>1. K = Entries
      BY <2>2 DEF Entries
    <3> HIDE DEF K
    <3> QED
      BY <1>1, <2>2, <3>1
  <2> QED
    BY <2>1, <2>2
<1>3. Entries' \subseteq K \cup {h0}
  <2>1. PICK e : cache' = [kept EXCEPT ![h0] = e]
    BY DEF Store
  <2>2. kept \in [Hosts -> Entry]
    BY DEF RInv, RTypes, Entry, NoEntry
  <2> HIDE DEF kept
  <2>3. \A h \in Hosts : h # h0 => cache'[h] = kept[h]
    BY <2>1, <2>2
  <2> QED
    BY <2>3 DEF Entries
<1> HIDE DEF K, kept, h0
<1>4. /\ IsFiniteSet(K \cup {h0}) /\ Cardinality(K \cup {h0}) \in Nat
      /\ Cardinality(K \cup {h0}) <= Cardinality(K) + 1
  BY <1>2, OneMore
<1>5. Cardinality(Entries') <= Cardinality(K \cup {h0}) /\ Cardinality(Entries') \in Nat
  BY <1>3, <1>4, FS_Subset, FS_CardinalityType
<1> QED
  BY <1>1, <1>2, <1>4, <1>5 DEF CacheBounded

(* However many tasks have missed and store at once, for any size of the cache and any number
   of names: no more than MAX_CACHE_ENTRIES are kept. *)
THEOREM Spacious == ResolverSpec => []CacheBounded
<1>1. ResolverInit => CacheBounded
  <2> SUFFICES ASSUME ResolverInit PROVE CacheBounded
    OBVIOUS
  <2>1. Entries = {}
    BY DEF ResolverInit, Entries
  <2>2. Cardinality({}) = 0 /\ 0 <= MaxEntries
    BY FS_EmptySet, ResolverAssumption
  <2> QED
    BY <2>1, <2>2, Zenon DEF CacheBounded
<1>2. RInv /\ CacheBounded /\ [ResolverNext]_resolverVars => CacheBounded'
  <2> SUFFICES ASSUME RInv, CacheBounded, [ResolverNext]_resolverVars PROVE CacheBounded'
    OBVIOUS
  <2>1. CASE UNCHANGED cache
    <3>1. Entries' \subseteq Entries
      BY <2>1 DEF Entries
    <3> QED
      BY <3>1, FewerEntries
  <2>2. ASSUME NEW t \in Tasks, CacheMiss(t) PROVE CacheBounded'
    <3>1. Entries' \subseteq Entries
      BY <2>2 DEF CacheMiss, Entries, RInv, RTypes
    <3> QED
      BY <3>1, FewerEntries
  <2>3. ASSUME NEW t \in Tasks, Store(t) PROVE CacheBounded'
    BY <2>3, StoreBounded
  <2>4. UNCHANGED cache \/ \E t \in Tasks : CacheMiss(t) \/ Store(t)
    BY DEF ResolverNext, resolverVars, Clock, Resolve, CacheHit, LookedUp, LookupFailed, Reject
  <2> QED
    BY <2>1, <2>2, <2>3, <2>4
<1> QED
  BY <1>1, <1>2, InitRInv, StepRInv, PTL DEF ResolverSpec
-------------------------------------------------------------------------------
(* Certificates. *)

Writing == {"open cert", "write cert", "open key", "write key"}

\* What has been slept and what is left to sleep add up to at least the Retry-After and
\* the backoff; the certificate on disk is the one whose key is about to be written.
Enough == server <= slept + wait /\ Backoff <= slept + wait

AInv ==
    /\ wait \in Nat /\ server \in Nat /\ slept \in Nat /\ attempt \in Nat \ {0}
    /\ crashes \in Nat /\ ioFaults \in Nat
    /\ mpc \in Writing => new \in Ids
    /\ mpc \in {"open key", "write key"} => cert = new
    /\ IF mpc = "backoff" THEN Enough ELSE slept = 0
    /\ FilesMatch

LEMMA InitAInv == Init => AInv
  BY DEF Init, AInv, FilesMatch, Writing

LEMMA LargerIs ==
    ASSUME NEW a \in Int, NEW b \in Int
    PROVE  Larger(a, b) \in {a, b} /\ a <= Larger(a, b) /\ b <= Larger(a, b)
<1>1. CASE a > b
  BY <1>1 DEF Larger
<1>2. CASE ~(a > b)
  BY <1>2 DEF Larger
<1> QED
  BY <1>1, <1>2

LEMMA Counted == \A n \in Nat : n + 1 \in Nat /\ n + 1 # 0
  OBVIOUS

\* Outside of an attempt, the invariant is about types and the two files.
LEMMA Between ==
    ASSUME wait' \in Nat, server' \in Nat, slept' \in Nat, attempt' \in Nat, attempt' # 0,
           crashes' \in Nat, ioFaults' \in Nat,
           mpc' \in {"sleep", "down", "attempt", "backoff"},
           IF mpc' = "backoff" THEN Enough' ELSE slept' = 0,
           crashes' # 0 \/ ioFaults' # 0 \/ cert' = key'
    PROVE  AInv'
<1>1. mpc' \notin Writing /\ mpc' \notin {"open key", "write key"}
  BY DEF Writing
<1>2. FilesMatch'
  BY DEF FilesMatch
<1> QED
  BY <1>1, <1>2 DEF AInv, Writing

LEMMA BackoffNat == attempt \in Nat \ {0} => Backoff \in Nat
  BY DEF Backoff

\* After a failed attempt the manager gives up, or waits for as long as it was told.
LEMMA FailedAttempt ==
    ASSUME AInv, mpc # "backoff", NEW secs \in Nat,
           IF attempt >= MaxAttempts THEN GiveUp /\ UNCHANGED retry ELSE Retry(secs)
    PROVE  /\ wait' \in Nat /\ server' \in Nat /\ slept' \in Nat
           /\ attempt' \in Nat /\ attempt' # 0 /\ started' = started
           /\ mpc' \in {"sleep", "down", "backoff"}
           /\ IF mpc' = "backoff" THEN Enough' ELSE slept' = 0
<1>0. slept = 0 /\ wait \in Nat /\ server \in Nat /\ attempt \in Nat \ {0}
  BY DEF AInv
<1>1. CASE GiveUp /\ UNCHANGED retry
  <2>1. Interval \in Nat
    BY AcmeAssumption
  <2>2. /\ wait' \in Nat /\ mpc' \in {"sleep", "down"} /\ attempt' = 1 /\ started' = started
        /\ server' = server /\ slept' = slept
    BY <1>0, <1>1, <2>1 DEF GiveUp, retry
  <2> QED
    BY <1>0, <2>2
<1>2. CASE Retry(secs)
  <2>1. /\ mpc' = "backoff" /\ wait' = Larger(secs, Backoff) /\ started' = started
        /\ server' = secs /\ attempt' = attempt /\ slept' = 0
    BY <1>0, <1>2 DEF Retry
  <2>2. Backoff \in Nat /\ Backoff' = Backoff
    BY <1>0, <2>1, BackoffNat DEF Backoff
  <2>3. Larger(secs, Backoff) \in Nat /\ secs <= Larger(secs, Backoff) /\ Backoff <= Larger(secs, Backoff)
    <3> HIDE DEF Backoff
    <3> QED
      BY <2>2, LargerIs
  <2>4. Enough'
    <3> HIDE DEF Backoff
    <3>1. server' <= wait' /\ Backoff' <= wait' /\ wait' \in Nat
      BY <2>1, <2>2, <2>3
    <3>2. slept' + wait' = wait'
      BY <2>1, <3>1
    <3> QED
      BY <3>1, <3>2 DEF Enough
  <2> QED
    BY <1>0, <2>1, <2>3, <2>4
<1> QED
  BY <1>1, <1>2

\* Steps that leave the retries alone, and do not enter or leave a backoff.
LEMMA CalmAInv ==
    ASSUME AInv, mpc # "backoff", mpc' # "backoff", UNCHANGED retry,
           wait' \in Nat, attempt' \in Nat, attempt' # 0, UNCHANGED <<crashes, ioFaults>>,
           mpc' \in Writing => new' \in Ids,
           mpc' \in {"open key", "write key"} => cert' = new',
           FilesMatch'
    PROVE  AInv'
  BY DEF AInv, retry

LEMMA StepAInv == AInv /\ [Next]_vars => AInv'
<1> SUFFICES ASSUME AInv, [Next]_vars PROVE AInv'
  OBVIOUS
<1>0. Interval \in Nat
  BY AcmeAssumption
<1>t. wait \in Nat /\ attempt \in Nat /\ attempt # 0 /\ crashes \in Nat /\ ioFaults \in Nat
      /\ server \in Nat /\ slept \in Nat
  BY DEF AInv
<1>1. CASE EnsureCert
  <2>1. wait' \in {Interval, wait} /\ attempt' \in {1, attempt} /\ mpc' \in {"sleep", "attempt"}
    <3>1. CASE has_usable_cert
      BY <1>1, <3>1 DEF EnsureCert, Serve
    <3>2. CASE ~has_usable_cert
      BY <1>1, <3>2 DEF EnsureCert
    <3> QED
      BY <3>1, <3>2
  <2>2. mpc = "startup" /\ UNCHANGED <<cert, key, retry, crashes, ioFaults>>
    BY <1>1 DEF EnsureCert, files, faults
  <2>3. wait' \in Nat /\ attempt' \in Nat /\ attempt' # 0
    BY <1>0, <1>t, <2>1
  <2>4. FilesMatch'
    BY <2>1, <2>2 DEF AInv, FilesMatch
  <2> QED
    BY <2>1, <2>2, <2>3, <2>4, CalmAInv DEF Writing
<1>2. CASE Validated
  <2>1. new' \in Ids
    BY <1>2 DEF Validated
  <2>2. /\ mpc = "attempt" /\ mpc' = "open cert"
        /\ UNCHANGED <<cert, key, attempt, wait, retry, crashes, ioFaults>>
    BY <1>2 DEF Validated, files, faults
  <2>3. FilesMatch'
    BY <2>2 DEF AInv, FilesMatch
  <2> QED
    BY <1>t, <2>1, <2>2, <2>3, CalmAInv
<1>3. CASE AttemptFails
  <2>1. \E secs \in Nat : IF attempt >= MaxAttempts THEN GiveUp /\ UNCHANGED retry ELSE Retry(secs)
    <3>1. CASE attempt >= MaxAttempts
      BY <1>3, <3>1 DEF AttemptFails
    <3>2. CASE ~(attempt >= MaxAttempts)
      <4>1. PICK rsp \in Refusals : Retry(request(rsp))
        BY <1>3, <3>2 DEF AttemptFails
      <4>2. request(rsp) \in Nat
        <5>1. rsp.after \in RetryAfters
          BY Zenon DEF Refusals
        <5>2. rsp.after \in Nat
          BY <5>1, AcmeAssumption
        <5> QED
          BY <5>2 DEF request
      <4> QED
        BY <3>2, <4>1, <4>2
    <3> QED
      BY <3>1, <3>2
  <2>2. mpc = "attempt" /\ UNCHANGED <<cert, key, crashes, ioFaults>>
    BY <1>3 DEF AttemptFails, files
  <2>3. /\ wait' \in Nat /\ server' \in Nat /\ slept' \in Nat /\ attempt' \in Nat /\ attempt' # 0
        /\ mpc' \in {"sleep", "down", "backoff"} /\ IF mpc' = "backoff" THEN Enough' ELSE slept' = 0
    BY <2>1, <2>2, FailedAttempt
  <2>4. crashes' # 0 \/ ioFaults' # 0 \/ cert' = key'
    BY <2>2 DEF AInv, FilesMatch
  <2> QED
    BY <1>t, <2>2, <2>3, <2>4, Between
<1>4. CASE NextAttempt
  <2>1. /\ mpc = "backoff" /\ mpc' = "attempt" /\ attempt' = attempt + 1 /\ server' = 0 /\ slept' = 0
        /\ UNCHANGED <<cert, key, wait, crashes, ioFaults>>
    BY <1>4 DEF NextAttempt, files, faults
  <2>2. crashes' # 0 \/ ioFaults' # 0 \/ cert' = key'
    BY <2>1 DEF AInv, FilesMatch
  <2>3. attempt' \in Nat /\ attempt' # 0
    BY <1>t, <2>1, Counted
  <2> QED
    BY <1>t, <2>1, <2>2, <2>3, Between
<1>5. CASE OpenCert
  <2>1. /\ mpc = "open cert" /\ mpc' = "write cert"
        /\ UNCHANGED <<key, new, attempt, wait, retry, crashes, ioFaults>>
    BY <1>5 DEF OpenCert, faults
  <2> QED
    BY <1>t, <2>1, CalmAInv DEF AInv, FilesMatch, Writing
<1>6. CASE WriteCert
  <2>1. /\ mpc = "write cert" /\ mpc' = "open key" /\ cert' = new
        /\ UNCHANGED <<key, new, attempt, wait, retry, crashes, ioFaults>>
    BY <1>6 DEF WriteCert, faults
  <2> QED
    BY <1>t, <2>1, CalmAInv DEF AInv, FilesMatch, Writing
<1>7. CASE OpenKey
  <2>1. /\ mpc = "open key" /\ mpc' = "write key"
        /\ UNCHANGED <<cert, new, attempt, wait, retry, crashes, ioFaults>>
    BY <1>7 DEF OpenKey, faults
  <2> QED
    BY <1>t, <2>1, CalmAInv DEF AInv, FilesMatch, Writing
<1>8. CASE WriteKey
  <2>1. cert' = cert /\ key' = new /\ cert = new /\ attempt' = 1
    BY <1>8 DEF WriteKey, AInv
  <2>2. mpc = "write key" /\ mpc' = "sleep" /\ wait' = Interval
    BY <1>8 DEF WriteKey, Serve
  <2>3. UNCHANGED <<retry, crashes, ioFaults>>
    BY <1>8 DEF WriteKey, faults
  <2>4. FilesMatch'
    BY <2>1 DEF FilesMatch
  <2>5. wait' \in Nat /\ attempt' \in Nat /\ attempt' # 0
    <3>1. attempt' = 1
      BY <2>1
    <3>2. wait' = Interval
      BY <2>2
    <3> QED
      BY ONLY <1>0, <3>1, <3>2
  <2>6. mpc # "backoff" /\ mpc' \notin Writing \cup {"backoff", "open key", "write key"}
    BY <2>2 DEF Writing
  <2> QED
    BY <2>3, <2>4, <2>5, <2>6, CalmAInv
<1>9. CASE WriteFails
  <2>1. /\ mpc \in Writing /\ ioFaults' = ioFaults + 1 /\ crashes' = crashes
        /\ IF attempt >= MaxAttempts THEN GiveUp /\ UNCHANGED retry ELSE Retry(0)
    BY <1>9 DEF WriteFails, Writing
  <2>2. mpc # "backoff"
    BY <2>1 DEF Writing
  <2>3. /\ wait' \in Nat /\ server' \in Nat /\ slept' \in Nat /\ attempt' \in Nat /\ attempt' # 0
        /\ mpc' \in {"sleep", "down", "backoff"} /\ IF mpc' = "backoff" THEN Enough' ELSE slept' = 0
    BY <2>1, <2>2, FailedAttempt
  <2>4. crashes' \in Nat /\ ioFaults' \in Nat /\ ioFaults' # 0
    BY <1>t, <2>1, Counted
  <2> QED
    BY <2>3, <2>4, Between
<1>10. CASE CheckRenewal
  <2>1. wait' \in Nat /\ attempt' \in Nat /\ attempt' # 0 /\ mpc' \in {"sleep", "attempt"}
    BY <1>0, <1>t, <1>10 DEF CheckRenewal
  <2>2. mpc = "sleep" /\ UNCHANGED <<cert, key, retry, crashes, ioFaults>>
    BY <1>10 DEF CheckRenewal, files, faults
  <2>3. FilesMatch'
    BY <2>2 DEF AInv, FilesMatch
  <2> QED
    BY <2>1, <2>2, <2>3, CalmAInv DEF Writing
<1>11. CASE Tick
  <2>1. /\ wait > 0 /\ wait' = wait - 1 /\ slept' = IF mpc = "backoff" THEN slept + 1 ELSE slept
        /\ UNCHANGED <<cert, key, mpc, new, attempt, server, crashes, ioFaults>>
    BY <1>11 DEF Tick, files, faults
  <2>2. wait' \in Nat /\ slept' \in Nat
    BY <1>t, <2>1
  <2>3. IF mpc' = "backoff" THEN Enough' ELSE slept' = 0
    <3>1. CASE mpc = "backoff"
      <4>1. slept' + wait' = slept + wait
        BY <1>t, <2>1, <3>1
      <4>2. Backoff' = Backoff /\ server' = server
        BY <2>1 DEF Backoff
      <4>3. Enough
        BY <3>1 DEF AInv
      <4> HIDE DEF Backoff
      <4> QED
        BY <2>1, <3>1, <4>1, <4>2, <4>3 DEF Enough
    <3>2. CASE mpc # "backoff"
      BY <2>1, <3>2 DEF AInv
    <3> QED
      BY <3>1, <3>2
  <2>4. FilesMatch'
    BY <2>1 DEF AInv, FilesMatch
  <2> QED
    BY <1>t, <2>1, <2>2, <2>3, <2>4 DEF AInv
<1>12. CASE Age \/ Hup
  <2>1. UNCHANGED <<cert, key, mpc, new, attempt, wait, server, slept, crashes, ioFaults>>
    BY <1>12 DEF Age, Hup, files, faults, retry
  <2> QED
    BY <2>1 DEF AInv, FilesMatch, Writing, Enough, Backoff
<1>13. CASE Crash
  <2>1. /\ crashes' = crashes + 1 /\ mpc' = "down" /\ wait' = 0 /\ attempt' = 1
        /\ server' = 0 /\ slept' = 0 /\ UNCHANGED ioFaults
    BY <1>13 DEF Crash
  <2>2. crashes' \in Nat /\ crashes' # 0
    BY <1>t, <2>1, Counted
  <2> QED
    BY <1>t, <2>1, <2>2, Between
<1>14. CASE Restart
  <2>1. mpc = "down" /\ mpc' = "startup" /\ UNCHANGED <<cert, key, attempt, wait, retry, crashes, ioFaults>>
    BY <1>14 DEF Restart, files, faults
  <2>2. FilesMatch'
    BY <2>1 DEF AInv, FilesMatch
  <2> QED
    BY <1>t, <2>1, <2>2, CalmAInv DEF Writing
<1>15. ASSUME NEW l \in Loops, LoopStep(l) PROVE AInv'
  <2>1. UNCHANGED others
    BY <1>15 DEF LoopStep, TakeReload, ReadCert, ReadKey, others
  <2> QED
    BY <2>1 DEF others, files, faults, retry, AInv, FilesMatch, Writing, Enough, Backoff
<1>16. CASE UNCHANGED vars
  BY <1>16 DEF vars, AInv, FilesMatch, Writing, Enough, Backoff
<1> QED
  BY <1>1, <1>2, <1>3, <1>4, <1>5, <1>6, <1>7, <1>8, <1>9, <1>10, <1>11, <1>12, <1>13, <1>14,
     <1>15, <1>16 DEF Next, ManagerStep, CaAnswers

(* Without a crash or a failed write the two files write_cert writes belong together whenever it
   is not at work, for any number of renewals. *)
THEOREM Paired == Spec => []FilesMatch
<1>1. AInv => FilesMatch
  BY DEF AInv
<1> QED
  BY <1>1, InitAInv, StepAInv, PTL DEF Spec

(* run() gets to the deferred listeners only with a certificate and a key on disk, after whatever
   crashes, failed writes and failed attempts. *)
THEOREM Gated == Spec => ServesOnlyWithCert
<1> DEFINE Gate == (~started /\ started') => (cert' \in Ids /\ key' \in Ids)
<1>1. ASSUME AInv, Next PROVE Gate
  <2> SUFFICES ASSUME ~started, started' PROVE cert' \in Ids /\ key' \in Ids
    OBVIOUS
  <2>1. CASE EnsureCert
    BY <2>1 DEF EnsureCert, has_usable_cert, files
  <2>2. CASE WriteKey
    BY <1>1, <2>2 DEF WriteKey, AInv, Writing
  <2>3. CASE AttemptFails \/ WriteFails
    BY <2>3 DEF AttemptFails, WriteFails, GiveUp, Retry
  <2>4. CASE Validated \/ NextAttempt \/ OpenCert \/ WriteCert \/ OpenKey \/ CheckRenewal
    BY <2>4 DEF Validated, NextAttempt, OpenCert, WriteCert, OpenKey, CheckRenewal
  <2>5. CASE Tick \/ Age \/ Hup \/ Crash \/ Restart
    BY <2>5 DEF Tick, Age, Hup, Crash, Restart
  <2>6. ASSUME NEW l \in Loops, LoopStep(l) PROVE FALSE
    BY <2>6 DEF LoopStep, TakeReload, ReadCert, ReadKey, others
  <2> QED
    BY <1>1, <2>1, <2>2, <2>3, <2>4, <2>5, <2>6 DEF Next, ManagerStep, CaAnswers
<1>2. AInv /\ [Next]_vars => [Gate]_vars
  BY <1>1
<1> QED
  BY <1>2, InitAInv, StepAInv, PTL DEF Spec, ServesOnlyWithCert

(* issue_with_retry never asks the CA again before the Retry-After the client has noted and the
   exponential backoff are both over, whatever the CA sends and whichever step of the attempt
   failed. *)
THEOREM Patient == Spec => RetryWaits
<1> DEFINE Waited == (mpc = "backoff" /\ mpc' = "attempt") => slept >= server /\ slept >= Backoff
<1>1. ASSUME AInv, Next PROVE Waited
  <2> SUFFICES ASSUME mpc = "backoff", mpc' = "attempt" PROVE slept >= server /\ slept >= Backoff
    OBVIOUS
  <2>1. CASE NextAttempt
    <3>1. wait = 0 /\ Enough /\ slept \in Nat /\ server \in Nat /\ Backoff \in Nat
      BY <1>1, <2>1, BackoffNat DEF NextAttempt, AInv
    <3> HIDE DEF Backoff
    <3> QED
      BY <3>1 DEF Enough
  <2>2. CASE EnsureCert \/ Validated \/ AttemptFails \/ OpenCert \/ WriteCert
    BY <2>2 DEF EnsureCert, Validated, AttemptFails, OpenCert, WriteCert
  <2>3. CASE OpenKey \/ WriteKey \/ WriteFails \/ CheckRenewal
    BY <2>3 DEF OpenKey, WriteKey, WriteFails, CheckRenewal
  <2>4. CASE Tick \/ Age \/ Hup \/ Crash \/ Restart
    BY <2>4 DEF Tick, Age, Hup, Crash, Restart
  <2>5. ASSUME NEW l \in Loops, LoopStep(l) PROVE FALSE
    BY <2>5 DEF LoopStep, TakeReload, ReadCert, ReadKey, others
  <2> QED
    BY <1>1, <2>1, <2>2, <2>3, <2>4, <2>5 DEF Next, ManagerStep, CaAnswers
<1>2. AInv /\ [Next]_vars => [Waited]_vars
  BY <1>1
<1> QED
  BY <1>2, InitAInv, StepAInv, PTL DEF Spec, RetryWaits
===============================================================================
