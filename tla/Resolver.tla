------------------------------- MODULE Resolver -------------------------------
(***************************************************************************)
(* PinningResolver (resolver.rs): the cache of vetted DNS answers, shared  *)
(* by the requests that connect to hostname upstreams.  A lookup happens   *)
(* between two critical sections on the cache, so misses race and DNS      *)
(* moves on while an answer is in flight.                                  *)
(***************************************************************************)
EXTENDS Integers, FiniteSets

CONSTANTS Tasks, Hosts,
          Addresses,  \* an answer is a set of addresses
          Allowed,    \* those upstream_filter::ip_allowed lets through
          DnsAnswers, \* what DNS may say of a name
          Ttl,
          MaxEntries, \* MAX_CACHE_ENTRIES
          MaxTime     \* bound on the clock

ASSUME ResolverAssumption ==
    /\ DnsAnswers \subseteq SUBSET Addresses /\ Allowed \subseteq Addresses
    /\ IsFiniteSet(Hosts) /\ Hosts # {} /\ Ttl \in Nat
    /\ MaxEntries \in Nat \ {0} /\ MaxTime \in Nat

VARIABLES
    now,     \* Instant::now()
    cache,   \* per host: addrs (empty: no entry) and expires
    tpc, host, heard,  \* a task, the name it resolves, what it was told
    outcome

resolverVars == <<now, cache, tpc, host, heard, outcome>>

NoEntry == [addrs |-> {}, expires |-> 0]
Entries == {h \in Hosts : cache[h] # NoEntry}

ResolverInit ==
    /\ now = 0
    /\ cache = [h \in Hosts |-> NoEntry]
    /\ tpc = [t \in Tasks |-> "idle"]
    /\ host \in {[t \in Tasks |-> h] : h \in Hosts}
    /\ heard = [t \in Tasks |-> {}]
    /\ outcome = [t \in Tasks |-> "none"]

Clock ==
    /\ now < MaxTime
    /\ now' = now + 1
    /\ UNCHANGED <<cache, tpc, host, heard, outcome>>

\* A task connects to an upstream by name.
Resolve(t, h) ==
    /\ tpc[t] = "idle"
    /\ host' = [host EXCEPT ![t] = h]
    /\ tpc' = [tpc EXCEPT ![t] = "cached"]
    /\ UNCHANGED <<now, cache, heard, outcome>>

Return(t, o, addrs) ==
    /\ outcome' = [outcome EXCEPT ![t] = o]
    /\ heard' = [heard EXCEPT ![t] = addrs]
    /\ tpc' = [tpc EXCEPT ![t] = "idle"]

\* cached(): an entry that has not expired.
CacheHit(t) ==
    LET e == cache[host[t]] IN
    /\ tpc[t] = "cached" /\ e # NoEntry /\ e.expires > now
    /\ Return(t, "ok", e.addrs)
    /\ UNCHANGED <<now, cache, host>>

\* cached(): an expired entry is removed; lookup_host is awaited.
CacheMiss(t) ==
    /\ tpc[t] = "cached" /\ (cache[host[t]] = NoEntry \/ cache[host[t]].expires <= now)
    /\ cache' = [cache EXCEPT ![host[t]] = NoEntry]
    /\ tpc' = [tpc EXCEPT ![t] = "lookup"]
    /\ UNCHANGED <<now, host, heard, outcome>>

\* lookup_host returns: what DNS said at that time, which may change at any time.
LookedUp(t) ==
    /\ tpc[t] = "lookup"
    /\ \E a \in DnsAnswers : heard' = [heard EXCEPT ![t] = a]
    /\ tpc' = [tpc EXCEPT ![t] = "vet"]
    /\ UNCHANGED <<now, cache, host, outcome>>

LookupFailed(t) ==
    /\ tpc[t] = "lookup"
    /\ Return(t, "io_error", {})
    /\ UNCHANGED <<now, cache, host>>

\* No address, or one that is restricted: nothing is cached.
Reject(t) ==
    /\ tpc[t] = "vet" /\ (heard[t] = {} \/ ~(heard[t] \subseteq Allowed))
    /\ Return(t, IF heard[t] = {} THEN "not_found" ELSE "denied", {})
    /\ UNCHANGED <<now, cache, host>>

\* Wrong on purpose: the answer is cached before it is vetted.
StoreUnvetted(t) ==
    LET kept == IF Cardinality(Entries) >= MaxEntries
                THEN [h \in Hosts |-> NoEntry] ELSE cache
    IN
    /\ tpc[t] = "vet" /\ heard[t] # {}
    /\ cache' = [kept EXCEPT ![host[t]] = [addrs |-> heard[t], expires |-> now + Ttl]]
    /\ Return(t, IF heard[t] \subseteq Allowed THEN "ok" ELSE "denied", heard[t])
    /\ UNCHANGED <<now, host>>

\* Wrong on purpose: a full cache is not cleared.
StoreUnbounded(t) ==
    /\ tpc[t] = "vet" /\ heard[t] # {} /\ heard[t] \subseteq Allowed
    /\ cache' = [cache EXCEPT ![host[t]] = [addrs |-> heard[t], expires |-> now + Ttl]]
    /\ Return(t, "ok", heard[t])
    /\ UNCHANGED <<now, host>>

\* store(): a full cache is cleared before the insert.
Store(t) ==
    LET kept == IF Cardinality(Entries) >= MaxEntries
                THEN [h \in Hosts |-> NoEntry] ELSE cache
    IN
    /\ tpc[t] = "vet" /\ heard[t] # {} /\ heard[t] \subseteq Allowed
    /\ cache' = [kept EXCEPT ![host[t]] = [addrs |-> heard[t], expires |-> now + Ttl]]
    /\ Return(t, "ok", heard[t])
    /\ UNCHANGED <<now, host>>

ResolverNext ==
    \/ Clock
    \/ \E t \in Tasks : \/ \E h \in Hosts : Resolve(t, h)
                       \/ CacheHit(t) \/ CacheMiss(t) \/ LookedUp(t) \/ LookupFailed(t)
                       \/ Reject(t) \/ Store(t)

ResolverSpec == ResolverInit /\ [][ResolverNext]_resolverVars
-------------------------------------------------------------------------------
(* Invariants 41 and 42: no address outside the allowed ranges is ever cached or
   handed to a connector, not even next to allowed ones, and not through a
   cache that another task filled. *)
VettedOnly ==
    /\ \A h \in Hosts : cache[h].addrs \subseteq Allowed
    /\ \A t \in Tasks : (tpc[t] = "idle" /\ outcome[t] = "ok")
                          => heard[t] # {} /\ heard[t] \subseteq Allowed

(* The cache never holds more than MAX_CACHE_ENTRIES names, however many tasks have
   missed and are looking names up when it is nearly full: the room is made in the
   critical section of the insert, whatever the lookup has seen. *)
CacheBounded == Cardinality(Entries) <= MaxEntries
===============================================================================
