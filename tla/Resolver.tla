------------------------------ MODULE Resolver ------------------------------
(***************************************************************************)
(* One DefaultResolver (resolver.go): a cache that serves an entry until   *)
(* it expires and, for a while longer, stale, refreshing it in the         *)
(* background; lookups of one name share an upstream query (singleflight). *)
(* The data of an answer is the time at which its query was sent.  A hot   *)
(* reload installs another instance, with an empty cache of its own.       *)
(***************************************************************************)
EXTENDS Naturals, FiniteSets

CONSTANTS
    Domains,     \* names looked up; none is an IP literal
    Clients,     \* connection handlers that call LookupIP
    Calls,       \* identities of singleflight calls
    MinTTL,      \* time.Minute
    CacheTTL,    \* cacheTTL, also the TTL of an answer that has none
    StaleTime,   \* 10 minutes
    Outcomes,    \* what one query of one type can end with
    MaxRefresh,  \* bound: background refreshes of a name not yet running
    MaxTime,     \* bound: the clock
    NoCall

\* A query fails (upstream and fallback server), finds no record or finds
\* some, with a smallest TTL.
Fail == [ok |-> FALSE, found |-> FALSE, ttl |-> CacheTTL]
Empty == [ok |-> TRUE, found |-> FALSE, ttl |-> CacheTTL]
Found(t) == [ok |-> TRUE, found |-> TRUE, ttl |-> t]

ASSUME TimeAssumption ==
    /\ MinTTL \in Nat \ {0} /\ CacheTTL \in Nat /\ StaleTime \in Nat
    /\ MinTTL <= CacheTTL /\ MaxTime \in Nat /\ MaxRefresh \in Nat
ASSUME OutcomesAssumption ==
    Outcomes \subseteq {Fail, Empty} \cup {Found(t) : t \in 0 .. CacheTTL + 1}
ASSUME NoCallAssumption == NoCall \notin Calls

\* The upstream timeout and the fallback's add up to less than one unit of
\* time (a minute), so a query sees at most one tick of the clock.
QueryTime == 1

Types == {"A", "AAAA"}

VARIABLES
    now,
    cache,    \* per name a set with its dnsCacheEntry, or {}
    inFlight, \* sfGroup: the call under way for a name, or NoCall
    call,     \* per call [st, dom, asked, res]: "free", "query", "done"
    refresh,  \* background goroutines per name that have yet to call Do
    client,   \* per client [pc, dom, call]: "idle", "miss", "wait"
    answer,   \* the last answer any client got: [ok, age]
    cleaner   \* the names the cleaner found stale and will delete

vars == <<now, cache, inFlight, call, refresh, client, answer, cleaner>>

Free == [st |-> "free"]
Idle == [pc |-> "idle"]
NoAnswer == [ok |-> FALSE, age |-> 0]

Init ==
    /\ now = 0
    /\ cache = [d \in Domains |-> {}]
    /\ inFlight = [d \in Domains |-> NoCall]
    /\ call = [k \in Calls |-> Free]
    /\ refresh = [d \in Domains |-> 0]
    /\ client = [c \in Clients |-> Idle]
    /\ answer = NoAnswer
    /\ cleaner = {}
-----------------------------------------------------------------------------
(* LookupIP *)

Fresh(d) == {e \in cache[d] : now < e.expiresAt}

\* Mutant: a stale entry is served until the cleaner comes along.
StaleForever(d) == cache[d] \ Fresh(d)

Stale(d) == {e \in cache[d] \ Fresh(d) : now < e.staleAt}

Answered(e) == answer' = [ok |-> TRUE, age |-> now - e.asked]

\* AdBlock refuses the name.
LookupBlocked(c) ==
    /\ client[c].pc = "idle"
    /\ answer' = NoAnswer
    /\ UNCHANGED <<now, cache, inFlight, call, refresh, client, cleaner>>

LookupFresh(c, d) ==
    /\ client[c].pc = "idle"
    /\ \E e \in Fresh(d) : Answered(e)
    /\ UNCHANGED <<now, cache, inFlight, call, refresh, client, cleaner>>

\* The caller gets the stale answer, a new goroutine looks the name up.
LookupStale(c, d) ==
    /\ client[c].pc = "idle"
    /\ refresh[d] < MaxRefresh
    /\ \E e \in Stale(d) : Answered(e)
    /\ refresh' = [refresh EXCEPT ![d] = @ + 1]
    /\ UNCHANGED <<now, cache, inFlight, call, client, cleaner>>

LookupMiss(c, d) ==
    /\ client[c].pc = "idle"
    /\ Fresh(d) = {} /\ Stale(d) = {}
    /\ client' = [client EXCEPT ![c] = [pc |-> "miss", dom |-> d]]
    /\ UNCHANGED <<now, cache, inFlight, call, refresh, answer, cleaner>>
-----------------------------------------------------------------------------
(* singleflightLookup *)

NewCall(d, k) ==
    /\ call[k] = Free
    /\ call' = [call EXCEPT ![k] = [st |-> "query", dom |-> d, asked |-> now,
                                    res |-> [t \in {} |-> Fail]]]

\* External: sfGroup.Do joins the call under way for the name or starts one.
Do(d, k) ==
    \/ /\ inFlight[d] = k
       /\ UNCHANGED <<inFlight, call>>
    \/ /\ inFlight[d] = NoCall
       /\ NewCall(d, k)
       /\ inFlight' = [inFlight EXCEPT ![d] = k]

Join(c, k) ==
    /\ client[c].pc = "miss"
    /\ Do(client[c].dom, k)
    /\ client' = [client EXCEPT ![c] = [pc |-> "wait", call |-> k]]
    /\ UNCHANGED <<now, cache, refresh, answer, cleaner>>

\* Mutant: the background goroutine queries without singleflight.
RefreshAlone(d, k) ==
    /\ refresh[d] > 0
    /\ NewCall(d, k)
    /\ refresh' = [refresh EXCEPT ![d] = @ - 1]
    /\ UNCHANGED <<now, cache, inFlight, client, answer, cleaner>>

\* Mutant: the background goroutine gives up if no query is under way.
RefreshShy(d, k) ==
    /\ refresh[d] > 0
    /\ inFlight[d] \in {k, NoCall}
    /\ refresh' = [refresh EXCEPT ![d] = @ - 1]
    /\ UNCHANGED <<now, cache, inFlight, call, client, answer, cleaner>>

\* The background goroutine calls Do and drops the result.
Refresh(d, k) ==
    /\ refresh[d] > 0
    /\ Do(d, k)
    /\ refresh' = [refresh EXCEPT ![d] = @ - 1]
    /\ UNCHANGED <<now, cache, client, answer, cleaner>>
-----------------------------------------------------------------------------
(* rawQueryDNS *)

\* A TTL of 0, or one above the default, counts as the default.
QueryTTL(t) == IF t > 0 /\ t < CacheTTL THEN t ELSE CacheTTL

\* Either query ends, in any order.
QueryDNS(k, t, r) ==
    /\ call[k].st = "query"
    /\ t \notin DOMAIN call[k].res
    /\ call' = [call EXCEPT ![k].res =
                   [u \in DOMAIN @ \cup {t} |-> IF u = t THEN [r EXCEPT !.ttl = QueryTTL(@)]
                                                ELSE @[u]]]
    /\ UNCHANGED <<now, cache, inFlight, refresh, client, answer, cleaner>>

\* The smaller TTL, at least MinTTL and at most CacheTTL.
EntryTTL(res) ==
    LET t == IF res["AAAA"].found /\ res["AAAA"].ttl < res["A"].ttl
             THEN res["AAAA"].ttl ELSE res["A"].ttl
    IN  IF t < MinTTL THEN MinTTL ELSE IF t > CacheTTL THEN CacheTTL ELSE t

\* Mutant: the stale period begins when the entry is stored.
EntryStaleEarly(k) ==
    [asked |-> call[k].asked, expiresAt |-> now + EntryTTL(call[k].res),
     staleAt |-> now + StaleTime]

Entry(k) ==
    LET ttl == EntryTTL(call[k].res)
    IN  [asked |-> call[k].asked, expiresAt |-> now + ttl,
         staleAt |-> now + ttl + StaleTime]

AnyFound(k) == \E t \in Types : call[k].res[t].found

\* Mutant: nothing comes back when neither query finds an address.
StoreOnlyFound(k) ==
    /\ call[k].st = "query" /\ DOMAIN call[k].res = Types
    /\ AnyFound(k)
    /\ cache' = [cache EXCEPT ![call[k].dom] = {Entry(k)}]
    /\ call' = [call EXCEPT ![k].st = "done"]
    /\ UNCHANGED <<now, inFlight, refresh, client, answer, cleaner>>

\* Both queries have ended: without an address the call fails and the cache
\* keeps what it has, otherwise the entry is replaced.
Store(k) ==
    /\ call[k].st = "query" /\ DOMAIN call[k].res = Types
    /\ cache' = IF AnyFound(k) THEN [cache EXCEPT ![call[k].dom] = {Entry(k)}] ELSE cache
    /\ call' = [call EXCEPT ![k].st = "done"]
    /\ UNCHANGED <<now, inFlight, refresh, client, answer, cleaner>>

Waiting(k) == {c \in Clients : client[c].pc = "wait" /\ client[c].call = k}

\* External: singleflight forgets the call and wakes all who wait for it.
EndCall(k) ==
    /\ call[k].st = "done"
    /\ inFlight' = [d \in Domains |-> IF inFlight[d] = k THEN NoCall ELSE inFlight[d]]
    /\ answer' = IF Waiting(k) = {} THEN answer
                 ELSE IF AnyFound(k) THEN [ok |-> TRUE, age |-> now - call[k].asked]
                 ELSE NoAnswer
    /\ client' = [c \in Clients |-> IF c \in Waiting(k) THEN Idle ELSE client[c]]
    /\ call' = [call EXCEPT ![k] = Free]
    /\ UNCHANGED <<now, cache, refresh, cleaner>>
-----------------------------------------------------------------------------
(* Upkeep *)

\* startCacheCleaner looks at an entry and then deletes by name: what was
\* stored in between goes too.
CleanerFinds(d) ==
    /\ \E e \in cache[d] : now > e.staleAt
    /\ cleaner' = cleaner \cup {d}
    /\ UNCHANGED <<now, cache, inFlight, call, refresh, client, answer>>

CleanerDeletes(d) ==
    /\ d \in cleaner
    /\ cache' = [cache EXCEPT ![d] = {}]
    /\ cleaner' = cleaner \ {d}
    /\ UNCHANGED <<now, inFlight, call, refresh, client, answer>>

\* From the WebUI; it does not touch the calls under way.
ClearCache ==
    /\ cache' = [d \in Domains |-> {}]
    /\ UNCHANGED <<now, inFlight, call, refresh, client, answer, cleaner>>

\* Queries end within their timeouts, what follows takes no time.
Tick ==
    /\ now < MaxTime
    /\ \A k \in Calls : /\ call[k].st # "done"
                        /\ call[k].st = "query" => now - call[k].asked < QueryTime
    /\ now' = now + 1
    /\ UNCHANGED <<cache, inFlight, call, refresh, client, answer, cleaner>>

CallStep(k) == (\E t \in Types, r \in Outcomes : QueryDNS(k, t, r)) \/ Store(k) \/ EndCall(k)

Next ==
    \/ \E c \in Clients :
          \/ LookupBlocked(c)
          \/ \E d \in Domains : LookupFresh(c, d) \/ LookupStale(c, d) \/ LookupMiss(c, d)
          \/ \E k \in Calls : Join(c, k)
    \/ \E d \in Domains :
          \/ \E k \in Calls : Refresh(d, k)
          \/ CleanerFinds(d) \/ CleanerDeletes(d)
    \/ \E k \in Calls : CallStep(k)
    \/ ClearCache \/ Tick

Spec == Init /\ [][Next]_vars
-----------------------------------------------------------------------------
(* Properties *)

\* Every variable keeps its type; in particular an entry expires after it
\* was asked for and goes stale no earlier than it expires.
TypeOK ==
    /\ now \in 0 .. MaxTime
    /\ \A d \in Domains :
          /\ cache[d] \subseteq [asked : Nat, expiresAt : Nat, staleAt : Nat]
          /\ Cardinality(cache[d]) <= 1
          /\ \A e \in cache[d] : e.asked < e.expiresAt /\ e.expiresAt <= e.staleAt
    /\ inFlight \in [Domains -> Calls \cup {NoCall}]
    /\ \A k \in Calls : call[k] = Free \/ call[k].dom \in Domains
    /\ refresh \in [Domains -> 0 .. MaxRefresh]
    /\ \A c \in Clients : client[c].pc \in {"idle", "miss", "wait"}
    /\ answer \in [ok : BOOLEAN, age : Nat]
    /\ cleaner \subseteq Domains

\* "Single-Flight Deduplication": however callers, background refreshes, the
\* cleaner and the WebUI interleave, at most one query per name is under
\* way, and every caller that waits does so on a call that will end.
SingleFlight ==
    /\ \A k, l \in Calls :
          k # l /\ call[k] # Free /\ call[l] # Free => call[k].dom # call[l].dom
    /\ \A c \in Clients : client[c].pc = "wait" => call[client[c].call] # Free

\* No answer is older than the longest TTL, the stale period and one query,
\* wherever it came from: the cache, stale, or a query joined late.
AnswersBounded == answer.ok => answer.age <= CacheTTL + StaleTime + QueryTime

\* An entry is never replaced by an older answer: a slow query cannot
\* overwrite the result of a later one (Store).
CacheMonotone ==
    [][\A d \in Domains : \A e \in cache[d], f \in cache'[d] : f.asked >= e.asked]_vars

\* Every lookup returns, with an answer or an error.
LookupReturns == \A c \in Clients : (client[c].pc # "idle") ~> (client[c].pc = "idle")

\* "asynchronously revalidating": a stale hit is followed by a fresh entry or
\* by a query that found no address, even if the cache is cleared or cleaned
\* meanwhile and although the result of the refresh is dropped.
StaleRevalidated ==
    \A d \in Domains :
        (refresh[d] > 0 /\ Stale(d) # {})
            ~> \/ Fresh(d) # {}
               \/ \E k \in Calls : call[k] # Free /\ call[k].dom = d
                                    /\ call[k].st = "done" /\ ~AnyFound(k)
=============================================================================
