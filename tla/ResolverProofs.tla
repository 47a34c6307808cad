--------------------------- MODULE ResolverProofs ---------------------------
(***************************************************************************)
(* SingleFlight, AnswersBounded and CacheMonotone for every number of      *)
(* names, callers and calls and for every TTL.  An entry of the cache says *)
(* nothing of the call that is about to replace it: the invariant relates  *)
(* the table of singleflight to the calls, the times of an entry to the    *)
(* time its query was sent, and an entry to the call under way.            *)
(***************************************************************************)
EXTENDS Resolver, FiniteSetTheorems, TLAPS

Results == [ok : BOOLEAN, found : BOOLEAN, ttl : Nat]
Entries == [asked : Nat, expiresAt : Nat, staleAt : Nat]
Started == [st : {"query", "done"}, dom : Domains, asked : Nat,
            res : UNION {[T -> Results] : T \in SUBSET Types}]
Missed == [pc : {"miss"}, dom : Domains]
Waits == [pc : {"wait"}, call : Calls]

\* The types of all variables, those of the records included.
Typed ==
    /\ now \in 0 .. MaxTime
    /\ cache \in [Domains -> SUBSET Entries]
    /\ inFlight \in [Domains -> Calls \cup {NoCall}]
    /\ call \in [Calls -> {Free} \cup Started]
    /\ refresh \in [Domains -> 0 .. MaxRefresh]
    /\ client \in [Clients -> {Idle} \cup Missed \cup Waits]
    /\ answer \in [ok : BOOLEAN, age : Nat]
    /\ cleaner \subseteq Domains

\* The table of singleflight has the calls under way, each under its own
\* name, and whoever waits does so for one of them.
Flights ==
    /\ \A k \in Calls : call[k] # Free => inFlight[call[k].dom] = k
    /\ \A d \in Domains : inFlight[d] # NoCall =>
          call[inFlight[d]] # Free /\ call[inFlight[d]].dom = d
    /\ \A c \in Clients : client[c].pc = "wait" => call[client[c].call] # Free

\* A query takes no longer than QueryTime.
CallTimes ==
    \A k \in Calls :
        call[k] # Free => call[k].asked <= now /\ now <= call[k].asked + QueryTime

\* An entry was asked for, expires, is stale and is useless, in this order
\* and within the limits of the TTLs.
EntryTimes ==
    \A d \in Domains : \A e \in cache[d] :
        /\ e.asked <= now
        /\ e.asked < e.expiresAt
        /\ e.expiresAt <= e.staleAt
        /\ e.staleAt <= e.asked + QueryTime + CacheTTL + StaleTime

\* A name has at most one entry.
OneEntry == \A d \in Domains : \A e, f \in cache[d] : e = f

\* The entry of a name is no younger than the call under way for it.
EntryBeforeCall ==
    \A k \in Calls :
        call[k] # Free => \A e \in cache[call[k].dom] : e.asked <= call[k].asked

IInv ==
    /\ Typed /\ Flights /\ CallTimes /\ EntryTimes /\ OneEntry /\ EntryBeforeCall
    /\ AnswersBounded

\* What the invariant says of a call: it is free or has all the fields.
LEMMA CallFields ==
    ASSUME Typed, NEW k \in Calls
    PROVE  /\ (call[k] = Free) <=> (call[k].st = "free")
           /\ call[k].st # "free" => call[k] \in Started
BY DEF Typed, Free, Started

\* Two calls under way are for different names: the first part of SingleFlight.
LEMMA OneCallPerName ==
    ASSUME Typed, Flights, NEW k \in Calls, NEW l \in Calls,
           k # l, call[k] # Free, call[l] # Free
    PROVE  call[k].dom # call[l].dom
BY DEF Flights

\* The TTL of an entry is at least MinTTL and at most CacheTTL.
LEMMA EntryTTLBounds ==
    ASSUME NEW res, res \in [Types -> Results]
    PROVE  EntryTTL(res) \in Nat /\ MinTTL <= EntryTTL(res) /\ EntryTTL(res) <= CacheTTL
<1>1. res["A"].ttl \in Nat /\ res["AAAA"].ttl \in Nat
  BY DEF Types, Results
<1> QED
  BY <1>1, TimeAssumption DEF EntryTTL

\* The entry a call stores carries the time of the call and keeps the limits.
LEMMA EntryOK ==
    ASSUME Typed, CallTimes, NEW k \in Calls,
           call[k].st = "query", DOMAIN call[k].res = Types
    PROVE  /\ Entry(k) \in Entries
           /\ Entry(k).asked = call[k].asked
           /\ Entry(k).asked < Entry(k).expiresAt
           /\ Entry(k).expiresAt <= Entry(k).staleAt
           /\ Entry(k).staleAt <= Entry(k).asked + QueryTime + CacheTTL + StaleTime
<1>1. call[k] \in Started /\ call[k] # Free
  BY CallFields
<1>2. call[k].res \in [Types -> Results]
  BY <1>1 DEF Started
<1> DEFINE ttl == EntryTTL(call[k].res)
<1>3. ttl \in Nat /\ MinTTL <= ttl /\ ttl <= CacheTTL
  BY <1>2, EntryTTLBounds
<1>4. call[k].asked \in Nat /\ now \in Nat
  BY <1>1 DEF Started, Typed
<1>5. call[k].asked <= now /\ now <= call[k].asked + 1
  BY <1>1 DEF CallTimes, QueryTime
<1>6. Entry(k) = [asked |-> call[k].asked, expiresAt |-> now + ttl,
                  staleAt |-> now + ttl + StaleTime]
  BY DEF Entry
<1> HIDE DEF ttl
<1> QED
  BY <1>3, <1>4, <1>5, <1>6, TimeAssumption DEF Entries, QueryTime

\* The record of a new call.
LEMMA StartedRecord ==
    ASSUME NEW d \in Domains, NEW t \in Nat,
           NEW r, r \in UNION {[T -> Results] : T \in SUBSET Types}
    PROVE  [st |-> "query", dom |-> d, asked |-> t, res |-> r] \in Started
BY DEF Started

\* Do, of a caller or of a background refresh: the call it returns is under
\* way, no call is lost, and what the invariant says of calls is kept.
LEMMA DoOK ==
    ASSUME IInv, NEW d \in Domains, NEW k \in Calls, Do(d, k), UNCHANGED <<now, cache>>
    PROVE  /\ inFlight' \in [Domains -> Calls \cup {NoCall}]
           /\ call' \in [Calls -> {Free} \cup Started]
           /\ call'[k] # Free
           /\ \A j \in Calls : call[j] # Free => call'[j] = call[j]
           /\ \A j \in Calls : call'[j] # Free => inFlight'[call'[j].dom] = j
           /\ \A e \in Domains : inFlight'[e] # NoCall =>
                 call'[inFlight'[e]] # Free /\ call'[inFlight'[e]].dom = e
           /\ CallTimes' /\ EntryBeforeCall'
<1> USE DEF IInv
<1>1. CASE inFlight[d] = k /\ UNCHANGED <<inFlight, call>>
  BY <1>1, NoCallAssumption DEF Typed, Flights, CallTimes, EntryBeforeCall
<1>2. CASE inFlight[d] = NoCall /\ NewCall(d, k) /\ inFlight' = [inFlight EXCEPT ![d] = k]
  <2> DEFINE new == [st |-> "query", dom |-> d, asked |-> now, res |-> [t \in {} |-> Fail]]
  <2>1. [t \in {} |-> Fail] \in UNION {[T -> Results] : T \in SUBSET Types}
    <3>1. Fail \in Results
      BY TimeAssumption DEF Fail, Results
    <3>2. [t \in {} |-> Fail] \in [{} -> Results]
      BY <3>1
    <3> QED
      BY <3>2
  <2>2. new \in Started /\ new # Free /\ new.dom = d /\ new.asked = now
    <3>1. new \in Started
      <4>1. now \in Nat
        BY DEF Typed
      <4> QED
        BY <4>1, <2>1, StartedRecord
    <3>2. new.st # Free.st
      BY DEF Free
    <3> QED
      BY <3>1, <3>2
  <2>3. call[k] = Free /\ call' = [call EXCEPT ![k] = new]
    BY <1>2 DEF NewCall
  <2> HIDE DEF new
  <2>4. call' \in [Calls -> {Free} \cup Started] /\ call'[k] = new
    BY <2>2, <2>3 DEF Typed
  <2>5. \A j \in Calls : j # k => call'[j] = call[j]
    BY <2>3 DEF Typed
  <2>6. inFlight' \in [Domains -> Calls \cup {NoCall}] /\ inFlight'[d] = k
    BY <1>2 DEF Typed
  <2>7. \A e \in Domains : e # d => inFlight'[e] = inFlight[e]
    BY <1>2 DEF Typed
  <2>8. \A j \in Calls : call[j] # Free => call[j].dom \in Domains \ {d}
    BY <1>2, NoCallAssumption DEF Typed, Flights, Started
  <2>9. \A j \in Calls : call'[j] # Free => inFlight'[call'[j].dom] = j
    BY <2>2, <2>4, <2>5, <2>6, <2>7, <2>8 DEF Flights
  <2>10. \A e \in Domains : inFlight'[e] # NoCall =>
            call'[inFlight'[e]] # Free /\ call'[inFlight'[e]].dom = e
    <3> SUFFICES ASSUME NEW e \in Domains, inFlight'[e] # NoCall
                 PROVE  call'[inFlight'[e]] # Free /\ call'[inFlight'[e]].dom = e
      OBVIOUS
    <3>1. CASE e = d
      BY <3>1, <2>2, <2>4, <2>6
    <3>2. CASE e # d
      <4>1. inFlight'[e] = inFlight[e] /\ inFlight[e] \in Calls
        BY <3>2, <2>7 DEF Typed
      <4>2. call[inFlight[e]] # Free /\ call[inFlight[e]].dom = e
        BY <4>1 DEF Flights
      <4>3. inFlight[e] # k
        BY <4>2, <2>3
      <4> QED
        BY <4>1, <4>2, <4>3, <2>5
    <3> QED
      BY <3>1, <3>2
  <2>11. CallTimes'
    BY <2>2, <2>4, <2>5 DEF Typed, CallTimes, QueryTime
  <2>12. EntryBeforeCall'
    BY <2>2, <2>4, <2>5 DEF EntryBeforeCall, EntryTimes
  <2> QED
    BY <2>2, <2>3, <2>4, <2>5, <2>6, <2>9, <2>10, <2>11, <2>12
<1> QED
  BY <1>1, <1>2 DEF Do

\* A hit, fresh or stale, is no older than AnswersBounded allows.
LEMMA HitBounded ==
    ASSUME IInv, NEW d \in Domains, NEW e \in cache[d], now < e.staleAt, Answered(e)
    PROVE  answer' \in [ok : BOOLEAN, age : Nat] /\ AnswersBounded'
<1>1. e.asked \in Nat /\ e.staleAt \in Nat /\ now \in Nat
  BY DEF IInv, Typed, Entries
<1>2. e.asked <= now /\ e.staleAt <= e.asked + QueryTime + CacheTTL + StaleTime
  BY DEF IInv, EntryTimes
<1>3. answer' = [ok |-> TRUE, age |-> now - e.asked]
  BY DEF Answered
<1>4. now - e.asked \in Nat /\ now - e.asked <= CacheTTL + StaleTime + QueryTime
  BY <1>1, <1>2, TimeAssumption DEF QueryTime
<1> QED
  BY <1>3, <1>4 DEF AnswersBounded

\* Nor is what a call that ends answers, whether anybody waits for it or not.
LEMMA CallAnswer ==
    ASSUME IInv, NEW k \in Calls, call[k] \in Started, call[k] # Free,
           answer' \in {answer, NoAnswer, [ok |-> TRUE, age |-> now - call[k].asked]}
    PROVE  answer' \in [ok : BOOLEAN, age : Nat] /\ AnswersBounded'
<1> USE DEF IInv
<1>1. now - call[k].asked \in Nat /\ now - call[k].asked <= QueryTime
  BY DEF CallTimes, QueryTime, Started, Typed
<1>2. now - call[k].asked <= CacheTTL + StaleTime + QueryTime
  BY <1>1, TimeAssumption DEF QueryTime
<1>3. CASE UNCHANGED answer
  BY <1>3 DEF Typed, AnswersBounded
<1>4. CASE answer' = NoAnswer
  BY <1>4 DEF NoAnswer, AnswersBounded
<1>5. CASE answer' = [ok |-> TRUE, age |-> now - call[k].asked]
  BY <1>1, <1>2, <1>5 DEF AnswersBounded
<1> QED
  BY <1>3, <1>4, <1>5

\* Initially nothing is cached and no call is under way.
LEMMA InitIInv == Init => IInv
BY TimeAssumption DEF Init, IInv, Typed, Flights, CallTimes, EntryTimes, OneEntry,
   EntryBeforeCall, AnswersBounded, NoAnswer, Idle

\* A step that leaves the clock, the cache and the calls alone.
LEMMA CallsKept ==
    ASSUME IInv, UNCHANGED <<now, cache, inFlight, call>>
    PROVE  CallTimes' /\ EntryTimes' /\ OneEntry' /\ EntryBeforeCall'
BY DEF IInv, CallTimes, EntryTimes, OneEntry, EntryBeforeCall

\* What the invariant says of a call depends on its name and its time alone.
LEMMA CallsSame ==
    ASSUME IInv, UNCHANGED <<now, cache, inFlight, refresh, client, answer, cleaner>>,
           call' \in [Calls -> {Free} \cup Started],
           \A j \in Calls : /\ (call'[j] = Free) <=> (call[j] = Free)
                            /\ call[j] # Free => /\ call'[j].dom = call[j].dom
                                                 /\ call'[j].asked = call[j].asked
    PROVE  IInv'
<1> USE DEF IInv
<1>1. Typed'
  BY DEF Typed
<1>2. Flights'
  BY NoCallAssumption DEF Typed, Flights, Idle, Missed, Waits
<1>3. CallTimes'
  BY DEF CallTimes
<1>4. EntryTimes' /\ OneEntry' /\ AnswersBounded'
  BY DEF EntryTimes, OneEntry, AnswersBounded
<1>5. EntryBeforeCall'
  BY DEF EntryBeforeCall
<1> QED
  BY <1>1, <1>2, <1>3, <1>4, <1>5

\* Deleting entries disturbs nothing that is said of entries.
LEMMA CacheShrinks ==
    ASSUME IInv, UNCHANGED <<now, call>>, \A d \in Domains : cache'[d] \subseteq cache[d]
    PROVE  EntryTimes' /\ OneEntry' /\ EntryBeforeCall'
<1> USE DEF IInv
<1>1. EntryTimes' /\ OneEntry'
  BY DEF EntryTimes, OneEntry
<1>2. EntryBeforeCall'
  BY DEF Typed, Started, EntryBeforeCall
<1> QED
  BY <1>1, <1>2

\* Every step preserves the invariant.
LEMMA NextIInv == IInv /\ [Next]_vars => IInv'
<1> SUFFICES ASSUME IInv, [Next]_vars PROVE IInv'
  OBVIOUS
<1> USE DEF IInv
<1>1. ASSUME NEW c \in Clients, LookupBlocked(c) PROVE IInv'
  BY <1>1, CallsKept DEF LookupBlocked, NoAnswer, Typed, Flights, AnswersBounded
<1>2. ASSUME NEW c \in Clients, NEW d \in Domains, LookupFresh(c, d) PROVE IInv'
  <2> USE <1>2 DEF LookupFresh
  <2>1. PICK e \in Fresh(d) : Answered(e)
    OBVIOUS
  <2>2. e \in cache[d] /\ now < e.staleAt
    <3>1. e \in cache[d] /\ now < e.expiresAt /\ e \in Entries /\ now \in Nat
      BY DEF Fresh, Typed
    <3>2. e.expiresAt <= e.staleAt
      BY <3>1 DEF EntryTimes
    <3> QED
      BY <3>1, <3>2 DEF Entries
  <2>3. answer' \in [ok : BOOLEAN, age : Nat] /\ AnswersBounded'
    BY <2>1, <2>2, HitBounded
  <2> QED
    BY <2>3, CallsKept DEF Typed, Flights
<1>3. ASSUME NEW c \in Clients, NEW d \in Domains, LookupStale(c, d) PROVE IInv'
  <2> USE <1>3 DEF LookupStale
  <2>1. PICK e \in Stale(d) : Answered(e)
    OBVIOUS
  <2>2. e \in cache[d] /\ now < e.staleAt
    BY DEF Stale
  <2>3. answer' \in [ok : BOOLEAN, age : Nat] /\ AnswersBounded'
    BY <2>1, <2>2, HitBounded
  <2>4. refresh' \in [Domains -> 0 .. MaxRefresh]
    BY TimeAssumption DEF Typed
  <2> QED
    BY <2>3, <2>4, CallsKept DEF Typed, Flights
<1>4. ASSUME NEW c \in Clients, NEW d \in Domains, LookupMiss(c, d) PROVE IInv'
  <2> USE <1>4 DEF LookupMiss
  <2>1. Typed'
    BY DEF Typed, Missed
  <2>2. Flights'
    BY DEF Typed, Flights
  <2>3. AnswersBounded'
    BY DEF AnswersBounded
  <2> QED
    BY <2>1, <2>2, <2>3, CallsKept
<1>5. ASSUME NEW c \in Clients, NEW k \in Calls, Join(c, k) PROVE IInv'
  <2> USE <1>5 DEF Join
  <2>1. client[c].dom \in Domains
    BY DEF Typed, Missed, Waits, Idle
  <2>2. client' \in [Clients -> {Idle} \cup Missed \cup Waits]
    BY DEF Typed, Waits
  <2>3. Typed'
    BY <2>1, <2>2, DoOK DEF Typed
  <2>4. \A b \in Clients : client'[b].pc = "wait" => call'[client'[b].call] # Free
    <3> SUFFICES ASSUME NEW b \in Clients, client'[b].pc = "wait"
                 PROVE  call'[client'[b].call] # Free
      OBVIOUS
    <3>1. CASE b = c
      <4>1. client'[b] = [pc |-> "wait", call |-> k]
        BY <3>1 DEF Typed
      <4> QED
        BY <4>1, <2>1, DoOK
    <3>2. CASE b # c
      <4>1. client'[b] = client[b] /\ client[b].pc = "wait"
        BY <3>2 DEF Typed
      <4>2. client[b].call \in Calls /\ call[client[b].call] # Free
        BY <4>1 DEF Typed, Flights, Idle, Missed, Waits
      <4> QED
        BY <4>1, <4>2, <2>1, DoOK
    <3> QED
      BY <3>1, <3>2
  <2>5. Flights'
    BY <2>1, <2>4, DoOK DEF Flights
  <2>6. EntryTimes' /\ OneEntry' /\ AnswersBounded'
    BY DEF EntryTimes, OneEntry, AnswersBounded
  <2> QED
    BY <2>1, <2>3, <2>5, <2>6, DoOK
<1>6. ASSUME NEW d \in Domains, NEW k \in Calls, Refresh(d, k) PROVE IInv'
  <2> USE <1>6 DEF Refresh
  <2>1. refresh' \in [Domains -> 0 .. MaxRefresh]
    BY TimeAssumption DEF Typed
  <2>2. Typed'
    BY <2>1, DoOK DEF Typed
  <2>3. \A b \in Clients : client[b].pc = "wait" => client[b].call \in Calls
    BY DEF Typed, Idle, Missed, Waits
  <2>4. Flights'
    BY <2>3, DoOK DEF Flights
  <2>5. EntryTimes' /\ OneEntry' /\ AnswersBounded'
    BY DEF EntryTimes, OneEntry, AnswersBounded
  <2> QED
    BY <2>2, <2>4, <2>5, DoOK
<1>7. ASSUME NEW k \in Calls, NEW t \in Types, NEW r \in Outcomes, QueryDNS(k, t, r)
      PROVE  IInv'
  <2> USE <1>7 DEF QueryDNS
  <2>1. call[k] \in Started
    BY CallFields
  <2>2. r \in Results /\ [r EXCEPT !.ttl = QueryTTL(@)] \in Results
    <3>1. r \in [ok : BOOLEAN, found : BOOLEAN, ttl : Nat]
      <4>1. r = Fail \/ r = Empty \/ \E u \in 0 .. CacheTTL + 1 : r = Found(u)
        BY OutcomesAssumption
      <4>2. Fail \in Results /\ Empty \in Results
        BY TimeAssumption DEF Fail, Empty, Results
      <4>3. \A u \in 0 .. CacheTTL + 1 : Found(u) \in Results
        BY TimeAssumption DEF Found, Results
      <4> QED
        BY <4>1, <4>2, <4>3 DEF Results
    <3>2. QueryTTL(r.ttl) \in Nat
      BY <3>1, TimeAssumption DEF QueryTTL
    <3> QED
      BY <3>1, <3>2 DEF Results
  <2> DEFINE old == call[k].res
             new == [u \in DOMAIN old \cup {t} |->
                        IF u = t THEN [r EXCEPT !.ttl = QueryTTL(@)] ELSE old[u]]
  <2>3. PICK T \in SUBSET Types : old \in [T -> Results]
    BY <2>1 DEF Started
  <2>4. new \in [T \cup {t} -> Results] /\ T \cup {t} \in SUBSET Types
    BY <2>2, <2>3
  <2>5. new \in UNION {[S -> Results] : S \in SUBSET Types}
    BY <2>4
  <2>6. call' = [call EXCEPT ![k] = [call[k] EXCEPT !.res = new]]
    OBVIOUS
  <2> HIDE DEF new
  <2>7. /\ [call[k] EXCEPT !.res = new] \in Started
        /\ [call[k] EXCEPT !.res = new].st = "query"
        /\ [call[k] EXCEPT !.res = new].dom = call[k].dom
        /\ [call[k] EXCEPT !.res = new].asked = call[k].asked
    BY <2>1, <2>5 DEF Started
  <2>8. /\ call' \in [Calls -> {Free} \cup Started]
        /\ \A j \in Calls : /\ (call'[j] = Free) <=> (call[j] = Free)
                            /\ call[j] # Free => /\ call'[j].dom = call[j].dom
                                                 /\ call'[j].asked = call[j].asked
    BY <2>6, <2>7 DEF Typed, Free
  <2> QED
    BY <2>8, CallsSame DEF QueryDNS
<1>8. ASSUME NEW k \in Calls, Store(k) PROVE IInv'
  <2> USE <1>8 DEF Store
  <2>1. call[k] \in Started /\ call[k] # Free /\ call[k].dom \in Domains
    BY CallFields DEF Started
  <2>2. call' \in [Calls -> {Free} \cup Started]
    BY <2>1 DEF Typed, Started
  <2>3. \A j \in Calls : /\ (call'[j] = Free) <=> (call[j] = Free)
                         /\ call[j] # Free => /\ call'[j].dom = call[j].dom
                                              /\ call'[j].asked = call[j].asked
    BY <2>1 DEF Typed, Free, Started
  <2>4. CASE ~AnyFound(k)
    BY <2>2, <2>3, <2>4, CallsSame
  <2>5. CASE AnyFound(k)
    <3> DEFINE d == call[k].dom
    <3>1. cache' = [cache EXCEPT ![d] = {Entry(k)}]
      BY <2>5
    <3>2. /\ cache'[d] = {Entry(k)}
          /\ \A e \in Domains : e # d => cache'[e] = cache[e]
      BY <3>1, <2>1 DEF Typed
    <3>3. Entry(k) \in Entries
      BY EntryOK
    <3>4. Typed'
      BY <3>1, <3>3, <2>1, <2>2 DEF Typed
    <3>5. Flights'
      BY <2>2, <2>3, NoCallAssumption DEF Typed, Flights, Idle, Missed, Waits
    <3>6. CallTimes'
      BY <2>3 DEF CallTimes
    <3>7. EntryTimes'
      <4>1. Entry(k).asked <= now
        BY EntryOK, <2>1 DEF CallTimes
      <4> QED
        BY <4>1, <3>2, EntryOK DEF EntryTimes
    <3>8. OneEntry'
      BY <3>2 DEF OneEntry
    <3>9. EntryBeforeCall'
      <4> SUFFICES ASSUME NEW j \in Calls, call'[j] # Free,
                          NEW e \in cache'[call'[j].dom]
                   PROVE  e.asked <= call'[j].asked
        BY DEF EntryBeforeCall
      <4>1. call[j] # Free /\ call[j] \in Started /\ call'[j].dom = call[j].dom
            /\ call'[j].asked = call[j].asked
        BY <2>3 DEF Typed
      <4>2. CASE j = k
        BY <4>1, <4>2, <3>2, EntryOK DEF Started
      <4>3. CASE j # k
        <5>1. call[j].dom # d
          BY <4>1, <4>3, <2>1, OneCallPerName
        <5>2. e \in cache[call[j].dom]
          BY <5>1, <4>1, <3>2 DEF Started
        <5> QED
          BY <5>2, <4>1 DEF EntryBeforeCall
      <4> QED
        BY <4>2, <4>3
    <3>10. AnswersBounded'
      BY DEF AnswersBounded
    <3> QED
      BY <3>4, <3>5, <3>6, <3>7, <3>8, <3>9, <3>10
  <2> QED
    BY <2>4, <2>5
<1>9. ASSUME NEW k \in Calls, EndCall(k) PROVE IInv'
  <2> USE <1>9 DEF EndCall
  <2>1. call[k] \in Started /\ call[k] # Free
    BY CallFields
  <2>2. call' \in [Calls -> {Free} \cup Started] /\ call'[k] = Free
        /\ \A j \in Calls : j # k => call'[j] = call[j]
    BY DEF Typed
  <2>3. answer' \in [ok : BOOLEAN, age : Nat] /\ AnswersBounded'
    <3>1. answer' \in {answer, NoAnswer, [ok |-> TRUE, age |-> now - call[k].asked]}
      OBVIOUS
    <3> QED
      BY <3>1, <2>1, CallAnswer
  <2>4. Typed'
    BY <2>2, <2>3 DEF Typed
  <2>5. Flights'
    <3>1. \A j \in Calls : call'[j] # Free => inFlight'[call'[j].dom] = j
      BY <2>2 DEF Typed, Flights, Started
    <3>2. \A d \in Domains : inFlight'[d] # NoCall =>
             call'[inFlight'[d]] # Free /\ call'[inFlight'[d]].dom = d
      BY <2>2 DEF Typed, Flights
    <3>3. \A c \in Clients : client'[c].pc = "wait" => call'[client'[c].call] # Free
      <4> SUFFICES ASSUME NEW c \in Clients, client'[c].pc = "wait"
                   PROVE  call'[client'[c].call] # Free
        OBVIOUS
      <4>1. c \notin Waiting(k) /\ client'[c] = client[c]
        BY DEF Idle
      <4>2. client[c].call \in Calls /\ client[c].call # k
        BY <4>1 DEF Waiting, Typed, Idle, Missed, Waits
      <4> QED
        BY <4>1, <4>2, <2>2 DEF Flights
    <3> QED
      BY <3>1, <3>2, <3>3 DEF Flights
  <2>6. CallTimes'
    BY <2>2 DEF CallTimes
  <2>7. EntryTimes' /\ OneEntry'
    BY DEF EntryTimes, OneEntry
  <2>8. EntryBeforeCall'
    BY <2>2 DEF EntryBeforeCall
  <2> QED
    BY <2>3, <2>4, <2>5, <2>6, <2>7, <2>8
<1>10. ASSUME NEW d \in Domains, CleanerFinds(d) PROVE IInv'
  BY <1>10, CallsKept DEF CleanerFinds, Typed, Flights, AnswersBounded
<1>11. ASSUME NEW d \in Domains, CleanerDeletes(d) PROVE IInv'
  <2> USE <1>11 DEF CleanerDeletes
  <2>1. \A e \in Domains : cache'[e] \subseteq cache[e]
    BY DEF Typed
  <2>2. Typed' /\ Flights' /\ CallTimes' /\ AnswersBounded'
    BY DEF Typed, Flights, CallTimes, AnswersBounded
  <2> QED
    BY <2>1, <2>2, CacheShrinks
<1>12. ASSUME ClearCache PROVE IInv'
  <2> USE <1>12 DEF ClearCache
  <2>1. \A e \in Domains : cache'[e] \subseteq cache[e]
    BY DEF Typed
  <2>2. Typed' /\ Flights' /\ CallTimes' /\ AnswersBounded'
    BY DEF Typed, Flights, CallTimes, AnswersBounded
  <2> QED
    BY <2>1, <2>2, CacheShrinks
<1>13. ASSUME Tick PROVE IInv'
  <2> USE <1>13 DEF Tick
  <2>1. now' \in 0 .. MaxTime /\ now' = now + 1 /\ now \in Nat
    BY TimeAssumption DEF Typed
  <2>2. Typed' /\ Flights' /\ AnswersBounded'
    BY <2>1 DEF Typed, Flights, AnswersBounded
  <2>3. CallTimes'
    <3> SUFFICES ASSUME NEW k \in Calls, call[k] # Free
                 PROVE  call[k].asked <= now + 1 /\ now + 1 <= call[k].asked + QueryTime
      BY <2>1 DEF CallTimes
    <3>1. call[k] \in Started /\ call[k].st = "query"
      BY DEF Typed, Started
    <3>2. now - call[k].asked < QueryTime /\ call[k].asked <= now
      BY <3>1 DEF CallTimes
    <3> QED
      BY <3>1, <3>2, <2>1 DEF Started, QueryTime
  <2>4. EntryTimes'
    <3> SUFFICES ASSUME NEW d \in Domains, NEW e \in cache[d] PROVE e.asked <= now + 1
      BY <2>1 DEF EntryTimes
    <3>1. e.asked <= now /\ e.asked \in Nat
      BY DEF EntryTimes, Typed, Entries
    <3> QED
      BY <3>1, <2>1
  <2>5. OneEntry' /\ EntryBeforeCall'
    BY DEF OneEntry, EntryBeforeCall
  <2> QED
    BY <2>2, <2>3, <2>4, <2>5
<1>14. CASE UNCHANGED vars
  BY <1>14, CallsKept DEF vars, Typed, Flights, AnswersBounded
<1> QED
  BY <1>1, <1>2, <1>3, <1>4, <1>5, <1>6, <1>7, <1>8, <1>9, <1>10, <1>11, <1>12, <1>13,
     <1>14 DEF Next, CallStep

\* The invariant gives the properties the runs check.
LEMMA IInvImplies == IInv => TypeOK /\ SingleFlight /\ AnswersBounded
<1> SUFFICES ASSUME IInv PROVE TypeOK /\ SingleFlight /\ AnswersBounded
  OBVIOUS
<1> USE DEF IInv
<1>1. ASSUME NEW d \in Domains PROVE Cardinality(cache[d]) <= 1
  <2>1. CASE cache[d] = {}
    BY <2>1, FS_EmptySet
  <2>2. CASE cache[d] # {}
    <3>1. PICK e \in cache[d] : TRUE
      BY <2>2
    <3>2. cache[d] = {e}
      BY <3>1 DEF OneEntry
    <3>3. Cardinality({e}) = 1
      BY FS_Singleton
    <3> QED
      BY <3>2, <3>3
  <2> QED
    BY <2>1, <2>2
<1>2. \A d \in Domains :
         /\ cache[d] \subseteq [asked : Nat, expiresAt : Nat, staleAt : Nat]
         /\ \A e \in cache[d] : e.asked < e.expiresAt /\ e.expiresAt <= e.staleAt
  BY DEF Typed, Entries, EntryTimes
<1>3. \A k \in Calls : call[k] = Free \/ call[k].dom \in Domains
  BY DEF Typed, Started
<1>4. \A c \in Clients : client[c].pc \in {"idle", "miss", "wait"}
  BY DEF Typed, Idle, Missed, Waits
<1>5. TypeOK
  BY <1>1, <1>2, <1>3, <1>4 DEF Typed, TypeOK
<1>6. SingleFlight
  BY OneCallPerName DEF Flights, SingleFlight
<1> QED
  BY <1>5, <1>6

\* TypeOK of the resolver: a name has at most one entry, whose times are in
\* order, for every number of callers and every TTL.
THEOREM TypesHold == Spec => []TypeOK
<1>1. IInv => TypeOK
  BY IInvImplies
<1> QED
  BY InitIInv, NextIInv, <1>1, PTL DEF Spec

\* singleflightLookup never has two queries for one name under way, and who
\* waits, waits for a call that exists.
THEOREM OneQueryPerName == Spec => []SingleFlight
<1>1. IInv => SingleFlight
  BY IInvImplies
<1> QED
  BY InitIInv, NextIInv, <1>1, PTL DEF Spec

\* LookupIP never hands out an answer older than cacheTTL, the stale period
\* and one query together, whatever the TTLs of the answers are.
THEOREM AnswerAge == Spec => []AnswersBounded
<1>1. IInv => AnswersBounded
  BY DEF IInv
<1> QED
  BY InitIInv, NextIInv, <1>1, PTL DEF Spec

\* storeCache never replaces an entry by the answer of an older query.
THEOREM CacheNeverOlder == Spec => CacheMonotone
<1> DEFINE Mono == \A d \in Domains : \A e \in cache[d], f \in cache'[d] : f.asked >= e.asked
<1>1. IInv /\ [Next]_vars => [Mono]_vars
  <2> SUFFICES ASSUME IInv, Next PROVE Mono
    OBVIOUS
  <2> USE DEF IInv
  <2>1. CASE UNCHANGED cache
    <3>1. \A d \in Domains : \A e, f \in cache[d] : e = f /\ e.asked \in Nat
      BY DEF OneEntry, Typed, Entries
    <3> QED
      BY <2>1, <3>1
  <2>2. ASSUME NEW k \in Calls, Store(k) PROVE Mono
    <3>1. CASE UNCHANGED cache
      BY <3>1, <2>1
    <3>2. CASE cache' = [cache EXCEPT ![call[k].dom] = {Entry(k)}]
      <4>1. call[k] \in Started /\ call[k] # Free
        BY <2>2, CallFields DEF Store
      <4>2. Entry(k).asked = call[k].asked /\ call[k].asked \in Nat
        BY <2>2, <4>1, EntryOK DEF Store, Started
      <4> SUFFICES ASSUME NEW d \in Domains, NEW e \in cache[d], NEW f \in cache'[d]
                   PROVE  f.asked >= e.asked
        OBVIOUS
      <4>3. e.asked \in Nat
        BY DEF Typed, Entries
      <4>4. CASE d = call[k].dom
        <5>1. f = Entry(k)
          BY <3>2, <4>4 DEF Typed
        <5>2. e.asked <= call[k].asked
          BY <4>1, <4>4 DEF EntryBeforeCall
        <5> QED
          BY <5>1, <5>2, <4>2, <4>3
      <4>5. CASE d # call[k].dom
        <5>1. f = e
          BY <3>2, <4>5 DEF Typed, OneEntry
        <5> QED
          BY <5>1, <4>3
      <4> QED
        BY <4>4, <4>5
    <3> QED
      BY <2>2, <3>1, <3>2 DEF Store
  <2>3. ASSUME NEW d \in Domains, CleanerDeletes(d) PROVE Mono
    <3>1. \A e \in Domains : cache'[e] = cache[e] \/ cache'[e] = {}
      BY <2>3 DEF CleanerDeletes, Typed
    <3>2. \A c \in Domains : \A e, f \in cache[c] : e = f /\ e.asked \in Nat
      BY DEF OneEntry, Typed, Entries
    <3> QED
      BY <3>1, <3>2
  <2>4. CASE ClearCache
    BY <2>4 DEF ClearCache
  <2> QED
    BY <2>1, <2>2, <2>3, <2>4 DEF Next, CallStep, LookupBlocked, LookupFresh, LookupStale,
       LookupMiss, Join, Refresh, CleanerFinds, QueryDNS, EndCall, Tick
<1> QED
  BY InitIInv, NextIInv, <1>1, PTL DEF Spec, CacheMonotone
=============================================================================
