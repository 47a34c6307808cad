-------------------------- MODULE FakeIPPoolProofs --------------------------
(***************************************************************************)
(* Proofs about the FakeIP pool, for every set of domains, workers and     *)
(* configurations, every hash, shard count, TTL and bound.                 *)
(*                                                                         *)
(* TypeOK is not inductive: GetFakeIPHit writes through a pointer of the   *)
(* host table, cleanExpired reads through one of the IP table and a save   *)
(* through the pointers it has copied, so the type of the heap depends on  *)
(* no table and no local holding a dangling pointer.  IInv adds what each  *)
(* goroutine knows of the record it is about to publish.                   *)
(*                                                                         *)
(* That no allocation takes an address over and that the pool implements   *)
(* the name service needs PickedFree: what a query has picked is free or   *)
(* its own, and no other query has picked it.  It holds while no cursor    *)
(* comes round to an address that another query is inserting.  The last    *)
(* part shows that none does where the prefixes are large enough: an       *)
(* address once held is held until the restart, a cursor passes only held  *)
(* addresses, and the records of a process cannot hold a whole prefix.     *)
(***************************************************************************)
EXTENDS FakeIPNames, FiniteSetTheorems, TLAPS

\* What a query in progress knows: its domain, and of the record it has
\* built, that it is in the heap, belongs to the domain and lists every
\* address still to be inserted.
QueriesOK ==
    \A w \in Workers :
        /\ pc[w] # "idle" => dom[w] \in Domains
        /\ pc[w] \in {"host", "ip"} =>
              /\ rec[w] \in Ptrs
              /\ recs[rec[w]] # None
              /\ recs[rec[w]].domain = dom[w]
              /\ \A i \in 1 .. Len(newIPs[w]) : newIPs[w][i] \in recs[rec[w]].ips

\* The pointers a save has copied are in the heap.
CopiesOK ==
    \A t \in Tasks : \A d \in Domains :
        snap[t][d] # 0 => recs[snap[t][d]] # None

IInv == TypeOK /\ EntriesBacked /\ QueriesOK /\ CopiesOK
-----------------------------------------------------------------------------
(* Facts about the operators *)

\* A configured prefix is a range of addresses that starts at or before its
\* own address and goes on after it.
LEMMA PrefixFacts ==
    ASSUME NEW c \in Configs, NEW i \in 1 .. Len(c.prefixes)
    PROVE  /\ c.prefixes[i].addr \in Addrs
           /\ c.prefixes[i].lo \in Nat
           /\ c.prefixes[i].addr \in Nat
           /\ c.prefixes[i].hi \in Nat
           /\ c.prefixes[i].lo <= c.prefixes[i].addr
           /\ c.prefixes[i].addr < c.prefixes[i].hi
           /\ c.prefixes[i].lo .. c.prefixes[i].hi \subseteq Addrs
<1>1. c.prefixes \in Seq(Prefixes)
  BY ConfigsAssumption
<1>2. c.prefixes[i] \in Prefixes
  BY <1>1
<1>3. /\ c.prefixes[i].lo <= c.prefixes[i].addr
      /\ c.prefixes[i].addr < c.prefixes[i].hi
      /\ c.prefixes[i].lo .. c.prefixes[i].hi \subseteq Addrs
  BY ConfigsAssumption
<1> QED
  BY <1>2, <1>3, AddrsAssumption DEF Prefixes

\* The address probed next lies in the prefix, whatever the cursor was.
LEMMA NextInPrefixInside ==
    ASSUME NEW c \in Configs, NEW i \in 1 .. Len(c.prefixes), NEW cur \in Nat
    PROVE  /\ NextInPrefix(c.prefixes[i], cur) \in Addrs
           /\ InPrefix(c.prefixes[i], NextInPrefix(c.prefixes[i], cur))
<1> DEFINE p == c.prefixes[i]
<1>1. /\ p.lo \in Nat /\ p.addr \in Nat /\ p.hi \in Nat
      /\ p.lo <= p.addr /\ p.addr < p.hi
      /\ p.lo .. p.hi \subseteq Addrs
  BY PrefixFacts
<1>2. NextInPrefix(p, cur) \in p.lo .. p.hi
  BY <1>1 DEF NextInPrefix, InPrefix
<1> QED
  BY <1>1, <1>2 DEF InPrefix

\* A domain's place in the load order is a pointer.
LEMMA OrderedPtrs ==
    ASSUME NEW ord \in LoadOrders, NEW d \in Domains
    PROVE  ord[d] \in Ptrs
<1>1. Cardinality(Domains) \in Nat
  BY DomainsAssumption, FS_CardinalityType
<1> QED
  BY <1>1, DomainsAssumption DEF LoadOrders, Ptrs

\* The first start satisfies the invariant.
LEMMA InitIInv == Init => IInv
<1> SUFFICES ASSUME Init PROVE IInv
  OBVIOUS
<1> USE DEF Init
<1>1. TypeOK
  <2>1. cursors \in [1 .. Len(conf.prefixes) -> Addrs]
    BY PrefixFacts, ConfigsAssumption DEF Starts
  <2>2. /\ snap \in [Tasks -> [Domains -> Ptrs \cup {0}]]
        /\ data \in [Tasks -> PersistState]
    BY DEF NoHosts, NoData, PersistState
  <2>3. bshard \in [Tasks -> Shards]
    BY HashAssumption DEF Shards
  <2>4. newIPs \in [Workers -> Seq(Addrs)]
    OBVIOUS
  <2>5. /\ now \in 0 .. MaxTime
        /\ clNow \in 0 .. MaxTime
    BY TimeAssumption
  <2>6. /\ recs \in [Ptrs -> Record \cup {None}]
        /\ hosts \in [Domains -> Ptrs \cup {0}]
        /\ ips \in [Addrs -> Ptrs \cup {0}]
    BY DEF NoHosts, NoIPs
  <2> QED
    BY <2>1, <2>2, <2>3, <2>4, <2>5, <2>6 DEF TypeOK
<1>2. EntriesBacked
  BY DEF EntriesBacked, NoHosts, NoIPs
<1>3. QueriesOK
  BY DEF QueriesOK
<1>4. CopiesOK
  BY DEF CopiesOK, NoHosts
<1> QED
  BY <1>1, <1>2, <1>3, <1>4 DEF IInv

\* A refresh changes nothing of the heap but expiry times.
LEMMA Refreshed ==
    ASSUME TypeOK, NEW p \in Ptrs, recs[p] # None,
           recs' = [recs EXCEPT ![p].expiresAt = now + TTL]
    PROVE  /\ recs' \in [Ptrs -> Record \cup {None}]
           /\ \A q \in Ptrs : recs[q] # None =>
                 /\ recs'[q] # None
                 /\ recs'[q].domain = recs[q].domain
                 /\ recs'[q].ips = recs[q].ips
<1>1. recs[p] \in Record
  BY DEF TypeOK
<1>2. now + TTL \in Time
  BY TimeAssumption DEF TypeOK, Time
<1>3. [recs[p] EXCEPT !.expiresAt = now + TTL] \in Record
  BY <1>1, <1>2 DEF Record
<1>4. recs' = [recs EXCEPT ![p] = [recs[p] EXCEPT !.expiresAt = now + TTL]]
  OBVIOUS
<1>5. [recs[p] EXCEPT !.expiresAt = now + TTL] # None
  BY <1>3, NoneAssumption
<1>6. recs' \in [Ptrs -> Record \cup {None}]
  BY <1>3, <1>4 DEF TypeOK
<1>7. ASSUME NEW q \in Ptrs, recs[q] # None
      PROVE  /\ recs'[q] # None
             /\ recs'[q].domain = recs[q].domain
             /\ recs'[q].ips = recs[q].ips
  <2>1. CASE q = p
    <3>1. recs'[q] = [recs[p] EXCEPT !.expiresAt = now + TTL]
      BY <1>4, <2>1 DEF TypeOK
    <3> QED
      BY <1>1, <1>5, <2>1, <3>1 DEF Record
  <2>2. CASE q # p
    BY <1>4, <1>7, <2>2 DEF TypeOK
  <2> QED
    BY <2>1, <2>2
<1> QED
  BY <1>6, <1>7

\* The address an allocating worker probes lies in the prefix it is serving.
LEMMA CandidateInside ==
    ASSUME TypeOK, NEW w \in Workers, Allocating(w)
    PROVE  /\ Subnet(w) \in 1 .. Len(conf.prefixes)
           /\ Candidate(w) \in Addrs
           /\ InPrefix(conf.prefixes[Subnet(w)], Candidate(w))
<1>1. newIPs[w] \in Seq(Addrs) /\ Len(newIPs[w]) \in Nat
  BY DEF TypeOK
<1>2. Len(conf.prefixes) \in Nat
  BY ConfigsAssumption DEF TypeOK
<1>3. Subnet(w) \in 1 .. Len(conf.prefixes)
  BY <1>1, <1>2 DEF Allocating, Subnet
<1>4. cursors[Subnet(w)] \in Nat
  BY <1>3, AddrsAssumption DEF TypeOK
<1> QED
  BY <1>3, <1>4, NextInPrefixInside DEF Candidate, TypeOK

\* The places a background task can be at.
TaskPCs == {"idle", "cleanIP", "cleanHost", "cleanEnd", "check", "copy",
            "cursor", "flag", "open", "write", "rename", "clearHost",
            "clearIP", "mark", "closed"}

\* The loop over the shards stays within them.
LEMMA NextShardTyped ==
    ASSUME TypeOK, NEW t \in Tasks, NEW loop \in TaskPCs, NEW after \in TaskPCs,
           NextShard(t, loop, after)
    PROVE  bpc' \in [Tasks -> TaskPCs] /\ bshard' \in [Tasks -> Shards]
<1>1. bpc' \in [Tasks -> TaskPCs]
  BY DEF TypeOK, TaskPCs, NextShard
<1>2. (IF bshard[t] = ShardCount - 1 THEN 0 ELSE bshard[t] + 1) \in Shards
  BY HashAssumption DEF TypeOK, Shards
<1>3. bshard' \in [Tasks -> Shards]
  BY <1>2 DEF TypeOK, NextShard
<1> QED
  BY <1>1, <1>3

\* A save that is not under way holds an empty state.
LEMMA NoDataTyped == NoData \in PersistState
BY DEF NoData, PersistState


\* Every cursor a start sets lies in its prefix.
LEMMA RestoredInside ==
    ASSUME NEW c \in Configs, NEW ord, Restart(c, ord)
    PROVE  /\ cursors' \in [1 .. Len(c.prefixes) -> Addrs]
           /\ \A i \in 1 .. Len(c.prefixes) : InPrefix(c.prefixes[i], cursors'[i])
<1>1. ASSUME NEW i \in 1 .. Len(c.prefixes)
      PROVE  /\ InPrefix(c.prefixes[i], Starts(c)[i])
             /\ InPrefix(c.prefixes[i], RestoredCursors(c, file)[i])
  <2>1. InPrefix(c.prefixes[i], c.prefixes[i].addr)
    BY PrefixFacts DEF InPrefix
  <2> QED
    BY <2>1 DEF Starts, RestoredCursors, RestoredCursor
<1>2. /\ cursors' = [i \in 1 .. Len(c.prefixes) |-> cursors'[i]]
      /\ \A i \in 1 .. Len(c.prefixes) : InPrefix(c.prefixes[i], cursors'[i])
  <2>1. CASE Readable(file)
    BY <1>1, <2>1 DEF Restart, RestoredCursors
  <2>2. CASE ~Readable(file)
    BY <1>1, <2>2 DEF Restart, Starts
  <2> QED
    BY <2>1, <2>2
<1> QED
  BY <1>2, PrefixFacts DEF InPrefix

\* A restored record is in the heap, typed, and belongs to its domain.
LEMMA RestoredRecord ==
    ASSUME TypeOK, NEW c \in Configs, NEW ord \in LoadOrders, NEW d \in Domains,
           Restores(c, file, d)
    PROVE  /\ ord[d] \in Ptrs
           /\ LoadedRecs(c, file, ord)[ord[d]] \in Record
           /\ LoadedRecs(c, file, ord)[ord[d]] # None
           /\ LoadedRecs(c, file, ord)[ord[d]].domain = d
           /\ LoadedRecs(c, file, ord)[ord[d]].ips = ValidIPs(c, file.records[d].ips)
<1> DEFINE r == [domain    |-> d,
                 ips       |-> ValidIPs(c, file.records[d].ips),
                 expiresAt |-> file.records[d].expiresAt]
<1>1. file \in PersistState
  BY DEF TypeOK, Restores, Readable
<1>2. file.records[d] \in SavedRecord
  BY <1>1 DEF Restores, PersistState
<1>3. ord[d] \in Ptrs
  BY OrderedPtrs
<1>4. (CHOOSE e \in Domains : ord[e] = ord[d]) = d
  BY DEF LoadOrders
<1>5. LoadedRecs(c, file, ord)[ord[d]] = r
  BY <1>3, <1>4 DEF LoadedRecs
<1>6. r \in Record
  BY <1>2 DEF ValidIPs, SavedRecord, Record
<1>7. r # None /\ r.domain = d /\ r.ips = ValidIPs(c, file.records[d].ips)
  BY <1>6, NoneAssumption
<1> QED
  BY <1>3, <1>5, <1>6, <1>7

\* A restart re-establishes the invariant from whatever file it reads.
LEMMA RestartIInv ==
    ASSUME IInv, NEW c \in Configs, NEW ord \in LoadOrders, Restart(c, ord)
    PROVE  IInv'
<1> USE DEF IInv, Restart, poolVars, diskVars
<1> DEFINE loaded == LoadedRecs(c, file, ord)
<1>1. ASSUME NEW p \in Ptrs, loaded[p] # None
      PROVE  \E d \in Domains : ord[d] = p /\ Restores(c, file, d)
  BY <1>1 DEF LoadedRecs
<1>2. recs' \in [Ptrs -> Record \cup {None}]
  <2>1. \A p \in Ptrs : loaded[p] \in Record \cup {None}
    BY <1>1, RestoredRecord
  <2> QED
    BY <2>1 DEF LoadedRecs
<1>3. \A a \in Addrs : ips'[a] # 0 =>
         /\ ips'[a] \in Ptrs
         /\ loaded[ips'[a]] # None
         /\ a \in loaded[ips'[a]].ips
  <2> SUFFICES ASSUME NEW a \in Addrs, ips'[a] # 0
               PROVE  /\ ips'[a] \in Ptrs
                      /\ loaded[ips'[a]] # None
                      /\ a \in loaded[ips'[a]].ips
    OBVIOUS
  <2>1. ips'[a] \in LastHolders(loaded, a)
    BY DEF LoadedIPs
  <2> QED
    BY <2>1 DEF LastHolders
<1>4. ips' \in [Addrs -> Ptrs \cup {0}]
  BY <1>3 DEF LoadedIPs
<1>5. hosts' \in [Domains -> Ptrs \cup {0}]
  BY OrderedPtrs DEF LoadedHosts
<1>6. cursors' \in [1 .. Len(c.prefixes) -> Addrs]
  BY RestoredInside
<1>7. TypeOK'
  <2>1. /\ snap' \in [Tasks -> [Domains -> Ptrs \cup {0}]]
        /\ data' \in [Tasks -> PersistState]
    BY NoDataTyped DEF NoHosts
  <2>2. bshard' \in [Tasks -> Shards]
    BY HashAssumption DEF Shards
  <2>3. newIPs' \in [Workers -> Seq(Addrs)]
    OBVIOUS
  <2>4. clNow' \in 0 .. MaxTime /\ now' \in 0 .. MaxTime
    BY TimeAssumption DEF TypeOK
  <2>5. /\ tmp' \in PersistState \cup {None, Empty, Torn}
        /\ file' \in PersistState \cup {None, Empty, Torn}
    BY DEF TypeOK
  <2> QED
    BY <1>2, <1>4, <1>5, <1>6, <2>1, <2>2, <2>3, <2>4, <2>5 DEF TypeOK
<1>8. EntriesBacked'
  <2>1. \A d \in Domains : hosts'[d] # 0 =>
           /\ recs'[hosts'[d]] # None
           /\ recs'[hosts'[d]].domain = d
    <3> SUFFICES ASSUME NEW d \in Domains, hosts'[d] # 0
                 PROVE  recs'[hosts'[d]] # None /\ recs'[hosts'[d]].domain = d
      OBVIOUS
    <3>1. Restores(c, file, d) /\ hosts'[d] = ord[d]
      BY DEF LoadedHosts
    <3>2. recs' = loaded
      OBVIOUS
    <3>3. loaded[ord[d]] # None /\ loaded[ord[d]].domain = d
      BY <3>1, RestoredRecord
    <3> QED
      BY <3>1, <3>2, <3>3
  <2> QED
    BY <1>3, <2>1 DEF EntriesBacked
<1>9. QueriesOK'
  BY DEF QueriesOK
<1>10. CopiesOK'
  BY DEF CopiesOK, NoHosts
<1> QED
  BY <1>7, <1>8, <1>9, <1>10

\* Every step preserves the invariant.
LEMMA NextIInv == IInv /\ [Next]_vars => IInv'
<1> SUFFICES ASSUME IInv, [Next]_vars PROVE IInv'
  OBVIOUS
<1> USE DEF IInv, poolVars, cursorVars, workerVars, saveVars, cleanVars,
            diskVars, taskVars, queryVars
<1>1. ASSUME NEW w \in Workers, NEW d \in Domains, GetFakeIPHit(w, d) PROVE IInv'
  <2> USE <1>1 DEF GetFakeIPHit
  <2>0. /\ hosts[d] \in Ptrs
        /\ recs[hosts[d]] # None
    BY DEF TypeOK, EntriesBacked
  <2>r. /\ recs' \in [Ptrs -> Record \cup {None}]
        /\ \A q \in Ptrs : recs[q] # None =>
              /\ recs'[q] # None
              /\ recs'[q].domain = recs[q].domain
              /\ recs'[q].ips = recs[q].ips
    BY <2>0, Refreshed
  <2>1. TypeOK'
    BY <2>r DEF TypeOK
  <2>2. EntriesBacked'
    BY <2>r DEF TypeOK, EntriesBacked
  <2>3. QueriesOK'
    BY <2>r DEF TypeOK, QueriesOK
  <2>4. CopiesOK'
    BY <2>r DEF TypeOK, CopiesOK
  <2> QED
    BY <2>1, <2>2, <2>3, <2>4
<1>2. ASSUME NEW w \in Workers, NEW d \in Domains, GetFakeIPMiss(w, d) PROVE IInv'
  <2> USE <1>2 DEF GetFakeIPMiss
  <2>1. TypeOK'
    BY DEF TypeOK
  <2>2. EntriesBacked'
    BY DEF TypeOK, EntriesBacked
  <2>3. QueriesOK'
    BY DEF TypeOK, QueriesOK
  <2>4. CopiesOK'
    BY DEF TypeOK, CopiesOK
  <2> QED
    BY <2>1, <2>2, <2>3, <2>4
<1>3. ASSUME NEW w \in Workers, LockCursor(w) PROVE IInv'
  <2> USE <1>3 DEF LockCursor
  <2>1. TypeOK'
    BY DEF TypeOK
  <2>2. EntriesBacked'
    BY DEF TypeOK, EntriesBacked
  <2>3. QueriesOK'
    BY DEF TypeOK, QueriesOK
  <2>4. CopiesOK'
    BY DEF TypeOK, CopiesOK
  <2> QED
    BY <2>1, <2>2, <2>3, <2>4
<1>4. ASSUME NEW w \in Workers, ProbeTaken(w) PROVE IInv'
  <2> USE <1>4 DEF ProbeTaken
  <2>0. /\ Subnet(w) \in 1 .. Len(conf.prefixes)
        /\ Candidate(w) \in Addrs
    BY CandidateInside
  <2>1. TypeOK'
    BY <2>0 DEF TypeOK
  <2>2. EntriesBacked'
    BY DEF TypeOK, EntriesBacked
  <2>3. QueriesOK'
    BY DEF TypeOK, QueriesOK
  <2>4. CopiesOK'
    BY DEF TypeOK, CopiesOK
  <2> QED
    BY <2>1, <2>2, <2>3, <2>4
<1>5. ASSUME NEW w \in Workers, ProbeFree(w) PROVE IInv'
  <2> USE <1>5 DEF ProbeFree
  <2>0. /\ Subnet(w) \in 1 .. Len(conf.prefixes)
        /\ Candidate(w) \in Addrs
    BY CandidateInside
  <2>1. TypeOK'
    <3>1. newIPs[w] \in Seq(Addrs)
      BY DEF TypeOK
    <3>2. Append(newIPs[w], Candidate(w)) \in Seq(Addrs)
      BY <2>0, <3>1
    <3> QED
      BY <2>0, <3>2 DEF TypeOK
  <2>2. EntriesBacked'
    BY DEF TypeOK, EntriesBacked
  <2>3. QueriesOK'
    <3>1. \A v \in Workers : pc[v] \in {"host", "ip"} => newIPs'[v] = newIPs[v]
      BY DEF TypeOK, Allocating
    <3> QED
      BY <3>1 DEF TypeOK, QueriesOK
  <2>4. CopiesOK'
    BY DEF TypeOK, CopiesOK
  <2> QED
    BY <2>1, <2>2, <2>3, <2>4
<1>6. ASSUME NEW w \in Workers, UnlockCursor(w) PROVE IInv'
  <2> USE <1>6 DEF UnlockCursor
  <2>0. PICK p \in Ptrs :
          /\ recs[p] = None
          /\ recs' = [recs EXCEPT ![p] = [domain    |-> dom[w],
                                          ips       |-> Elements(newIPs[w]),
                                          expiresAt |-> now + TTL]]
          /\ rec' = [rec EXCEPT ![w] = p]
    OBVIOUS
  <2> DEFINE built == [domain |-> dom[w], ips |-> Elements(newIPs[w]),
                       expiresAt |-> now + TTL]
  <2>a. dom[w] \in Domains
    BY DEF QueriesOK
  <2>b. newIPs[w] \in Seq(Addrs)
    BY DEF TypeOK
  <2>c. Elements(newIPs[w]) \subseteq Addrs
    BY <2>b DEF Elements
  <2>d. now + TTL \in Time
    BY TimeAssumption DEF TypeOK, Time
  <2>e. built \in Record /\ built # None
    BY <2>a, <2>c, <2>d, NoneAssumption DEF Record
  <2>1. TypeOK'
    <3>1. /\ recs' \in [Ptrs -> Record \cup {None}]
          /\ rec' \in [Workers -> Ptrs \cup {0}]
      BY <2>0, <2>e DEF TypeOK
    <3> QED
      BY <3>1 DEF TypeOK
  <2>2. EntriesBacked'
    BY <2>0, <2>e DEF TypeOK, EntriesBacked
  <2>3. QueriesOK'
    <3> SUFFICES ASSUME NEW v \in Workers
                 PROVE  /\ pc'[v] # "idle" => dom'[v] \in Domains
                        /\ pc'[v] \in {"host", "ip"} =>
                              /\ rec'[v] \in Ptrs
                              /\ recs'[rec'[v]] # None
                              /\ recs'[rec'[v]].domain = dom'[v]
                              /\ \A i \in 1 .. Len(newIPs'[v]) :
                                    newIPs'[v][i] \in recs'[rec'[v]].ips
      BY DEF QueriesOK
    <3>1. CASE v = w
      <4>1. rec'[v] = p /\ recs'[p] = built
        BY <2>0, <3>1 DEF TypeOK
      <4>2. \A i \in 1 .. Len(newIPs[w]) : newIPs[w][i] \in built.ips
        BY DEF Elements
      <4> QED
        BY <3>1, <4>1, <4>2, <2>a, <2>e
    <3>2. CASE v # w
      <4>1. pc'[v] = pc[v] /\ rec'[v] = rec[v]
        BY <2>0, <3>2 DEF TypeOK
      <4>2. \A q \in Ptrs : recs[q] # None => recs'[q] = recs[q]
        BY <2>0 DEF TypeOK
      <4> QED
        BY <4>1, <4>2 DEF QueriesOK
    <3> QED
      BY <3>1, <3>2
  <2>4. CopiesOK'
    BY <2>0, <2>e DEF TypeOK, CopiesOK
  <2> QED
    BY <2>1, <2>2, <2>3, <2>4
<1>7. ASSUME NEW w \in Workers, InsertHost(w) PROVE IInv'
  <2> USE <1>7 DEF InsertHost
  <2>1. TypeOK'
    BY DEF TypeOK
  <2>2. EntriesBacked'
    <3>1. /\ dom[w] \in Domains /\ rec[w] \in Ptrs /\ recs[rec[w]] # None
          /\ recs[rec[w]].domain = dom[w]
      BY DEF QueriesOK
    <3>2. \A d \in Domains : hosts'[d] = IF d = dom[w] THEN rec[w] ELSE hosts[d]
      BY DEF TypeOK
    <3> QED
      BY <3>1, <3>2 DEF EntriesBacked
  <2>3. QueriesOK'
    BY DEF TypeOK, QueriesOK
  <2>4. CopiesOK'
    BY DEF TypeOK, CopiesOK
  <2> QED
    BY <2>1, <2>2, <2>3, <2>4
<1>8. ASSUME NEW w \in Workers, InsertIP(w) PROVE IInv'
  <2> USE <1>8 DEF InsertIP
  <2>0. newIPs[w] \in Seq(Addrs) /\ newIPs[w] # <<>>
    BY DEF TypeOK
  <2>h. Head(newIPs[w]) \in Addrs /\ Head(newIPs[w]) = newIPs[w][1]
    BY <2>0
  <2>1. TypeOK'
    BY DEF TypeOK
  <2>2. EntriesBacked'
    <3>1. 1 \in 1 .. Len(newIPs[w])
      BY <2>0
    <3>2. /\ rec[w] \in Ptrs /\ recs[rec[w]] # None
          /\ Head(newIPs[w]) \in recs[rec[w]].ips
      BY <2>h, <3>1 DEF QueriesOK
    <3>3. \A a \in Addrs : ips'[a] = IF a = Head(newIPs[w]) THEN rec[w] ELSE ips[a]
      BY <2>h DEF TypeOK
    <3> QED
      BY <3>2, <3>3 DEF EntriesBacked
  <2>3. QueriesOK'
    BY DEF TypeOK, QueriesOK
  <2>4. CopiesOK'
    BY DEF TypeOK, CopiesOK
  <2> QED
    BY <2>1, <2>2, <2>3, <2>4
<1>9. ASSUME NEW w \in Workers, FinishGet(w) PROVE IInv'
  <2> USE <1>9 DEF FinishGet
  <2>1. TypeOK'
    BY DEF TypeOK
  <2>2. EntriesBacked'
    BY DEF TypeOK, EntriesBacked
  <2>3. QueriesOK'
    BY DEF TypeOK, QueriesOK
  <2>4. CopiesOK'
    BY DEF TypeOK, CopiesOK
  <2> QED
    BY <2>1, <2>2, <2>3, <2>4
<1>10. ASSUME NEW a \in Addrs, LookUpAddr(a) PROVE IInv'
  <2> USE <1>10 DEF LookUpAddr
  <2>0. /\ ips[a] \in Ptrs
        /\ recs[ips[a]] # None
    BY DEF TypeOK, EntriesBacked
  <2>r. /\ recs' \in [Ptrs -> Record \cup {None}]
        /\ \A q \in Ptrs : recs[q] # None =>
              /\ recs'[q] # None
              /\ recs'[q].domain = recs[q].domain
              /\ recs'[q].ips = recs[q].ips
    BY <2>0, Refreshed
  <2>1. TypeOK'
    BY <2>r DEF TypeOK
  <2>2. EntriesBacked'
    BY <2>r DEF TypeOK, EntriesBacked
  <2>3. QueriesOK'
    BY <2>r DEF TypeOK, QueriesOK
  <2>4. CopiesOK'
    BY <2>r DEF TypeOK, CopiesOK
  <2> QED
    BY <2>1, <2>2, <2>3, <2>4
<1>11. ASSUME Tick PROVE IInv'
  <2> USE <1>11 DEF Tick
  <2>1. TypeOK'
    <3>1. now' \in 0 .. MaxTime
      BY TimeAssumption DEF TypeOK
    <3> QED
      BY <3>1 DEF TypeOK
  <2>2. EntriesBacked'
    BY DEF TypeOK, EntriesBacked
  <2>3. QueriesOK'
    BY DEF TypeOK, QueriesOK
  <2>4. CopiesOK'
    BY DEF TypeOK, CopiesOK
  <2> QED
    BY <2>1, <2>2, <2>3, <2>4
<1>12. ASSUME StartClean PROVE IInv'
  <2> USE <1>12 DEF StartClean
  <2>1. TypeOK'
    <3>1. 0 \in Shards
      BY HashAssumption DEF Shards
    <3>2. bshard' \in [Tasks -> Shards]
      BY <3>1 DEF TypeOK
    <3>3. bpc' \in [Tasks -> TaskPCs]
      BY DEF TypeOK, TaskPCs
    <3> QED
      BY <3>2, <3>3 DEF TypeOK, TaskPCs
  <2>2. EntriesBacked'
    BY DEF TypeOK, EntriesBacked
  <2>3. QueriesOK'
    BY DEF TypeOK, QueriesOK
  <2>4. CopiesOK'
    BY DEF TypeOK, CopiesOK
  <2> QED
    BY <2>1, <2>2, <2>3, <2>4
<1>13. ASSUME CleanIPShard PROVE IInv'
  <2> USE <1>13 DEF CleanIPShard
  <2>1. TypeOK'
    <3>1. /\ ips' \in [Addrs -> Ptrs \cup {0}]
          /\ clCount' \in BOOLEAN
      BY DEF TypeOK
    <3>2. clDomains' \in SUBSET Domains
      <4>1. \A a \in ExpiredAddrs : recs[ips[a]].domain \in Domains
        <5> SUFFICES ASSUME NEW a \in ExpiredAddrs PROVE recs[ips[a]].domain \in Domains
          OBVIOUS
        <5>1. a \in Addrs /\ ips[a] \in Ptrs /\ recs[ips[a]] # None
          BY DEF ExpiredAddrs, TypeOK, EntriesBacked
        <5>2. recs[ips[a]] \in Record
          BY <5>1 DEF TypeOK
        <5> QED
          BY <5>2 DEF Record
      <4> QED
        BY <4>1
    <3>3. bpc' \in [Tasks -> TaskPCs] /\ bshard' \in [Tasks -> Shards]
      <4>1. CASE ExpiredAddrs = {}
        BY <4>1, NextShardTyped, TasksAssumption DEF TaskPCs
      <4>2. CASE ExpiredAddrs # {}
        BY <4>2 DEF TypeOK, TaskPCs
      <4> QED
        BY <4>1, <4>2
    <3> QED
      BY <3>1, <3>2, <3>3 DEF TypeOK, TaskPCs
  <2>2. EntriesBacked'
    BY DEF TypeOK, EntriesBacked
  <2>3. QueriesOK'
    BY DEF TypeOK, QueriesOK
  <2>4. CopiesOK'
    BY DEF TypeOK, CopiesOK
  <2> QED
    BY <2>1, <2>2, <2>3, <2>4
<1>14. ASSUME CleanHostShard PROVE IInv'
  <2> USE <1>14 DEF CleanHostShard
  <2>1. TypeOK'
    <3>1. bpc' \in [Tasks -> TaskPCs] /\ bshard' \in [Tasks -> Shards]
      BY NextShardTyped, TasksAssumption DEF TaskPCs
    <3> QED
      BY <3>1 DEF TypeOK, TaskPCs
  <2>2. EntriesBacked'
    BY DEF TypeOK, EntriesBacked
  <2>3. QueriesOK'
    BY DEF TypeOK, QueriesOK
  <2>4. CopiesOK'
    BY DEF TypeOK, CopiesOK
  <2> QED
    BY <2>1, <2>2, <2>3, <2>4
<1>15. ASSUME EndClean PROVE IInv'
  <2> USE <1>15 DEF EndClean
  <2>1. TypeOK'
    <3>1. clNow' \in 0 .. MaxTime
      BY TimeAssumption DEF TypeOK
    <3>2. isDirty' \in BOOLEAN
      BY DEF TypeOK
    <3>3. bpc' \in [Tasks -> TaskPCs]
      BY DEF TypeOK, TaskPCs
    <3> QED
      BY <3>1, <3>2, <3>3 DEF TypeOK, TaskPCs
  <2>2. EntriesBacked'
    BY DEF TypeOK, EntriesBacked
  <2>3. QueriesOK'
    BY DEF TypeOK, QueriesOK
  <2>4. CopiesOK'
    BY DEF TypeOK, CopiesOK
  <2> QED
    BY <2>1, <2>2, <2>3, <2>4
<1>16. ASSUME SaveTick PROVE IInv'
  <2> USE <1>16 DEF SaveTick
  <2>1. TypeOK'
    BY DEF TypeOK
  <2>2. EntriesBacked'
    BY DEF TypeOK, EntriesBacked
  <2>3. QueriesOK'
    BY DEF TypeOK, QueriesOK
  <2>4. CopiesOK'
    BY DEF TypeOK, CopiesOK
  <2> QED
    BY <2>1, <2>2, <2>3, <2>4
<1>17. ASSUME NEW t \in Tasks, SaveCheck(t) PROVE IInv'
  <2> USE <1>17 DEF SaveCheck
  <2>1. TypeOK'
    <3>1. bpc' \in [Tasks -> TaskPCs]
      BY DEF TypeOK, TaskPCs, AfterSave
    <3> QED
      BY <3>1 DEF TypeOK, TaskPCs
  <2>2. EntriesBacked'
    BY DEF TypeOK, EntriesBacked
  <2>3. QueriesOK'
    BY DEF TypeOK, QueriesOK
  <2>4. CopiesOK'
    BY DEF TypeOK, CopiesOK
  <2> QED
    BY <2>1, <2>2, <2>3, <2>4
<1>18. ASSUME NEW t \in Tasks, CopyShard(t) PROVE IInv'
  <2> USE <1>18 DEF CopyShard
  <2>1. TypeOK'
    <3>1. bpc' \in [Tasks -> TaskPCs] /\ bshard' \in [Tasks -> Shards]
      BY NextShardTyped DEF TaskPCs
    <3>2. snap' \in [Tasks -> [Domains -> Ptrs \cup {0}]]
      BY DEF TypeOK
    <3> QED
      BY <3>1, <3>2 DEF TypeOK, TaskPCs
  <2>2. EntriesBacked'
    BY DEF TypeOK, EntriesBacked
  <2>3. QueriesOK'
    BY DEF TypeOK, QueriesOK
  <2>4. CopiesOK'
    <3>1. \A u \in Tasks, d \in Domains :
              snap'[u][d] \in {hosts[d], snap[u][d]}
      BY DEF TypeOK
    <3> QED
      BY <3>1 DEF CopiesOK, EntriesBacked
  <2> QED
    BY <2>1, <2>2, <2>3, <2>4
<1>19. ASSUME NEW t \in Tasks, CopyCursors(t) PROVE IInv'
  <2> USE <1>19 DEF CopyCursors
  <2>1. TypeOK'
    <3>1. \A d \in Domains : Saved(snap[t][d]) \in SavedRecord \cup {None}
      <4> SUFFICES ASSUME NEW d \in Domains, snap[t][d] # 0
                   PROVE  Saved(snap[t][d]) \in SavedRecord
        BY DEF Saved
      <4>1. recs[snap[t][d]] \in Record
        BY DEF TypeOK, CopiesOK
      <4> QED
        BY <4>1 DEF Saved, SavedRecord, Record
    <3>2. cursors \in Seq(Addrs)
      <4>1. Len(conf.prefixes) \in Nat
        BY ConfigsAssumption DEF TypeOK
      <4>2. \A n \in Nat : [1 .. n -> Addrs] \subseteq Seq(Addrs)
        OBVIOUS
      <4> QED
        BY <4>1, <4>2 DEF TypeOK
    <3>3. conf.nv4 \in Nat
      BY ConfigsAssumption DEF TypeOK
    <3>4. data' \in [Tasks -> PersistState]
      BY <3>1, <3>2, <3>3 DEF TypeOK, PersistState
    <3>5. snap' \in [Tasks -> [Domains -> Ptrs \cup {0}]]
      BY DEF TypeOK, NoHosts
    <3>6. bpc' \in [Tasks -> TaskPCs]
      BY DEF TypeOK, TaskPCs
    <3> QED
      BY <3>4, <3>5, <3>6 DEF TypeOK, TaskPCs
  <2>2. EntriesBacked'
    BY DEF TypeOK, EntriesBacked
  <2>3. QueriesOK'
    BY DEF TypeOK, QueriesOK
  <2>4. CopiesOK'
    <3>1. \A u \in Tasks, d \in Domains : snap'[u][d] \in {0, snap[u][d]}
      BY DEF TypeOK, NoHosts
    <3> QED
      BY <3>1 DEF CopiesOK
  <2> QED
    BY <2>1, <2>2, <2>3, <2>4
<1>20. ASSUME NEW t \in Tasks, ClearDirty(t) PROVE IInv'
  <2> USE <1>20 DEF ClearDirty
  <2>1. TypeOK'
    BY DEF TypeOK
  <2>2. EntriesBacked'
    BY DEF TypeOK, EntriesBacked
  <2>3. QueriesOK'
    BY DEF TypeOK, QueriesOK
  <2>4. CopiesOK'
    BY DEF TypeOK, CopiesOK
  <2> QED
    BY <2>1, <2>2, <2>3, <2>4
<1>21. ASSUME NEW t \in Tasks, OpenTmp(t) PROVE IInv'
  <2> USE <1>21 DEF OpenTmp
  <2>1. TypeOK'
    BY DEF TypeOK
  <2>2. EntriesBacked'
    BY DEF TypeOK, EntriesBacked
  <2>3. QueriesOK'
    BY DEF TypeOK, QueriesOK
  <2>4. CopiesOK'
    BY DEF TypeOK, CopiesOK
  <2> QED
    BY <2>1, <2>2, <2>3, <2>4
<1>22. ASSUME NEW t \in Tasks, WriteTmp(t) PROVE IInv'
  <2> USE <1>22 DEF WriteTmp
  <2>1. TypeOK'
    <3>1. /\ tmp' \in PersistState \cup {None, Empty, Torn}
          /\ file' \in PersistState \cup {None, Empty, Torn}
      BY DEF TypeOK, WriteOver
    <3>2. data' \in [Tasks -> PersistState]
      BY NoDataTyped DEF TypeOK
    <3>3. bpc' \in [Tasks -> TaskPCs]
      BY DEF TypeOK, TaskPCs
    <3> QED
      BY <3>1, <3>2, <3>3 DEF TypeOK, TaskPCs
  <2>2. EntriesBacked'
    BY DEF TypeOK, EntriesBacked
  <2>3. QueriesOK'
    BY DEF TypeOK, QueriesOK
  <2>4. CopiesOK'
    BY DEF TypeOK, CopiesOK
  <2> QED
    BY <2>1, <2>2, <2>3, <2>4
<1>23. ASSUME NEW t \in Tasks, WriteError(t) PROVE IInv'
  <2> USE <1>23 DEF WriteError
  <2>1. TypeOK'
    <3>1. /\ tmp' \in PersistState \cup {None, Empty, Torn}
          /\ file' \in PersistState \cup {None, Empty, Torn}
      BY DEF TypeOK
    <3>2. data' \in [Tasks -> PersistState]
      BY NoDataTyped DEF TypeOK
    <3>3. bpc' \in [Tasks -> TaskPCs]
      BY DEF TypeOK, TaskPCs, AfterSave
    <3> QED
      BY <3>1, <3>2, <3>3 DEF TypeOK, TaskPCs
  <2>2. EntriesBacked'
    BY DEF TypeOK, EntriesBacked
  <2>3. QueriesOK'
    BY DEF TypeOK, QueriesOK
  <2>4. CopiesOK'
    BY DEF TypeOK, CopiesOK
  <2> QED
    BY <2>1, <2>2, <2>3, <2>4
<1>24. ASSUME NEW t \in Tasks, RenameTmp(t) PROVE IInv'
  <2> USE <1>24 DEF RenameTmp
  <2>1. TypeOK'
    <3>1. /\ tmp' \in PersistState \cup {None, Empty, Torn}
          /\ file' \in PersistState \cup {None, Empty, Torn}
      BY DEF TypeOK
    <3>2. fd' \in [Tasks -> {"tmp", "file", "gone", None}]
      BY DEF TypeOK
    <3>3. bpc' \in [Tasks -> TaskPCs]
      BY DEF TypeOK, TaskPCs, AfterSave
    <3> QED
      BY <3>1, <3>2, <3>3 DEF TypeOK, TaskPCs
  <2>2. EntriesBacked'
    BY DEF TypeOK, EntriesBacked
  <2>3. QueriesOK'
    BY DEF TypeOK, QueriesOK
  <2>4. CopiesOK'
    BY DEF TypeOK, CopiesOK
  <2> QED
    BY <2>1, <2>2, <2>3, <2>4
<1>25. ASSUME StartClear PROVE IInv'
  <2> USE <1>25 DEF StartClear
  <2>1. TypeOK'
    BY DEF TypeOK
  <2>2. EntriesBacked'
    BY DEF TypeOK, EntriesBacked
  <2>3. QueriesOK'
    BY DEF TypeOK, QueriesOK
  <2>4. CopiesOK'
    BY DEF TypeOK, CopiesOK
  <2> QED
    BY <2>1, <2>2, <2>3, <2>4
<1>26. ASSUME NEW t \in Tasks, ClearHostShard(t) PROVE IInv'
  <2> USE <1>26 DEF ClearHostShard
  <2>1. TypeOK'
    BY DEF TypeOK
  <2>2. EntriesBacked'
    BY DEF TypeOK, EntriesBacked
  <2>3. QueriesOK'
    BY DEF TypeOK, QueriesOK
  <2>4. CopiesOK'
    BY DEF TypeOK, CopiesOK
  <2> QED
    BY <2>1, <2>2, <2>3, <2>4
<1>27. ASSUME NEW t \in Tasks, ClearIPShard(t) PROVE IInv'
  <2> USE <1>27 DEF ClearIPShard
  <2>1. TypeOK'
    <3>1. bpc' \in [Tasks -> TaskPCs] /\ bshard' \in [Tasks -> Shards]
      BY NextShardTyped DEF TaskPCs
    <3>2. ips' \in [Addrs -> Ptrs \cup {0}]
      BY DEF TypeOK
    <3> QED
      BY <3>1, <3>2 DEF TypeOK, TaskPCs
  <2>2. EntriesBacked'
    BY DEF TypeOK, EntriesBacked
  <2>3. QueriesOK'
    BY DEF TypeOK, QueriesOK
  <2>4. CopiesOK'
    BY DEF TypeOK, CopiesOK
  <2> QED
    BY <2>1, <2>2, <2>3, <2>4
<1>28. ASSUME StartClose PROVE IInv'
  <2> USE <1>28 DEF StartClose
  <2>1. TypeOK'
    BY DEF TypeOK
  <2>2. EntriesBacked'
    BY DEF TypeOK, EntriesBacked
  <2>3. QueriesOK'
    BY DEF TypeOK, QueriesOK
  <2>4. CopiesOK'
    BY DEF TypeOK, CopiesOK
  <2> QED
    BY <2>1, <2>2, <2>3, <2>4
<1>29. ASSUME NEW t \in Tasks, MarkDirty(t) PROVE IInv'
  <2> USE <1>29 DEF MarkDirty
  <2>1. TypeOK'
    BY DEF TypeOK
  <2>2. EntriesBacked'
    BY DEF TypeOK, EntriesBacked
  <2>3. QueriesOK'
    BY DEF TypeOK, QueriesOK
  <2>4. CopiesOK'
    BY DEF TypeOK, CopiesOK
  <2> QED
    BY <2>1, <2>2, <2>3, <2>4
<1>30. ASSUME NEW c \in Configs, NEW ord \in LoadOrders, Restart(c, ord)
      PROVE  IInv'
  BY <1>30, RestartIInv
<1>31. CASE UNCHANGED vars
  BY <1>31 DEF vars, TypeOK, EntriesBacked, QueriesOK, CopiesOK
<1> QED
  BY <1>1, <1>2, <1>3, <1>4, <1>5, <1>6, <1>7, <1>8, <1>9, <1>10, <1>11,
     <1>12, <1>13, <1>14, <1>15, <1>16, <1>17, <1>18, <1>19, <1>20, <1>21,
     <1>22, <1>23, <1>24, <1>25, <1>26, <1>27, <1>28, <1>29, <1>30, <1>31
  DEF Next, GetFakeIP, CleanExpired, SaveToFileIfDirty, Clear
-----------------------------------------------------------------------------
(* The addresses stay inside the configured prefixes *)

RecsInside ==
    \A p \in Ptrs : recs[p] # None => \A a \in recs[p].ips : InSomePrefix(a)

NewIPsInside ==
    \A w \in Workers : \A i \in 1 .. Len(newIPs[w]) : InSomePrefix(newIPs[w][i])

CursorsInside ==
    \A i \in 1 .. Len(conf.prefixes) : InPrefix(conf.prefixes[i], cursors[i])

\* The IP table needs no clause of its own: its entries are backed.
LEMMA InsideSuffices ==
    EntriesBacked /\ TypeOK =>
        (AddressesInPrefixes <=> RecsInside /\ NewIPsInside /\ CursorsInside)
BY DEF EntriesBacked, TypeOK, AddressesInPrefixes, RecsInside, NewIPsInside,
       CursorsInside

Inside == RecsInside /\ NewIPsInside /\ CursorsInside

\* A step that touches neither the configuration, nor the records but for
\* their expiry, nor the addresses being handed out, nor the cursors.
LEMMA InsideKept ==
    ASSUME TypeOK, Inside, UNCHANGED <<conf, newIPs, cursors>>,
           \A q \in Ptrs : recs'[q] # None =>
              recs[q] # None /\ recs'[q].ips = recs[q].ips
    PROVE  Inside'
BY DEF Inside, RecsInside, NewIPsInside, CursorsInside, InSomePrefix

\* A refresh allocates nothing.
LEMMA RefreshedHeap ==
    ASSUME TypeOK, NEW p \in Ptrs, recs[p] # None,
           recs' = [recs EXCEPT ![p].expiresAt = now + TTL]
    PROVE  \A q \in Ptrs : recs'[q] # None =>
              recs[q] # None /\ recs'[q].ips = recs[q].ips
<1>1. \A q \in Ptrs : q # p => recs'[q] = recs[q]
  BY DEF TypeOK
<1>2. recs'[p].ips = recs[p].ips
  BY Refreshed
<1> QED
  BY <1>1, <1>2

\* Every step keeps records, addresses in flight and cursors inside.
LEMMA NextInside == IInv /\ Inside /\ [Next]_vars => Inside'
<1> SUFFICES ASSUME IInv, Inside, [Next]_vars PROVE Inside'
  OBVIOUS
<1> USE DEF IInv, poolVars, cursorVars, workerVars, saveVars, cleanVars,
            diskVars, taskVars, queryVars
<1>1. ASSUME NEW w \in Workers, NEW d \in Domains, GetFakeIPHit(w, d) PROVE Inside'
  <2>1. hosts[d] \in Ptrs /\ recs[hosts[d]] # None
    BY <1>1 DEF GetFakeIPHit, TypeOK, EntriesBacked
  <2> QED
    BY <1>1, <2>1, RefreshedHeap, InsideKept DEF GetFakeIPHit
<1>2. ASSUME NEW w \in Workers, ProbeTaken(w) PROVE Inside'
  <2>1. /\ Subnet(w) \in 1 .. Len(conf.prefixes)
        /\ InPrefix(conf.prefixes[Subnet(w)], Candidate(w))
    BY <1>2, CandidateInside DEF ProbeTaken
  <2>2. RecsInside'
    BY <1>2 DEF ProbeTaken, Inside, RecsInside, InSomePrefix
  <2>3. CursorsInside'
    BY <1>2, <2>1 DEF ProbeTaken, Inside, CursorsInside, TypeOK
  <2>4. NewIPsInside'
    BY <1>2 DEF ProbeTaken, Inside, NewIPsInside, InSomePrefix
  <2> QED
    BY <2>2, <2>3, <2>4 DEF Inside
<1>3. ASSUME NEW w \in Workers, ProbeFree(w) PROVE Inside'
  <2>1. /\ Subnet(w) \in 1 .. Len(conf.prefixes)
        /\ InPrefix(conf.prefixes[Subnet(w)], Candidate(w))
    BY <1>3, CandidateInside DEF ProbeFree
  <2>2. RecsInside'
    BY <1>3 DEF ProbeFree, Inside, RecsInside, InSomePrefix
  <2>3. CursorsInside'
    BY <1>3, <2>1 DEF ProbeFree, Inside, CursorsInside, TypeOK
  <2>4. NewIPsInside'
    <3> SUFFICES ASSUME NEW v \in Workers, NEW i \in 1 .. Len(newIPs'[v])
                 PROVE  InSomePrefix(newIPs[v][i])'
      BY DEF NewIPsInside
    <3>1. CASE v = w
      <4>1. newIPs[w] \in Seq(Addrs) /\ newIPs'[v] = Append(newIPs[w], Candidate(w))
        BY <1>3, <3>1 DEF ProbeFree, TypeOK
      <4>2. CASE i = Len(newIPs[w]) + 1
        BY <1>3, <2>1, <4>1, <4>2 DEF ProbeFree, InSomePrefix
      <4>3. CASE i \in 1 .. Len(newIPs[w])
        BY <1>3, <4>1, <4>3 DEF ProbeFree, Inside, NewIPsInside, InSomePrefix
      <4> QED
        BY <4>1, <4>2, <4>3
    <3>2. CASE v # w
      BY <1>3, <3>2 DEF ProbeFree, TypeOK, Inside, NewIPsInside, InSomePrefix
    <3> QED
      BY <3>1, <3>2
  <2> QED
    BY <2>2, <2>3, <2>4 DEF Inside
<1>4. ASSUME NEW w \in Workers, UnlockCursor(w) PROVE Inside'
  <2>1. PICK p \in Ptrs :
          recs' = [recs EXCEPT ![p] = [domain    |-> dom[w],
                                       ips       |-> Elements(newIPs[w]),
                                       expiresAt |-> now + TTL]]
    BY <1>4 DEF UnlockCursor
  <2>2. recs'[p].ips = Elements(newIPs[w])
    BY <2>1 DEF TypeOK
  <2>3. \A a \in Elements(newIPs[w]) : InSomePrefix(a)
    BY DEF Elements, Inside, NewIPsInside
  <2>4. \A q \in Ptrs : q # p => recs'[q] = recs[q]
    BY <2>1 DEF TypeOK
  <2>5. \A a : InSomePrefix(a) <=> InSomePrefix(a)'
    BY <1>4 DEF UnlockCursor, InSomePrefix
  <2>6. RecsInside'
    BY <2>2, <2>3, <2>4, <2>5 DEF Inside, RecsInside
  <2>7. NewIPsInside' /\ CursorsInside'
    BY <1>4 DEF UnlockCursor, Inside, NewIPsInside, CursorsInside, InSomePrefix
  <2> QED
    BY <2>6, <2>7 DEF Inside
<1>5. ASSUME NEW w \in Workers, InsertIP(w) PROVE Inside'
  <2>1. /\ newIPs[w] \in Seq(Addrs)
        /\ newIPs[w] # <<>>
    BY <1>5 DEF InsertIP, TypeOK
  <2>2. RecsInside' /\ CursorsInside'
    BY <1>5 DEF InsertIP, Inside, RecsInside, CursorsInside, InSomePrefix
  <2>3. NewIPsInside'
    <3> SUFFICES ASSUME NEW v \in Workers, NEW i \in 1 .. Len(newIPs'[v])
                 PROVE  InSomePrefix(newIPs[v][i])'
      BY DEF NewIPsInside
    <3>1. CASE v = w
      <4>1. newIPs'[v] = Tail(newIPs[w])
        BY <1>5, <3>1 DEF InsertIP, TypeOK
      <4>2. i + 1 \in 1 .. Len(newIPs[w]) /\ newIPs'[v][i] = newIPs[w][i + 1]
        BY <2>1, <4>1
      <4> QED
        BY <1>5, <4>2 DEF InsertIP, Inside, NewIPsInside, InSomePrefix
    <3>2. CASE v # w
      BY <1>5, <3>2 DEF InsertIP, TypeOK, Inside, NewIPsInside, InSomePrefix
    <3> QED
      BY <3>1, <3>2
  <2> QED
    BY <2>2, <2>3 DEF Inside
<1>6. ASSUME NEW a \in Addrs, LookUpAddr(a) PROVE Inside'
  <2>1. ips[a] \in Ptrs /\ recs[ips[a]] # None
    BY <1>6 DEF LookUpAddr, TypeOK, EntriesBacked
  <2> QED
    BY <1>6, <2>1, RefreshedHeap, InsideKept DEF LookUpAddr
<1>7. ASSUME NEW c \in Configs, NEW ord \in LoadOrders, Restart(c, ord)
      PROVE  Inside'
  <2>1. conf' = c /\ recs' = LoadedRecs(c, file, ord)
    BY <1>7 DEF Restart
  <2>2. RecsInside'
    <3> SUFFICES ASSUME NEW p \in Ptrs, recs'[p] # None, NEW a \in recs'[p].ips
                 PROVE  InSomePrefix(a)'
      BY DEF RecsInside
    <3>1. PICK d \in Domains : ord[d] = p /\ Restores(c, file, d)
      BY <2>1 DEF LoadedRecs
    <3>2. recs'[p].ips = ValidIPs(c, file.records[d].ips)
      BY <2>1, <3>1, RestoredRecord
    <3> QED
      BY <2>1, <3>2 DEF ValidIPs, InSomePrefix
  <2>3. NewIPsInside'
    BY <1>7 DEF Restart, NewIPsInside
  <2>4. CursorsInside'
    BY <1>7, <2>1, RestoredInside DEF CursorsInside
  <2> QED
    BY <2>2, <2>3, <2>4 DEF Inside
\* The other actions.
<1>8. ASSUME NEW w \in Workers, NEW d \in Domains, GetFakeIPMiss(w, d) PROVE Inside'
  BY <1>8, InsideKept DEF GetFakeIPMiss
<1>9. ASSUME NEW w \in Workers, LockCursor(w) PROVE Inside'
  BY <1>9, InsideKept DEF LockCursor
<1>10. ASSUME NEW w \in Workers, InsertHost(w) PROVE Inside'
  BY <1>10, InsideKept DEF InsertHost
<1>11. ASSUME NEW w \in Workers, FinishGet(w) PROVE Inside'
  BY <1>11, InsideKept DEF FinishGet
<1>12. ASSUME Tick PROVE Inside'
  BY <1>12, InsideKept DEF Tick
<1>13. ASSUME StartClean PROVE Inside'
  BY <1>13, InsideKept DEF StartClean
<1>14. ASSUME CleanIPShard PROVE Inside'
  BY <1>14, InsideKept DEF CleanIPShard
<1>15. ASSUME CleanHostShard PROVE Inside'
  BY <1>15, InsideKept DEF CleanHostShard
<1>16. ASSUME EndClean PROVE Inside'
  BY <1>16, InsideKept DEF EndClean
<1>17. ASSUME SaveTick PROVE Inside'
  BY <1>17, InsideKept DEF SaveTick
<1>18. ASSUME NEW t \in Tasks, SaveCheck(t) PROVE Inside'
  BY <1>18, InsideKept DEF SaveCheck
<1>19. ASSUME NEW t \in Tasks, CopyShard(t) PROVE Inside'
  BY <1>19, InsideKept DEF CopyShard
<1>20. ASSUME NEW t \in Tasks, CopyCursors(t) PROVE Inside'
  BY <1>20, InsideKept DEF CopyCursors
<1>21. ASSUME NEW t \in Tasks, ClearDirty(t) PROVE Inside'
  BY <1>21, InsideKept DEF ClearDirty
<1>22. ASSUME NEW t \in Tasks, OpenTmp(t) PROVE Inside'
  BY <1>22, InsideKept DEF OpenTmp
<1>23. ASSUME NEW t \in Tasks, WriteTmp(t) PROVE Inside'
  BY <1>23, InsideKept DEF WriteTmp
<1>24. ASSUME NEW t \in Tasks, WriteError(t) PROVE Inside'
  BY <1>24, InsideKept DEF WriteError
<1>25. ASSUME NEW t \in Tasks, RenameTmp(t) PROVE Inside'
  BY <1>25, InsideKept DEF RenameTmp
<1>26. ASSUME StartClear PROVE Inside'
  BY <1>26, InsideKept DEF StartClear
<1>27. ASSUME NEW t \in Tasks, ClearHostShard(t) PROVE Inside'
  BY <1>27, InsideKept DEF ClearHostShard
<1>28. ASSUME NEW t \in Tasks, ClearIPShard(t) PROVE Inside'
  BY <1>28, InsideKept DEF ClearIPShard
<1>29. ASSUME StartClose PROVE Inside'
  BY <1>29, InsideKept DEF StartClose
<1>30. ASSUME NEW t \in Tasks, MarkDirty(t) PROVE Inside'
  BY <1>30, InsideKept DEF MarkDirty
<1>31. CASE UNCHANGED vars
  BY <1>31, InsideKept DEF vars
<1> QED
  BY <1>1, <1>2, <1>3, <1>4, <1>5, <1>6, <1>7, <1>8, <1>9, <1>10, <1>11,
     <1>12, <1>13, <1>14, <1>15, <1>16, <1>17, <1>18, <1>19, <1>20, <1>21,
     <1>22, <1>23, <1>24, <1>25, <1>26, <1>27, <1>28, <1>29, <1>30, <1>31
  DEF Next, GetFakeIP, CleanExpired, SaveToFileIfDirty, Clear

\* The first start sets its cursors inside the prefixes.
LEMMA InitInside == Init => Inside
<1> SUFFICES ASSUME Init PROVE Inside
  OBVIOUS
<1>1. RecsInside /\ NewIPsInside
  BY DEF Init, RecsInside, NewIPsInside
<1>2. ASSUME NEW i \in 1 .. Len(conf.prefixes)
      PROVE  InPrefix(conf.prefixes[i], cursors[i])
  BY PrefixFacts DEF Init, Starts, InPrefix
<1> QED
  BY <1>1, <1>2 DEF Inside, CursorsInside
-----------------------------------------------------------------------------
(* The persistence file, as long as no two saves overlap on the disk *)

\* savePath.tmp is empty while a saver is about to write it and holds a whole
\* save when it is about to be renamed; nobody writes through a descriptor of
\* savePath.
DiskOK ==
    /\ FileWellFormed
    /\ \A t \in Tasks :
          /\ bpc[t] = "write" => fd[t] = "tmp" /\ tmp = Empty
          /\ bpc[t] = "rename" => tmp \in PersistState

\* The first start finds no file.
LEMMA InitDiskOK == Init => DiskOK
BY DEF Init, DiskOK, FileWellFormed

\* Every step keeps the disk in order if no two savers are at the temporary
\* file before it or after it.
LEMMA NextDiskOK ==
    ASSUME IInv, DiskOK, SaversApart, SaversApart', [Next]_vars
    PROVE  DiskOK'
<1> USE DEF IInv, poolVars, cursorVars, workerVars, saveVars, cleanVars,
            diskVars, taskVars, queryVars
<1> DEFINE steps == /\ fd' = fd
                    /\ \A t \in Tasks : \/ bpc'[t] = bpc[t]
                                        \/ bpc'[t] \notin {"write", "rename"}
<1>0. ASSUME UNCHANGED diskVars, steps PROVE DiskOK'
  BY <1>0 DEF DiskOK, FileWellFormed
<1>1. ASSUME NEW w \in Workers, NEW d \in Domains, GetFakeIPHit(w, d) PROVE DiskOK'
  BY <1>1 DEF GetFakeIPHit, DiskOK, FileWellFormed
<1>2. ASSUME NEW w \in Workers, NEW d \in Domains, GetFakeIPMiss(w, d) PROVE DiskOK'
  BY <1>2 DEF GetFakeIPMiss, DiskOK, FileWellFormed
<1>3. ASSUME NEW w \in Workers, LockCursor(w) PROVE DiskOK'
  BY <1>3 DEF LockCursor, DiskOK, FileWellFormed
<1>4. ASSUME NEW w \in Workers, ProbeTaken(w) PROVE DiskOK'
  BY <1>4 DEF ProbeTaken, DiskOK, FileWellFormed
<1>5. ASSUME NEW w \in Workers, ProbeFree(w) PROVE DiskOK'
  BY <1>5 DEF ProbeFree, DiskOK, FileWellFormed
<1>6. ASSUME NEW w \in Workers, UnlockCursor(w) PROVE DiskOK'
  BY <1>6 DEF UnlockCursor, DiskOK, FileWellFormed
<1>7. ASSUME NEW w \in Workers, InsertHost(w) PROVE DiskOK'
  BY <1>7 DEF InsertHost, DiskOK, FileWellFormed
<1>8. ASSUME NEW w \in Workers, InsertIP(w) PROVE DiskOK'
  BY <1>8 DEF InsertIP, DiskOK, FileWellFormed
<1>9. ASSUME NEW w \in Workers, FinishGet(w) PROVE DiskOK'
  BY <1>9 DEF FinishGet, DiskOK, FileWellFormed
<1>10. ASSUME NEW a \in Addrs, LookUpAddr(a) PROVE DiskOK'
  BY <1>10 DEF LookUpAddr, DiskOK, FileWellFormed
<1>11. ASSUME Tick PROVE DiskOK'
  BY <1>11 DEF Tick, DiskOK, FileWellFormed
<1>12. ASSUME StartClean PROVE DiskOK'
  BY <1>12, <1>0 DEF StartClean, NextShard, AfterSave, TypeOK
<1>13. ASSUME CleanIPShard PROVE DiskOK'
  BY <1>13, <1>0 DEF CleanIPShard, NextShard, AfterSave, TypeOK
<1>14. ASSUME CleanHostShard PROVE DiskOK'
  BY <1>14, <1>0 DEF CleanHostShard, NextShard, AfterSave, TypeOK
<1>15. ASSUME EndClean PROVE DiskOK'
  BY <1>15, <1>0 DEF EndClean, NextShard, AfterSave, TypeOK
<1>16. ASSUME SaveTick PROVE DiskOK'
  BY <1>16, <1>0 DEF SaveTick, NextShard, AfterSave, TypeOK
<1>17. ASSUME NEW t \in Tasks, SaveCheck(t) PROVE DiskOK'
  BY <1>17, <1>0 DEF SaveCheck, NextShard, AfterSave, TypeOK
<1>18. ASSUME NEW t \in Tasks, CopyShard(t) PROVE DiskOK'
  BY <1>18, <1>0 DEF CopyShard, NextShard, AfterSave, TypeOK
<1>19. ASSUME NEW t \in Tasks, CopyCursors(t) PROVE DiskOK'
  BY <1>19, <1>0 DEF CopyCursors, NextShard, AfterSave, TypeOK
<1>20. ASSUME NEW t \in Tasks, ClearDirty(t) PROVE DiskOK'
  BY <1>20, <1>0 DEF ClearDirty, NextShard, AfterSave, TypeOK
<1>21. ASSUME NEW t \in Tasks, OpenTmp(t) PROVE DiskOK'
  BY <1>21 DEF OpenTmp, TypeOK, DiskOK, FileWellFormed, SaversApart
<1>22. ASSUME NEW t \in Tasks, WriteTmp(t) PROVE DiskOK'
  <2>1. fd[t] = "tmp" /\ tmp = Empty
    BY <1>22 DEF WriteTmp, DiskOK
  <2>2. tmp' = data[t] /\ file' = file
    BY <1>22, <2>1 DEF WriteTmp, WriteOver
  <2>3. data[t] \in PersistState
    BY DEF TypeOK
  <2> QED
    BY <1>22, <2>2, <2>3 DEF WriteTmp, TypeOK, DiskOK, FileWellFormed, SaversApart
<1>23. ASSUME NEW t \in Tasks, WriteError(t) PROVE DiskOK'
  BY <1>23 DEF WriteError, AfterSave, TypeOK, DiskOK, FileWellFormed, SaversApart
<1>24. ASSUME NEW t \in Tasks, RenameTmp(t) PROVE DiskOK'
  BY <1>24 DEF RenameTmp, AfterSave, TypeOK, DiskOK, FileWellFormed, SaversApart
<1>25. ASSUME StartClear PROVE DiskOK'
  BY <1>25, <1>0 DEF StartClear, NextShard, AfterSave, TypeOK
<1>26. ASSUME NEW t \in Tasks, ClearHostShard(t) PROVE DiskOK'
  BY <1>26, <1>0 DEF ClearHostShard, NextShard, AfterSave, TypeOK
<1>27. ASSUME NEW t \in Tasks, ClearIPShard(t) PROVE DiskOK'
  BY <1>27, <1>0 DEF ClearIPShard, NextShard, AfterSave, TypeOK
<1>28. ASSUME StartClose PROVE DiskOK'
  BY <1>28, <1>0 DEF StartClose, NextShard, AfterSave, TypeOK
<1>29. ASSUME NEW t \in Tasks, MarkDirty(t) PROVE DiskOK'
  BY <1>29, <1>0 DEF MarkDirty, NextShard, AfterSave, TypeOK
<1>30. ASSUME NEW c \in Configs, NEW ord \in LoadOrders, Restart(c, ord)
      PROVE  DiskOK'
  BY <1>30 DEF Restart, DiskOK, FileWellFormed
<1>31. CASE UNCHANGED vars
  BY <1>31 DEF vars, DiskOK, FileWellFormed
<1> QED
  BY <1>1, <1>2, <1>3, <1>4, <1>5, <1>6, <1>7, <1>8, <1>9, <1>10, <1>11,
     <1>12, <1>13, <1>14, <1>15, <1>16, <1>17, <1>18, <1>19, <1>20, <1>21,
     <1>22, <1>23, <1>24, <1>25, <1>26, <1>27, <1>28, <1>29, <1>30, <1>31
  DEF Next, GetFakeIP, CleanExpired, SaveToFileIfDirty, Clear
-----------------------------------------------------------------------------
(* The theorems *)

\* The invariant holds in every reachable state.
LEMMA Invariance == Spec => []IInv
<1>1. Init => IInv
  BY InitIInv
<1>2. IInv /\ [Next]_vars => IInv'
  BY NextIInv
<1> QED
  BY <1>1, <1>2, PTL DEF Spec

\* No interleaving of queries, lookups, cleaning, saves, clears and restarts
\* leaves the types: in particular no action follows a dangling pointer or
\* restores a cursor list of the wrong length.
THEOREM TypeCorrect == Spec => []TypeOK
<1>1. IInv => TypeOK
  BY DEF IInv
<1> QED
  BY <1>1, Invariance, PTL

\* The host table and the IP table never disagree with the records they
\* share, although the two are written in separate critical sections.
THEOREM TablesBacked == Spec => []EntriesBacked
<1>1. IInv => EntriesBacked
  BY DEF IInv
<1> QED
  BY <1>1, Invariance, PTL

\* No address outside the prefixes of the running configuration is ever
\* handed out or resolved, whatever the configuration was when the file was
\* saved.
THEOREM AddressSafety == Spec => []AddressesInPrefixes
<1>1. Init => Inside
  BY InitInside
<1>2. IInv /\ Inside /\ [Next]_vars => Inside'
  BY NextInside
<1>3. IInv /\ Inside => AddressesInPrefixes
  BY InsideSuffices DEF IInv, Inside
<1> QED
  BY <1>1, <1>2, <1>3, Invariance, PTL DEF Spec

\* However many savers there are and whenever the process dies or the disk
\* fills up: as long as no two of them are at the temporary file at the same
\* time, the file is absent or one complete save.
THEOREM SaveAtomic == Spec => AtomicSave
<1>1. Init => DiskOK
  BY InitDiskOK
<1>2. IInv /\ DiskOK /\ SaversApart /\ SaversApart' /\ [Next]_vars => DiskOK'
  BY NextDiskOK
<1>3. DiskOK => FileWellFormed
  BY DEF DiskOK
<1> QED
  BY <1>1, <1>2, <1>3, Invariance, PTL DEF Spec, AtomicSave
-----------------------------------------------------------------------------
(* Addresses that are picked but not yet in the IP table *)

\* What a query has picked is not the address of another record, and no
\* other query has picked it.
PickedBy(w) ==
    /\ pc[w] \in {"idle", "lock"} => newIPs[w] = <<>>
    /\ pc[w] \notin {"host", "ip"} => rec[w] = 0
    /\ \A a \in Elements(newIPs[w]) :
          /\ ips[a] \in {0, rec[w]}
          /\ \A v \in Workers \ {w} : a \notin Elements(newIPs[v])

PickedFree == \A w \in Workers : PickedBy(w)

LEMMA ElementsFacts ==
    ASSUME NEW s \in Seq(Addrs)
    PROVE  /\ Elements(<<>>) = {}
           /\ \A a \in Addrs : Elements(Append(s, a)) = Elements(s) \cup {a}
           /\ s # <<>> => Head(s) \in Elements(s) /\ Elements(Tail(s)) \subseteq Elements(s)
<1>1. Elements(<<>>) = {}
  BY DEF Elements
<1>2. ASSUME NEW a \in Addrs PROVE Elements(Append(s, a)) = Elements(s) \cup {a}
  <2>1. /\ Len(Append(s, a)) = Len(s) + 1 /\ Append(s, a)[Len(s) + 1] = a
        /\ \A i \in 1 .. Len(s) : Append(s, a)[i] = s[i]
        /\ Len(s) \in Nat
    OBVIOUS
  <2>2. ASSUME NEW x \in Elements(Append(s, a)) PROVE x \in Elements(s) \cup {a}
    <3>1. PICK i \in 1 .. Len(s) + 1 : x = Append(s, a)[i]
      BY <2>1 DEF Elements
    <3>2. i \in 1 .. Len(s) \/ i = Len(s) + 1
      BY <2>1
    <3> QED
      BY <2>1, <3>1, <3>2 DEF Elements
  <2>3. ASSUME NEW x \in Elements(s) PROVE x \in Elements(Append(s, a))
    <3>1. PICK i \in 1 .. Len(s) : x = s[i]
      BY DEF Elements
    <3>2. i \in 1 .. Len(Append(s, a)) /\ x = Append(s, a)[i]
      BY <2>1, <3>1
    <3> QED
      BY <3>2 DEF Elements
  <2>4. a \in Elements(Append(s, a))
    <3>1. Len(s) + 1 \in 1 .. Len(Append(s, a))
      BY <2>1
    <3> QED
      BY <2>1, <3>1 DEF Elements
  <2> QED
    BY <2>2, <2>3, <2>4
<1>3. ASSUME s # <<>>
      PROVE  Head(s) \in Elements(s) /\ Elements(Tail(s)) \subseteq Elements(s)
  <2>1. 1 \in 1 .. Len(s) /\ Head(s) = s[1]
    BY <1>3
  <2>2. \A i \in 1 .. Len(Tail(s)) : i + 1 \in 1 .. Len(s) /\ Tail(s)[i] = s[i + 1]
    BY <1>3
  <2> QED
    BY <2>1, <2>2 DEF Elements
<1> QED
  BY <1>1, <1>2, <1>3

LEMMA InitPickedFree == Init => PickedFree
BY DEF Init, PickedFree, PickedBy, Elements

\* Steps that leave the queries alone and enter nothing into the IP table.
LEMMA PickedFreeKept ==
    ASSUME PickedFree, UNCHANGED <<pc, newIPs, rec>>,
           \A a \in Addrs : ips'[a] \in {ips[a], 0}, TypeOK
    PROVE  PickedFree'
<1>1. \A w \in Workers : Elements(newIPs[w]) \subseteq Addrs
  BY DEF TypeOK, Elements
<1> QED
  BY <1>1 DEF PickedFree, PickedBy

\* Every step keeps it, as long as no cursor comes round.
LEMMA NextPickedFree ==
    ASSUME IInv, PickedFree, [Next]_vars, NoWrapAround \/ UNCHANGED vars
    PROVE  PickedFree'
<1> USE DEF IInv, poolVars, cursorVars, workerVars, saveVars, cleanVars,
            diskVars, taskVars, queryVars
<1> DEFINE keeps == UNCHANGED <<pc, newIPs, rec>> /\ \A a \in Addrs : ips'[a] \in {ips[a], 0}
<1>0. keeps => PickedFree'
  BY PickedFreeKept
<1>1. ASSUME NEW w \in Workers, NEW d \in Domains, GetFakeIPMiss(w, d) PROVE PickedFree'
  BY <1>1 DEF GetFakeIPMiss, PickedFree, PickedBy, TypeOK
<1>2. ASSUME NEW w \in Workers, LockCursor(w) PROVE PickedFree'
  BY <1>2 DEF LockCursor, PickedFree, PickedBy, TypeOK
<1>3. ASSUME NEW w \in Workers, ProbeFree(w) PROVE PickedFree'
  <2> DEFINE b == Candidate(w)
  <2>1. b \in Addrs /\ ips[b] = 0 /\ pc[w] = "alloc"
    BY <1>3, CandidateInside, PrefixFacts DEF ProbeFree, Allocating, TypeOK, InPrefix
  <2>2. \A v \in Workers \ {w} : b \notin Elements(newIPs[v])
    <3>1. newIPs'[w] # newIPs[w]
      BY <1>3, <2>1 DEF ProbeFree, TypeOK
    <3> QED
      BY <1>3, <3>1 DEF NoWrapAround, vars
  <2>3. newIPs' = [newIPs EXCEPT ![w] = Append(newIPs[w], b)]
    BY <1>3 DEF ProbeFree
  <2> HIDE DEF b
  <2>4. newIPs'[w] = Append(newIPs[w], b) /\ Elements(newIPs'[w]) = Elements(newIPs[w]) \cup {b}
    BY <2>1, <2>3, ElementsFacts DEF TypeOK
  <2>5. \A v \in Workers \ {w} : newIPs'[v] = newIPs[v]
    BY <2>3 DEF TypeOK
  <2>6. UNCHANGED <<ips, pc, rec>>
    BY <1>3 DEF ProbeFree
  <2>7. PickedBy(w)'
    BY <2>1, <2>2, <2>4, <2>5, <2>6 DEF PickedFree, PickedBy
  <2>8. ASSUME NEW v \in Workers, v # w PROVE PickedBy(v)'
    <3>1. \A a \in Elements(newIPs[v]) : a \notin Elements(newIPs'[w])
      BY <2>2, <2>4, <2>8 DEF PickedFree, PickedBy
    <3> QED
      BY <2>5, <2>6, <2>8, <3>1 DEF PickedFree, PickedBy
  <2> QED
    BY <2>7, <2>8 DEF PickedFree
<1>4. ASSUME NEW w \in Workers, UnlockCursor(w) PROVE PickedFree'
  BY <1>4 DEF UnlockCursor, PickedFree, PickedBy, TypeOK
<1>5. ASSUME NEW w \in Workers, InsertHost(w) PROVE PickedFree'
  BY <1>5 DEF InsertHost, PickedFree, PickedBy, TypeOK
<1>6. ASSUME NEW w \in Workers, InsertIP(w) PROVE PickedFree'
  <2> DEFINE b == Head(newIPs[w])
  <2>1. b \in Elements(newIPs[w]) /\ Elements(Tail(newIPs[w])) \subseteq Elements(newIPs[w])
    BY <1>6, ElementsFacts DEF InsertIP, TypeOK
  <2>2. newIPs'[w] = Tail(newIPs[w]) /\ \A v \in Workers \ {w} : newIPs'[v] = newIPs[v]
    BY <1>6 DEF InsertIP, TypeOK
  <2>3. ips' = [ips EXCEPT ![b] = rec[w]] /\ UNCHANGED <<pc, rec>> /\ pc[w] = "ip"
    BY <1>6 DEF InsertIP
  <2>4. \A v \in Workers : Elements(newIPs[v]) \subseteq Addrs
    BY DEF TypeOK, Elements
  <2>5. \A a \in Addrs : ips'[a] = IF a = b THEN rec[w] ELSE ips[a]
    BY <2>3 DEF TypeOK
  <2> HIDE DEF b
  <2>6. PickedBy(w)'
    BY <2>1, <2>2, <2>3, <2>4, <2>5 DEF PickedFree, PickedBy
  <2>7. ASSUME NEW v \in Workers, v # w PROVE PickedBy(v)'
    <3>1. \A a \in Elements(newIPs[v]) : a # b /\ a \notin Elements(newIPs'[w])
      BY <2>1, <2>2, <2>7 DEF PickedFree, PickedBy
    <3> QED
      BY <2>2, <2>3, <2>4, <2>5, <2>7, <3>1 DEF PickedFree, PickedBy
  <2> QED
    BY <2>6, <2>7 DEF PickedFree
<1>7. ASSUME NEW w \in Workers, FinishGet(w) PROVE PickedFree'
  <2>1. newIPs[w] = <<>> /\ UNCHANGED <<ips, newIPs>>
    BY <1>7 DEF FinishGet
  <2>2. Elements(newIPs[w]) = {}
    BY <2>1, ElementsFacts DEF TypeOK
  <2>3. PickedBy(w)'
    BY <1>7, <2>1, <2>2 DEF FinishGet, PickedBy, TypeOK
  <2>4. ASSUME NEW v \in Workers, v # w PROVE PickedBy(v)'
    BY <1>7, <2>1, <2>4 DEF FinishGet, PickedFree, PickedBy, TypeOK
  <2> QED
    BY <2>3, <2>4 DEF PickedFree
<1>8. ASSUME NEW c \in Configs, NEW ord \in LoadOrders, Restart(c, ord) PROVE PickedFree'
  BY <1>8 DEF Restart, PickedFree, PickedBy, Elements
<1>9. ASSUME CleanIPShard PROVE PickedFree'
  BY <1>9, <1>0 DEF CleanIPShard
<1>10. ASSUME NEW t \in Tasks, ClearIPShard(t) PROVE PickedFree'
  BY <1>10, <1>0 DEF ClearIPShard
<1>11. ASSUME UNCHANGED <<ips, pc, newIPs, rec>> PROVE PickedFree'
  BY <1>11, <1>0
<1>12. \/ UNCHANGED <<ips, pc, newIPs, rec>>
       \/ CleanIPShard \/ \E t \in Tasks : ClearIPShard(t)
       \/ \E c \in Configs, ord \in LoadOrders : Restart(c, ord)
       \/ \E w \in Workers : \/ \E d \in Domains : GetFakeIPMiss(w, d)
                             \/ LockCursor(w) \/ ProbeFree(w) \/ UnlockCursor(w)
                             \/ InsertHost(w) \/ InsertIP(w) \/ FinishGet(w)
  BY Zenon DEF Next, GetFakeIP, CleanExpired, SaveToFileIfDirty, Clear, vars,
     GetFakeIPHit, ProbeTaken, LookUpAddr, Tick, StartClean, CleanHostShard, EndClean,
     SaveTick, SaveCheck, CopyShard, CopyCursors, ClearDirty, OpenTmp, WriteTmp,
     WriteError, RenameTmp, MarkDirty, StartClear, ClearHostShard, StartClose
<1> QED
  BY <1>1, <1>2, <1>3, <1>4, <1>5, <1>6, <1>7, <1>8, <1>9, <1>10, <1>11, <1>12

\* What a query has picked stays free as long as no cursor comes round.
LEMMA Picked == Spec /\ [][NoWrapAround]_vars => []PickedFree
<1>1. IInv /\ PickedFree /\ [Next]_vars /\ [NoWrapAround]_vars => PickedFree'
  BY NextPickedFree
<1> QED
  BY <1>1, InitPickedFree, Invariance, PTL DEF Spec

\* What can happen to the entry of an address that resolves.
EntryKept(a) ==
    ips[a] # 0 /\ ips'[a] # ips[a]
        => \/ bpc["background"] = "cleanIP" /\ Expired(ips[a], clNow)
           \/ \E t \in Tasks : bpc[t] = "clearIP"
           \/ \E c \in Configs, ord \in LoadOrders : Restart(c, ord)

\* No query takes over an address that resolves: only cleanExpired, Clear and
\* a restart remove or change an entry of the IP table, as long as no cursor
\* comes round to an address that is being inserted.
THEOREM NoTakeover == Spec /\ [][NoWrapAround]_vars => LookupStable
<1>1. IInv /\ PickedFree /\ [Next]_vars => [\A a \in Addrs : EntryKept(a)]_vars
  <2> SUFFICES ASSUME IInv, PickedFree, Next, NEW a \in Addrs, ips[a] # 0, ips'[a] # ips[a]
               PROVE  EntryKept(a)
    BY DEF EntryKept
  <2> USE DEF poolVars, cursorVars, workerVars, saveVars, cleanVars, diskVars, taskVars,
              queryVars
  <2>1. ASSUME NEW w \in Workers, InsertIP(w) PROVE FALSE
    <3>1. Head(newIPs[w]) \in Elements(newIPs[w])
      BY <2>1, ElementsFacts DEF IInv, InsertIP, TypeOK
    <3>2. ips' = [ips EXCEPT ![Head(newIPs[w])] = rec[w]]
      BY <2>1 DEF InsertIP
    <3>3. a = Head(newIPs[w]) /\ ips'[a] = rec[w]
      BY <3>2 DEF IInv, TypeOK
    <3> QED
      BY <3>1, <3>3 DEF PickedFree, PickedBy
  <2>2. CASE CleanIPShard
    BY <2>2 DEF CleanIPShard, ExpiredAddrs, EntryKept
  <2>3. ASSUME NEW t \in Tasks, ClearIPShard(t) PROVE EntryKept(a)
    BY <2>3 DEF ClearIPShard, EntryKept
  <2>4. CASE \E c \in Configs, ord \in LoadOrders : Restart(c, ord)
    BY <2>4 DEF EntryKept
  <2>5. \/ ips' = ips
        \/ \E w \in Workers : InsertIP(w)
        \/ CleanIPShard
        \/ \E t \in Tasks : ClearIPShard(t)
        \/ \E c \in Configs, ord \in LoadOrders : Restart(c, ord)
    BY Zenon DEF Next, GetFakeIP, CleanExpired, SaveToFileIfDirty, Clear, GetFakeIPHit,
       GetFakeIPMiss, LockCursor, ProbeTaken, ProbeFree, UnlockCursor, InsertHost,
       FinishGet, LookUpAddr, Tick, StartClean, CleanHostShard, EndClean, SaveTick,
       SaveCheck, CopyShard, CopyCursors, ClearDirty, OpenTmp, WriteTmp, WriteError,
       RenameTmp, MarkDirty, StartClear, ClearHostShard, StartClose
  <2> QED
    BY <2>1, <2>2, <2>3, <2>4, <2>5
<1>2. [][\A a \in Addrs : EntryKept(a)]_vars => LookupStable
  BY DEF LookupStable, EntryKept
<1> QED
  BY <1>1, <1>2, Picked, Invariance, PTL DEF Spec
-----------------------------------------------------------------------------
(* The name service *)

\* Which pairs a heap and a saved state have.
LEMMA HeapPairsMember ==
    ASSUME NEW h, NEW x
    PROVE  x \in HeapPairs(h) <=>
              \E p \in Ptrs : h[p] # None /\ \E a \in h[p].ips : x = <<a, h[p].domain>>
BY DEF HeapPairs

LEMMA FilePairsMember ==
    ASSUME NEW s, NEW x
    PROVE  x \in FilePairs(s) <=>
              \E d \in Domains : s.records[d] # None /\ \E a \in s.records[d].ips : x = <<a, d>>
BY DEF FilePairs

\* The records of the heap h are still there in the heap k.
HeapKept(h, k) ==
    \A q \in Ptrs : h[q] # None =>
        k[q] # None /\ k[q].domain = h[q].domain /\ k[q].ips = h[q].ips

LEMMA KeptPairs ==
    ASSUME NEW h, NEW k, HeapKept(h, k)
    PROVE  HeapPairs(h) \subseteq HeapPairs(k)
<1> SUFFICES ASSUME NEW x \in HeapPairs(h) PROVE x \in HeapPairs(k)
  OBVIOUS
<1>1. PICK p \in Ptrs : h[p] # None /\ \E a \in h[p].ips : x = <<a, h[p].domain>>
  BY HeapPairsMember
<1>2. k[p] # None /\ \E a \in k[p].ips : x = <<a, k[p].domain>>
  BY <1>1 DEF HeapKept
<1> QED
  BY <1>2, HeapPairsMember

\* An expiry time is all a refresh changes.
LEMMA RefreshedPairs ==
    ASSUME TypeOK, NEW p \in Ptrs, recs[p] # None,
           recs' = [recs EXCEPT ![p].expiresAt = now + TTL]
    PROVE  HeapKept(recs, recs') /\ HeapKept(recs', recs)
<1>1. HeapKept(recs, recs')
  BY Refreshed DEF HeapKept
<1>2. HeapKept(recs', recs)
  BY <1>1, RefreshedHeap DEF HeapKept
<1> QED
  BY <1>1, <1>2

\* All that a save has in hand was given out by this process: the pointers it
\* has copied, what it has encoded, and what it has written to savePath.tmp
\* since it opened it.  (What savePath.tmp held before is of another process.)
SavesGiven ==
    \A t \in Tasks :
        /\ \A d \in Domains : snap[t][d] # 0 => recs[snap[t][d]].domain = d
        /\ FilePairs(data[t]) \subseteq GivenPairs
        /\ bpc[t] \in {"write", "rename"} /\ Readable(tmp) => FilePairs(tmp) \subseteq GivenPairs

LEMMA NoDataPairs == FilePairs(NoData) = {}
<1> SUFFICES ASSUME NEW x \in FilePairs(NoData) PROVE FALSE
  OBVIOUS
<1>1. PICK d \in Domains : NoData.records[d] # None
  BY FilePairsMember
<1> QED
  BY <1>1 DEF NoData

LEMMA InitSavesGiven == Init => SavesGiven
<1> SUFFICES ASSUME Init, NEW t \in Tasks
             PROVE  /\ \A d \in Domains : snap[t][d] = 0
                    /\ FilePairs(data[t]) = {}
                    /\ bpc[t] = "idle"
  BY DEF SavesGiven
<1> QED
  BY NoDataPairs DEF Init, NoHosts

\* Steps that keep the records and leave the savers alone.
LEMMA SavesGivenKept ==
    ASSUME IInv, SavesGiven, HeapKept(recs, recs'), UNCHANGED <<snap, data, tmp>>,
           \A t \in Tasks : bpc'[t] \in {"write", "rename"} => bpc[t] \in {"write", "rename"}
    PROVE  SavesGiven'
<1>1. GivenPairs \subseteq GivenPairs'
  BY KeptPairs DEF GivenPairs
<1>2. ASSUME NEW t \in Tasks, NEW d \in Domains, snap[t][d] # 0
      PROVE  recs'[snap[t][d]].domain = d
  <2>1. snap[t][d] \in Ptrs
    BY <1>2 DEF IInv, TypeOK
  <2>2. recs[snap[t][d]] # None /\ recs[snap[t][d]].domain = d
    BY <1>2 DEF IInv, CopiesOK, SavesGiven
  <2> QED
    BY <2>1, <2>2 DEF HeapKept
<1>3. \A t \in Tasks : FilePairs(data'[t]) \subseteq GivenPairs'
  BY <1>1 DEF SavesGiven
<1>4. ASSUME NEW t \in Tasks, bpc'[t] \in {"write", "rename"}, Readable(tmp')
      PROVE  FilePairs(tmp') \subseteq GivenPairs'
  BY <1>1, <1>4 DEF SavesGiven
<1> QED
  BY <1>2, <1>3, <1>4 DEF SavesGiven

\* What a save encodes: the records of the pointers it has copied.
LEMMA EncodedPairs ==
    ASSUME IInv, SavesGiven, NEW t \in Tasks, CopyCursors(t)
    PROVE  FilePairs(data'[t]) \subseteq GivenPairs
<1> SUFFICES ASSUME NEW x \in FilePairs(data'[t]) PROVE x \in GivenPairs
  OBVIOUS
<1>1. data'[t].records = [d \in Domains |-> Saved(snap[t][d])]
  BY DEF CopyCursors, IInv, TypeOK
<1>2. PICK d \in Domains :
          data'[t].records[d] # None /\ \E a \in data'[t].records[d].ips : x = <<a, d>>
  BY FilePairsMember
<1> DEFINE p == snap[t][d]
<1>3. data'[t].records[d] = Saved(p)
  BY <1>1
<1>4. p # 0 /\ p \in Ptrs
  BY <1>2, <1>3 DEF Saved, IInv, TypeOK
<1>5. recs[p] # None /\ recs[p].domain = d
  BY <1>4 DEF IInv, CopiesOK, SavesGiven
<1>6. data'[t].records[d].ips = recs[p].ips
  BY <1>3, <1>4 DEF Saved
<1> QED
  BY <1>2, <1>4, <1>5, <1>6, HeapPairsMember DEF GivenPairs

LEMMA NextSavesGiven ==
    ASSUME IInv, SavesGiven, [Next]_vars
    PROVE  SavesGiven'
<1> USE DEF poolVars, cursorVars, workerVars, saveVars, cleanVars, diskVars, taskVars,
            queryVars
<1> DEFINE busy(b) == b \in {"write", "rename"}
           keeps == /\ UNCHANGED <<snap, data, tmp>>
                    /\ \A t \in Tasks : busy(bpc'[t]) => busy(bpc[t])
<1>0. recs' = recs => HeapKept(recs, recs') /\ GivenPairs' = GivenPairs
  BY DEF HeapKept, GivenPairs
<1>k. recs' = recs /\ keeps => SavesGiven'
  BY <1>0, SavesGivenKept
<1>1. ASSUME NEW w \in Workers, NEW d \in Domains, GetFakeIPHit(w, d) PROVE SavesGiven'
  <2>1. hosts[d] \in Ptrs /\ recs[hosts[d]] # None
    BY <1>1 DEF GetFakeIPHit, IInv, TypeOK, EntriesBacked
  <2> QED
    BY <1>1, <2>1, RefreshedPairs, SavesGivenKept DEF GetFakeIPHit, IInv
<1>2. ASSUME NEW a \in Addrs, LookUpAddr(a) PROVE SavesGiven'
  <2>1. ips[a] \in Ptrs /\ recs[ips[a]] # None
    BY <1>2 DEF LookUpAddr, IInv, TypeOK, EntriesBacked
  <2> QED
    BY <1>2, <2>1, RefreshedPairs, SavesGivenKept DEF LookUpAddr, IInv
<1>3. ASSUME NEW w \in Workers, UnlockCursor(w) PROVE SavesGiven'
  <2>1. HeapKept(recs, recs')
    BY <1>3 DEF UnlockCursor, HeapKept, IInv, TypeOK
  <2> QED
    BY <1>3, <2>1, SavesGivenKept DEF UnlockCursor
<1>4. ASSUME NEW t \in Tasks, CopyShard(t) PROVE SavesGiven'
  <2>1. \A u \in Tasks, d \in Domains : snap'[u][d] \in {snap[u][d], hosts[d]}
    BY <1>4 DEF CopyShard, IInv, TypeOK
  <2>2. \A u \in Tasks, d \in Domains : snap'[u][d] # 0 => recs[snap'[u][d]].domain = d
    BY <2>1 DEF SavesGiven, IInv, EntriesBacked
  <2>3. \A u \in Tasks : busy(bpc'[u]) => busy(bpc[u])
    BY <1>4 DEF CopyShard, NextShard, IInv, TypeOK
  <2>4. UNCHANGED <<recs, data, tmp>>
    BY <1>4 DEF CopyShard
  <2> QED
    BY <1>0, <2>2, <2>3, <2>4 DEF SavesGiven
<1>5. ASSUME NEW t \in Tasks, CopyCursors(t) PROVE SavesGiven'
  <2>1. FilePairs(data'[t]) \subseteq GivenPairs
    BY <1>5, EncodedPairs
  <2>2. \A u \in Tasks : u # t => data'[u] = data[u]
    BY <1>5 DEF CopyCursors, IInv, TypeOK
  <2>3. \A u \in Tasks : FilePairs(data'[u]) \subseteq GivenPairs
    BY <2>1, <2>2 DEF SavesGiven
  <2>4. \A u \in Tasks, d \in Domains : snap'[u][d] # 0 => recs[snap'[u][d]].domain = d
    BY <1>5 DEF CopyCursors, NoHosts, SavesGiven, IInv, TypeOK
  <2>5. UNCHANGED <<recs, tmp>> /\ \A u \in Tasks : busy(bpc'[u]) => busy(bpc[u])
    BY <1>5 DEF CopyCursors, IInv, TypeOK
  <2> QED
    BY <1>0, <2>3, <2>4, <2>5 DEF SavesGiven
<1>6. ASSUME NEW t \in Tasks, OpenTmp(t) PROVE SavesGiven'
  <2>1. UNCHANGED <<recs, snap, data>> /\ ~Readable(tmp')
    BY <1>6 DEF OpenTmp, Readable
  <2> QED
    BY <1>0, <2>1 DEF SavesGiven
<1>7. ASSUME NEW t \in Tasks, WriteTmp(t) PROVE SavesGiven'
  <2>1. \A u \in Tasks : FilePairs(data'[u]) \subseteq GivenPairs
    BY <1>7, NoDataPairs DEF WriteTmp, SavesGiven, IInv, TypeOK
  <2>2. UNCHANGED <<recs, snap>>
    BY <1>7 DEF WriteTmp
  <2>3. ASSUME Readable(tmp') PROVE FilePairs(tmp') \subseteq GivenPairs
    <3>1. tmp' \in {tmp, data[t], Torn}
      BY <1>7 DEF WriteTmp, WriteOver
    <3>2. tmp' # Torn
      BY <2>3 DEF Readable
    <3> QED
      BY <1>7, <2>3, <3>1, <3>2 DEF WriteTmp, SavesGiven
  <2> QED
    BY <1>0, <2>1, <2>2, <2>3 DEF SavesGiven
<1>8. ASSUME NEW t \in Tasks, WriteError(t) PROVE SavesGiven'
  <2>1. \A u \in Tasks : FilePairs(data'[u]) \subseteq GivenPairs
    BY <1>8, NoDataPairs DEF WriteError, SavesGiven, IInv, TypeOK
  <2>2. UNCHANGED <<recs, snap>> /\ \A u \in Tasks : busy(bpc'[u]) => busy(bpc[u])
    BY <1>8 DEF WriteError, AfterSave, IInv, TypeOK
  <2>3. Readable(tmp') => tmp' = tmp
    BY <1>8 DEF WriteError, Readable
  <2> QED
    BY <1>0, <2>1, <2>2, <2>3 DEF SavesGiven
<1>9. ASSUME NEW t \in Tasks, RenameTmp(t) PROVE SavesGiven'
  <2>1. UNCHANGED <<recs, snap, data>> /\ \A u \in Tasks : busy(bpc'[u]) => busy(bpc[u])
    BY <1>9 DEF RenameTmp, AfterSave, IInv, TypeOK
  <2>2. Readable(tmp') => tmp' = tmp
    BY <1>9 DEF RenameTmp, Readable
  <2> QED
    BY <1>0, <2>1, <2>2 DEF SavesGiven
<1>10. ASSUME NEW c \in Configs, NEW ord \in LoadOrders, Restart(c, ord) PROVE SavesGiven'
  <2>1. ASSUME NEW t \in Tasks
        PROVE  /\ \A d \in Domains : snap'[t][d] = 0
               /\ FilePairs(data'[t]) = {}
               /\ bpc'[t] = "idle"
    BY <1>10, NoDataPairs DEF Restart, NoHosts
  <2> QED
    BY <2>1 DEF SavesGiven
<1>11. CASE UNCHANGED vars
  BY <1>11, <1>k DEF vars
<1>12. ASSUME NEW w \in Workers, NEW d \in Domains, GetFakeIPMiss(w, d) PROVE SavesGiven'
  BY <1>12, <1>k DEF GetFakeIPMiss
<1>13. ASSUME NEW w \in Workers, LockCursor(w) PROVE SavesGiven'
  BY <1>13, <1>k DEF LockCursor
<1>14. ASSUME NEW w \in Workers, ProbeTaken(w) \/ ProbeFree(w) PROVE SavesGiven'
  BY <1>14, <1>k DEF ProbeTaken, ProbeFree
<1>15. ASSUME NEW w \in Workers, InsertHost(w) \/ InsertIP(w) \/ FinishGet(w) PROVE SavesGiven'
  BY <1>15, <1>k DEF InsertHost, InsertIP, FinishGet
<1>16. CASE Tick
  BY <1>16, <1>k DEF Tick
<1>17. CASE CleanExpired
  BY <1>17, <1>k DEF CleanExpired, StartClean, CleanIPShard, CleanHostShard, EndClean,
     NextShard, IInv, TypeOK
<1>18. CASE SaveTick \/ StartClear \/ StartClose
  BY <1>18, <1>k DEF SaveTick, StartClear, StartClose, IInv, TypeOK
<1>19. ASSUME NEW t \in Tasks, SaveCheck(t) \/ ClearDirty(t) \/ MarkDirty(t) PROVE SavesGiven'
  BY <1>19, <1>k DEF SaveCheck, ClearDirty, MarkDirty, AfterSave, IInv, TypeOK
<1>20. ASSUME NEW t \in Tasks, ClearHostShard(t) \/ ClearIPShard(t) PROVE SavesGiven'
  BY <1>20, <1>k DEF ClearHostShard, ClearIPShard, NextShard, IInv, TypeOK
<1> QED
  BY <1>1, <1>2, <1>3, <1>4, <1>5, <1>6, <1>7, <1>8, <1>9, <1>10, <1>11, <1>12, <1>13,
     <1>14, <1>15, <1>16, <1>17, <1>18, <1>19, <1>20
  DEF Next, GetFakeIP, SaveToFileIfDirty, Clear

\* The records that a restart loads are among the saved ones.
LEMMA LoadedPairs ==
    ASSUME IInv, NEW c \in Configs, NEW ord \in LoadOrders, Restart(c, ord)
    PROVE  GivenPairs' \subseteq SavedPairs
<1> SUFFICES ASSUME NEW x \in HeapPairs(recs') PROVE x \in SavedPairs
  BY DEF GivenPairs
<1>1. PICK p \in Ptrs : recs'[p] # None /\ \E a \in recs'[p].ips : x = <<a, recs'[p].domain>>
  BY HeapPairsMember
<1>2. PICK d \in Domains : ord[d] = p /\ Restores(c, file, d)
  BY <1>1 DEF Restart, LoadedRecs
<1>3. recs'[p].domain = d /\ recs'[p].ips = ValidIPs(c, file.records[d].ips)
  BY <1>2, RestoredRecord DEF Restart, IInv
<1>4. Readable(file) /\ file.records[d] # None
  BY <1>2 DEF Restores
<1>5. \E a \in file.records[d].ips : x = <<a, d>>
  BY <1>1, <1>3 DEF ValidIPs
<1> QED
  BY <1>4, <1>5, FilePairsMember DEF SavedPairs

\* After a step every owner is a domain.
LEMMA OwnerTyped ==
    ASSUME IInv'
    PROVE  OwnerOf' \in [Addrs -> Domains \cup {None}]
<1>1. ASSUME NEW a \in Addrs, ips'[a] # 0 PROVE recs'[ips'[a]].domain \in Domains
  <2>1. recs'[ips'[a]] \in Record
    BY <1>1 DEF IInv, TypeOK, EntriesBacked
  <2> QED
    BY <2>1 DEF Record
<1> QED
  BY <1>1 DEF OwnerOf

\* As long as the records of the heap stay, an address whose entry stays
\* keeps its owner.
LEMMA OwnerKept ==
    ASSUME IInv, HeapKept(recs, recs'), NEW a \in Addrs, ips'[a] = ips[a]
    PROVE  OwnerOf'[a] = OwnerOf[a]
<1>1. CASE ips[a] = 0
  BY <1>1 DEF OwnerOf
<1>2. CASE ips[a] # 0
  <2>1. ips[a] \in Ptrs /\ recs[ips[a]] # None
    BY <1>2 DEF IInv, TypeOK, EntriesBacked
  <2>2. recs'[ips[a]].domain = recs[ips[a]].domain
    BY <2>1 DEF HeapKept
  <2> QED
    BY <1>2, <2>2 DEF OwnerOf
<1> QED
  BY <1>1, <1>2

LEMMA OwnersKept ==
    ASSUME IInv, HeapKept(recs, recs'), ips' = ips
    PROVE  OwnerOf' = OwnerOf
<1>1. \A a \in Addrs : OwnerOf'[a] = OwnerOf[a]
  BY OwnerKept
<1> QED
  BY <1>1 DEF OwnerOf

\* UnlockCursor gives the domain the addresses that were picked for it.
LEMMA UnlockGives ==
    ASSUME IInv, PickedFree, NEW w \in Workers, UnlockCursor(w)
    PROVE  Names!Next
<1> USE DEF taskVars, diskVars
<1> DEFINE S == Elements(newIPs[w])
           d == dom[w]
<1>1. d \in Domains /\ pc[w] = "alloc" /\ S \subseteq Addrs
  BY DEF UnlockCursor, IInv, QueriesOK, TypeOK, Elements
<1>2. \A a \in S : ips[a] = 0
  BY <1>1 DEF PickedFree, PickedBy
<1>3. S \in SUBSET {a \in Addrs : OwnerOf[a] = None}
  BY <1>1, <1>2 DEF OwnerOf
<1> HIDE DEF S, d
<1>4. PICK p \in Ptrs :
          /\ recs[p] = None
          /\ recs' = [recs EXCEPT ![p] = [domain    |-> d,
                                          ips       |-> S,
                                          expiresAt |-> now + TTL]]
  BY DEF UnlockCursor, S, d
<1>5. recs'[p].domain = d /\ recs'[p].ips = S /\ \A q \in Ptrs : q # p => recs'[q] = recs[q]
  BY <1>4 DEF IInv, TypeOK
<1>6. recs'[p] # None
  <2>1. recs'[p] \in Record
    <3>1. recs'[p] = [domain |-> d, ips |-> S, expiresAt |-> now + TTL]
      BY <1>4 DEF IInv, TypeOK
    <3>2. now + TTL \in Time
      BY TimeAssumption DEF IInv, TypeOK, Time
    <3> QED
      BY <1>1, <3>1, <3>2 DEF Record
  <2> QED
    BY <2>1, NoneAssumption
<1>7. GivenPairs' = GivenPairs \cup (S \X {d})
  <2>1. ASSUME NEW x \in HeapPairs(recs') PROVE x \in HeapPairs(recs) \cup (S \X {d})
    <3>1. PICK q \in Ptrs : recs'[q] # None /\ \E a \in recs'[q].ips : x = <<a, recs'[q].domain>>
      BY HeapPairsMember
    <3>2. CASE q = p
      BY <1>5, <3>1, <3>2
    <3>3. CASE q # p
      BY <1>5, <3>1, <3>3, HeapPairsMember
    <3> QED
      BY <3>2, <3>3
  <2>2. ASSUME NEW x \in HeapPairs(recs) PROVE x \in HeapPairs(recs')
    <3>1. PICK q \in Ptrs : recs[q] # None /\ \E a \in recs[q].ips : x = <<a, recs[q].domain>>
      BY HeapPairsMember
    <3>2. recs'[q] = recs[q]
      BY <1>4, <1>5, <3>1
    <3> QED
      BY <3>1, <3>2, HeapPairsMember
  <2>3. ASSUME NEW x \in S \X {d} PROVE x \in HeapPairs(recs')
    <3>1. \E a \in recs'[p].ips : x = <<a, recs'[p].domain>>
      BY <1>5
    <3> QED
      BY <1>6, <3>1, HeapPairsMember
  <2> QED
    BY <2>1, <2>2, <2>3 DEF GivenPairs
<1>8. HeapKept(recs, recs')
  BY <1>4, <1>5 DEF HeapKept
<1>9. OwnerOf' = OwnerOf
  BY <1>8, OwnersKept DEF UnlockCursor
<1>10. SavedPairs' = SavedPairs
  BY DEF UnlockCursor, SavedPairs
<1>11. Names!Give(d)
  BY <1>3, <1>7, <1>9, <1>10 DEF Names!Give
<1> QED
  BY <1>1, <1>11 DEF Names!Next

\* InsertIP binds an address to the domain it was given out for.
LEMMA InsertBinds ==
    ASSUME IInv, PickedFree, NEW w \in Workers, InsertIP(w)
    PROVE  Names!Next \/ UNCHANGED Names!vars
<1> USE DEF taskVars, diskVars
<1> DEFINE b == Head(newIPs[w])
           d == dom[w]
<1>1. newIPs[w] \in Seq(Addrs) /\ newIPs[w] # <<>> /\ pc[w] = "ip"
  BY DEF InsertIP, IInv, TypeOK
<1>2. b \in Addrs /\ b \in Elements(newIPs[w]) /\ 1 \in 1 .. Len(newIPs[w]) /\ b = newIPs[w][1]
  BY <1>1, ElementsFacts
<1>3. /\ d \in Domains /\ rec[w] \in Ptrs /\ recs[rec[w]] # None
      /\ recs[rec[w]].domain = d /\ b \in recs[rec[w]].ips
  BY <1>1, <1>2 DEF IInv, QueriesOK
<1>4. ips' = [ips EXCEPT ![b] = rec[w]] /\ UNCHANGED <<recs, file>>
  BY DEF InsertIP
<1>5. ips[b] \in {0, rec[w]}
  BY <1>2 DEF PickedFree, PickedBy
<1> HIDE DEF b, d
<1>6. GivenPairs' = GivenPairs /\ SavedPairs' = SavedPairs /\ HeapKept(recs, recs')
  BY <1>4 DEF GivenPairs, SavedPairs, HeapKept
<1>7. CASE ips[b] = rec[w]
  <2>1. ips' = ips
    BY <1>4, <1>7 DEF IInv, TypeOK
  <2> QED
    BY <1>6, <2>1, OwnersKept DEF Names!vars
<1>8. CASE ips[b] = 0
  <2>1. ips'[b] = rec[w] /\ rec[w] # 0 /\ \A a \in Addrs : a # b => ips'[a] = ips[a]
    BY <1>2, <1>3, <1>4 DEF IInv, TypeOK, Ptrs
  <2>2. OwnerOf'[b] = d /\ OwnerOf[b] = None
    BY <1>2, <1>3, <1>4, <1>8, <2>1 DEF OwnerOf
  <2>3. \A a \in Addrs : a # b => OwnerOf'[a] = OwnerOf[a]
    BY <1>6, <2>1, OwnerKept
  <2>4. OwnerOf' = [OwnerOf EXCEPT ![b] = d]
    BY <2>2, <2>3 DEF OwnerOf
  <2>5. <<b, d>> \in GivenPairs
    BY <1>3, HeapPairsMember DEF GivenPairs
  <2>6. Names!Bind(b, d)
    BY <1>6, <2>2, <2>4, <2>5 DEF Names!Bind
  <2> QED
    BY <1>2, <1>3, <2>6 DEF Names!Next
<1> QED
  BY <1>5, <1>7, <1>8

\* Entries that are removed are forgotten.
LEMMA RemovalForgets ==
    ASSUME IInv, IInv', UNCHANGED <<recs, file>>, \A a \in Addrs : ips'[a] \in {ips[a], 0}
    PROVE  Names!Next
<1>1. GivenPairs' = GivenPairs /\ SavedPairs' = SavedPairs /\ HeapKept(recs, recs')
  BY DEF GivenPairs, SavedPairs, HeapKept
<1>2. ASSUME NEW a \in Addrs PROVE OwnerOf'[a] \in {OwnerOf[a], None}
  <2>1. CASE ips'[a] = 0
    BY <2>1 DEF OwnerOf
  <2>2. CASE ips'[a] = ips[a]
    BY <1>1, <2>2, OwnerKept
  <2> QED
    BY <2>1, <2>2
<1>3. OwnerOf' \in [Addrs -> Domains \cup {None}]
  BY OwnerTyped
<1>4. Names!Forget
  BY <1>1, <1>2, <1>3 DEF Names!Forget
<1> QED
  BY <1>4 DEF Names!Next

\* What is written to savePath was given out.
LEMMA WritingSaves ==
    ASSUME IInv, UNCHANGED <<recs, ips>>, SavedPairs' \subseteq GivenPairs
    PROVE  Names!Next
<1>1. GivenPairs' = GivenPairs /\ OwnerOf' = OwnerOf
  BY DEF GivenPairs, OwnerOf
<1>2. Names!Save
  BY <1>1 DEF Names!Save
<1> QED
  BY <1>2 DEF Names!Next

\* A restart brings back nothing that was not saved.
LEMMA RestartRestarts ==
    ASSUME IInv, IInv', NEW c \in Configs, NEW ord \in LoadOrders, Restart(c, ord)
    PROVE  Names!Next
<1>1. GivenPairs' \in SUBSET SavedPairs
  BY LoadedPairs
<1>2. SavedPairs' = SavedPairs
  BY DEF Restart, diskVars, SavedPairs
<1>3. OwnerOf' \in [Addrs -> Domains \cup {None}]
  BY OwnerTyped
<1>4. ASSUME NEW a \in Addrs, OwnerOf'[a] # None PROVE <<a, OwnerOf'[a]>> \in GivenPairs'
  <2>1. ips'[a] # 0 /\ OwnerOf'[a] = recs'[ips'[a]].domain
    BY <1>4 DEF OwnerOf
  <2>2. ips'[a] \in Ptrs /\ recs'[ips'[a]] # None /\ a \in recs'[ips'[a]].ips
    BY <2>1 DEF IInv, TypeOK, EntriesBacked
  <2> QED
    BY <2>1, <2>2, HeapPairsMember DEF GivenPairs
<1>5. Names!Restart
  BY <1>1, <1>2, <1>3, <1>4 DEF Names!Restart
<1> QED
  BY <1>5 DEF Names!Next

\* Every step of the pool is a step of the name service, or none.
LEMMA StepRefines ==
    ASSUME IInv, IInv', PickedFree, SavesGiven, [Next]_vars
    PROVE  [Names!Next]_Names!vars
<1> USE DEF poolVars, cursorVars, workerVars, saveVars, cleanVars, diskVars, taskVars,
            queryVars
<1>0. HeapKept(recs, recs') /\ HeapKept(recs', recs) /\ UNCHANGED <<ips, file>>
         => UNCHANGED Names!vars
  <2> SUFFICES ASSUME HeapKept(recs, recs'), HeapKept(recs', recs), UNCHANGED <<ips, file>>
               PROVE  UNCHANGED <<GivenPairs, OwnerOf, SavedPairs>>
    BY DEF Names!vars
  <2>1. GivenPairs' = GivenPairs
    BY KeptPairs DEF GivenPairs
  <2>2. OwnerOf' = OwnerOf
    BY OwnersKept
  <2>3. SavedPairs' = SavedPairs
    BY DEF SavedPairs
  <2> QED
    BY <2>1, <2>2, <2>3
<1>1. recs' = recs /\ UNCHANGED <<ips, file>> => UNCHANGED Names!vars
  BY <1>0 DEF HeapKept
<1>2. ASSUME NEW w \in Workers, NEW d \in Domains, GetFakeIPHit(w, d)
      PROVE  UNCHANGED Names!vars
  <2>1. hosts[d] \in Ptrs /\ recs[hosts[d]] # None
    BY <1>2 DEF GetFakeIPHit, IInv, TypeOK, EntriesBacked
  <2> QED
    BY <1>0, <1>2, <2>1, RefreshedPairs DEF GetFakeIPHit, IInv
<1>3. ASSUME NEW a \in Addrs, LookUpAddr(a) PROVE UNCHANGED Names!vars
  <2>1. ips[a] \in Ptrs /\ recs[ips[a]] # None
    BY <1>3 DEF LookUpAddr, IInv, TypeOK, EntriesBacked
  <2> QED
    BY <1>0, <1>3, <2>1, RefreshedPairs DEF LookUpAddr, IInv
<1>4. ASSUME NEW w \in Workers, UnlockCursor(w) PROVE Names!Next
  BY <1>4, UnlockGives
<1>5. ASSUME NEW w \in Workers, InsertIP(w) PROVE Names!Next \/ UNCHANGED Names!vars
  BY <1>5, InsertBinds
<1>6. CASE CleanIPShard
  BY <1>6, RemovalForgets DEF CleanIPShard
<1>7. ASSUME NEW t \in Tasks, ClearIPShard(t) PROVE Names!Next
  BY <1>7, RemovalForgets DEF ClearIPShard
<1>8. ASSUME NEW t \in Tasks, WriteTmp(t) PROVE Names!Next \/ UNCHANGED Names!vars
  <2>1. CASE file' = file
    BY <1>1, <1>8, <2>1 DEF WriteTmp
  <2>2. CASE file' # file
    <3>1. file' \in {data[t], Torn}
      BY <1>8, <2>2 DEF WriteTmp, WriteOver
    <3>2. SavedPairs' \subseteq GivenPairs
      BY <3>1 DEF SavedPairs, SavesGiven, Readable
    <3> QED
      BY <1>8, <3>2, WritingSaves DEF WriteTmp
  <2> QED
    BY <2>1, <2>2
<1>9. ASSUME NEW t \in Tasks, WriteError(t) PROVE Names!Next \/ UNCHANGED Names!vars
  <2>1. CASE file' = file
    BY <1>1, <1>9, <2>1 DEF WriteError
  <2>2. CASE file' # file
    <3>1. SavedPairs' = {}
      BY <1>9, <2>2 DEF WriteError, SavedPairs, Readable
    <3> QED
      BY <1>9, <3>1, WritingSaves DEF WriteError
  <2> QED
    BY <2>1, <2>2
<1>10. ASSUME NEW t \in Tasks, RenameTmp(t) PROVE Names!Next \/ UNCHANGED Names!vars
  <2>1. CASE tmp = None
    BY <1>1, <1>10, <2>1 DEF RenameTmp
  <2>2. CASE tmp # None
    <3>1. file' = tmp /\ bpc[t] = "rename"
      BY <1>10, <2>2 DEF RenameTmp
    <3>2. SavedPairs' \subseteq GivenPairs
      BY <3>1 DEF SavedPairs, SavesGiven
    <3> QED
      BY <1>10, <3>2, WritingSaves DEF RenameTmp
  <2> QED
    BY <2>1, <2>2
<1>11. ASSUME NEW c \in Configs, NEW ord \in LoadOrders, Restart(c, ord) PROVE Names!Next
  BY <1>11, RestartRestarts
<1>12. \/ UNCHANGED <<recs, ips, file>>
       \/ \E w \in Workers : \/ \E d \in Domains : GetFakeIPHit(w, d)
                             \/ UnlockCursor(w) \/ InsertIP(w)
       \/ \E a \in Addrs : LookUpAddr(a)
       \/ CleanIPShard
       \/ \E t \in Tasks : ClearIPShard(t) \/ WriteTmp(t) \/ WriteError(t) \/ RenameTmp(t)
       \/ \E c \in Configs, ord \in LoadOrders : Restart(c, ord)
  BY Zenon DEF Next, GetFakeIP, CleanExpired, SaveToFileIfDirty, Clear, vars,
     GetFakeIPMiss, LockCursor, ProbeTaken, ProbeFree, InsertHost, FinishGet, Tick,
     StartClean, CleanHostShard, EndClean, SaveTick, SaveCheck, CopyShard, CopyCursors,
     ClearDirty, OpenTmp, MarkDirty, StartClear, ClearHostShard, StartClose
<1> QED
  BY <1>1, <1>2, <1>3, <1>4, <1>5, <1>6, <1>7, <1>8, <1>9, <1>10, <1>11, <1>12

\* The first start has given out nothing.
LEMMA InitRefines == Init => Names!Init
<1> SUFFICES ASSUME Init PROVE Names!Init
  OBVIOUS
<1>1. GivenPairs = {}
  <2> SUFFICES ASSUME NEW x \in HeapPairs(recs) PROVE FALSE
    BY DEF GivenPairs
  <2>1. PICK p \in Ptrs : recs[p] # None
    BY HeapPairsMember
  <2> QED
    BY <2>1 DEF Init
<1>2. OwnerOf = [a \in Addrs |-> None]
  BY DEF Init, OwnerOf, NoIPs
<1>3. SavedPairs = {}
  BY DEF Init, SavedPairs, Readable
<1> QED
  BY <1>1, <1>2, <1>3 DEF Names!Init

\* The pool implements the name service, for any number of queries, savers
\* and restarts, as long as no cursor comes round to an address that is being
\* inserted: no address goes from one name to another without having been
\* free, none resolves that was not given out, and a start brings back no
\* pair that was not.
THEOREM PoolImplementsNames == Spec /\ [][NoWrapAround]_vars => ImplementsNameService
<1>1. IInv /\ SavesGiven /\ [Next]_vars => SavesGiven'
  BY NextSavesGiven
<1>2. Spec => []SavesGiven
  BY <1>1, InitSavesGiven, Invariance, PTL DEF Spec
<1>3. IInv /\ IInv' /\ PickedFree /\ SavesGiven /\ [Next]_vars => [Names!Next]_Names!vars
  BY StepRefines
<1> QED
  BY <1>2, <1>3, InitRefines, Picked, Invariance, PTL
  DEF Spec, ImplementsNameService, Names!Spec
-----------------------------------------------------------------------------
(* Answers, as long as nothing leaves the IP table *)

\* Every address of a record resolves to it or is about to be inserted.
Accounted ==
    \A p \in Ptrs : recs[p] # None =>
        \A a \in recs[p].ips :
            ips[a] = p \/ \E w \in Workers : rec[w] = p /\ a \in Elements(newIPs[w])

\* A record is published by one query, which enters it into the host table
\* before the IP table.
Publishing ==
    \A w \in Workers :
        /\ pc[w] = "host" => \A d \in Domains : hosts[d] # rec[w]
        /\ \A v \in Workers \ {w} : rec[w] # 0 => rec[v] # rec[w]

\* The records of a saved state share no address.
Apart(s) ==
    \A d, e \in Domains :
        d # e /\ s.records[d] # None /\ s.records[e] # None
            => \A a \in s.records[d].ips : a \notin s.records[e].ips

SavesApart ==
    /\ \A t \in Tasks : Apart(data[t])
    /\ Readable(tmp) => Apart(tmp)
    /\ Readable(file) => Apart(file)

AnswersInv == Accounted /\ Publishing /\ SavesApart

\* No two records of the heap share an address.
LEMMA HeapApart ==
    ASSUME IInv, PickedFree, Accounted, NEW p \in Ptrs, NEW q \in Ptrs, p # q,
           recs[p] # None, recs[q] # None, NEW a \in recs[p].ips
    PROVE  a \notin recs[q].ips
<1> SUFFICES ASSUME a \in recs[q].ips PROVE FALSE
  OBVIOUS
<1>1. ips[a] = p \/ \E w \in Workers : rec[w] = p /\ a \in Elements(newIPs[w])
  BY DEF Accounted
<1>2. ips[a] = q \/ \E w \in Workers : rec[w] = q /\ a \in Elements(newIPs[w])
  BY DEF Accounted
<1>3. p # 0 /\ q # 0
  BY DomainsAssumption DEF Ptrs
<1>4. ASSUME NEW w \in Workers, a \in Elements(newIPs[w]) PROVE ips[a] \in {0, rec[w]}
  BY <1>4 DEF PickedFree, PickedBy
<1>5. ASSUME NEW v \in Workers, NEW w \in Workers, v # w,
             a \in Elements(newIPs[v]), a \in Elements(newIPs[w])
      PROVE  FALSE
  BY <1>5 DEF PickedFree, PickedBy
<1> QED
  BY <1>1, <1>2, <1>3, <1>4, <1>5

LEMMA NoDataApart == Apart(NoData)
BY DEF Apart, NoData

LEMMA InitAnswersInv == Init => AnswersInv
<1> SUFFICES ASSUME Init PROVE AnswersInv
  OBVIOUS
<1>1. Accounted /\ Publishing
  BY DEF Init, Accounted, Publishing
<1>2. SavesApart
  BY NoDataApart DEF Init, SavesApart, Readable
<1> QED
  BY <1>1, <1>2 DEF AnswersInv
-----------------------------------------------------------------------------
\* What is encoded is apart as the heap is.
LEMMA EncodedApart ==
    ASSUME IInv, PickedFree, Accounted, SavesGiven, NEW t \in Tasks, CopyCursors(t)
    PROVE  Apart(data'[t])
<1> SUFFICES ASSUME NEW d \in Domains, NEW e \in Domains, d # e,
                    data'[t].records[d] # None, data'[t].records[e] # None,
                    NEW a \in data'[t].records[d].ips
             PROVE  a \notin data'[t].records[e].ips
  BY DEF Apart
<1>1. data'[t].records = [x \in Domains |-> Saved(snap[t][x])]
  BY DEF CopyCursors, IInv, TypeOK
<1>2. ASSUME NEW x \in Domains, data'[t].records[x] # None
      PROVE  /\ snap[t][x] \in Ptrs /\ recs[snap[t][x]] # None
             /\ recs[snap[t][x]].domain = x
             /\ data'[t].records[x].ips = recs[snap[t][x]].ips
  <2>1. data'[t].records[x] = Saved(snap[t][x])
    BY <1>1
  <2>2. snap[t][x] # 0 /\ snap[t][x] \in Ptrs
    BY <1>2, <2>1 DEF Saved, IInv, TypeOK
  <2>3. recs[snap[t][x]] # None /\ recs[snap[t][x]].domain = x
    BY <2>2 DEF IInv, CopiesOK, SavesGiven
  <2> QED
    BY <2>1, <2>2, <2>3 DEF Saved
<1>3. snap[t][d] # snap[t][e]
  BY <1>2
<1> QED
  BY <1>2, <1>3, HeapApart

LEMMA NextSavesApart ==
    ASSUME IInv, PickedFree, SavesGiven, AnswersInv, [Next]_vars
    PROVE  SavesApart'
<1> USE DEF poolVars, cursorVars, workerVars, saveVars, cleanVars, diskVars, taskVars,
            queryVars, AnswersInv
<1>1. ASSUME NEW t \in Tasks, CopyCursors(t) PROVE SavesApart'
  <2>1. Apart(data'[t]) /\ \A u \in Tasks : u # t => data'[u] = data[u]
    BY <1>1, EncodedApart DEF CopyCursors, IInv, TypeOK
  <2>2. UNCHANGED <<tmp, file>>
    BY <1>1 DEF CopyCursors
  <2> QED
    BY <2>1, <2>2 DEF SavesApart
<1>2. ASSUME NEW t \in Tasks, OpenTmp(t) PROVE SavesApart'
  <2>1. UNCHANGED <<data, file>> /\ ~Readable(tmp')
    BY <1>2 DEF OpenTmp, Readable
  <2> QED
    BY <2>1 DEF SavesApart
<1>3. ASSUME NEW t \in Tasks, WriteTmp(t) \/ WriteError(t) PROVE SavesApart'
  <2>1. \A u \in Tasks : data'[u] \in {data[u], NoData}
    BY <1>3 DEF WriteTmp, WriteError, IInv, TypeOK
  <2>2. tmp' \in {tmp, data[t], Torn} /\ file' \in {file, data[t], Torn}
    BY <1>3 DEF WriteTmp, WriteError, WriteOver
  <2>3. ~Readable(Torn)
    BY DEF Readable
  <2> QED
    BY <2>1, <2>2, <2>3, NoDataApart DEF SavesApart
<1>4. ASSUME NEW t \in Tasks, RenameTmp(t) PROVE SavesApart'
  <2>1. UNCHANGED data /\ tmp' \in {tmp, None} /\ file' \in {file, tmp}
    BY <1>4 DEF RenameTmp
  <2>2. ~Readable(None)
    BY DEF Readable
  <2> QED
    BY <2>1, <2>2 DEF SavesApart
<1>5. ASSUME NEW c \in Configs, NEW ord \in LoadOrders, Restart(c, ord) PROVE SavesApart'
  <2>1. UNCHANGED <<tmp, file>> /\ \A t \in Tasks : data'[t] = NoData
    BY <1>5 DEF Restart
  <2> QED
    BY <2>1, NoDataApart DEF SavesApart
<1>6. UNCHANGED <<data, tmp, file>> => SavesApart'
  BY DEF SavesApart
<1>7. \/ UNCHANGED <<data, tmp, file>>
      \/ \E t \in Tasks : \/ CopyCursors(t) \/ OpenTmp(t) \/ WriteTmp(t) \/ WriteError(t)
                          \/ RenameTmp(t)
      \/ \E c \in Configs, ord \in LoadOrders : Restart(c, ord)
  BY Zenon DEF Next, GetFakeIP, CleanExpired, SaveToFileIfDirty, Clear, vars, GetFakeIPHit,
     GetFakeIPMiss, LockCursor, ProbeTaken, ProbeFree, UnlockCursor, InsertHost, InsertIP,
     FinishGet, LookUpAddr, Tick, StartClean, CleanIPShard, CleanHostShard, EndClean,
     SaveTick, SaveCheck, CopyShard, ClearDirty, MarkDirty, StartClear, ClearHostShard,
     ClearIPShard, StartClose
<1> QED
  BY <1>1, <1>2, <1>3, <1>4, <1>5, <1>6, <1>7
-----------------------------------------------------------------------------
\* A record is entered into the host table by the query that has built it.
LEMMA NextPublishing ==
    ASSUME IInv, PickedFree, AnswersInv, [Next]_vars
    PROVE  Publishing'
<1> USE DEF poolVars, cursorVars, workerVars, saveVars, cleanVars, diskVars, taskVars,
            queryVars, AnswersInv
<1>1. ASSUME NEW w \in Workers, UnlockCursor(w) PROVE Publishing'
  <2>1. PICK p \in Ptrs : recs[p] = None /\ rec' = [rec EXCEPT ![w] = p]
    BY <1>1 DEF UnlockCursor
  <2>2. \A d \in Domains : hosts[d] # p
    <3>1. p # 0
      BY DomainsAssumption DEF Ptrs
    <3> QED
      BY <2>1, <3>1 DEF IInv, EntriesBacked
  <2>3. ASSUME NEW v \in Workers \ {w} PROVE rec[v] # p
    <3>1. CASE pc[v] \in {"host", "ip"}
      BY <2>1, <3>1 DEF IInv, QueriesOK
    <3>2. CASE pc[v] \notin {"host", "ip"}
      BY <2>1, <3>2, DomainsAssumption DEF PickedFree, PickedBy, Ptrs
    <3> QED
      BY <3>1, <3>2
  <2> QED
    <3>1. rec'[w] = p /\ \A v \in Workers \ {w} : rec'[v] = rec[v] /\ pc'[v] = pc[v]
      BY <1>1, <2>1 DEF UnlockCursor, IInv, TypeOK
    <3>2. hosts' = hosts
      BY <1>1 DEF UnlockCursor
    <3> QED
      BY <2>2, <2>3, <3>1, <3>2 DEF Publishing
<1>2. ASSUME NEW w \in Workers, InsertHost(w) PROVE Publishing'
  <2>1. rec[w] # 0
    BY <1>2, DomainsAssumption DEF InsertHost, IInv, QueriesOK, Ptrs
  <2> QED
    BY <1>2, <2>1 DEF InsertHost, Publishing, IInv, TypeOK
<1>3. ASSUME NEW w \in Workers, FinishGet(w) PROVE Publishing'
  BY <1>3 DEF FinishGet, Publishing, IInv, TypeOK
<1>4. ASSUME NEW w \in Workers, (\E d \in Domains : GetFakeIPMiss(w, d)) \/ LockCursor(w)
      PROVE  Publishing'
  BY <1>4 DEF GetFakeIPMiss, LockCursor, Publishing, IInv, TypeOK
<1>5. CASE CleanHostShard \/ \E t \in Tasks : ClearHostShard(t)
  <2>1. UNCHANGED <<pc, rec>> /\ \A d \in Domains : hosts'[d] \in {hosts[d], 0}
    BY <1>5 DEF CleanHostShard, ClearHostShard
  <2>2. \A w \in Workers : pc[w] = "host" => rec[w] # 0
    BY DomainsAssumption DEF IInv, QueriesOK, Ptrs
  <2> QED
    BY <2>1, <2>2 DEF Publishing
<1>6. ASSUME NEW c \in Configs, NEW ord \in LoadOrders, Restart(c, ord) PROVE Publishing'
  BY <1>6 DEF Restart, Publishing
<1>7. UNCHANGED <<hosts, pc, rec>> => Publishing'
  BY DEF Publishing
<1>8. \/ UNCHANGED <<hosts, pc, rec>>
      \/ \E w \in Workers : \/ \E d \in Domains : GetFakeIPMiss(w, d)
                            \/ LockCursor(w) \/ UnlockCursor(w) \/ InsertHost(w) \/ FinishGet(w)
      \/ CleanHostShard \/ \E t \in Tasks : ClearHostShard(t)
      \/ \E c \in Configs, ord \in LoadOrders : Restart(c, ord)
  BY Zenon DEF Next, GetFakeIP, CleanExpired, SaveToFileIfDirty, Clear, vars, GetFakeIPHit,
     ProbeTaken, ProbeFree, InsertIP, LookUpAddr, Tick, StartClean, CleanIPShard, EndClean,
     SaveTick, SaveCheck, CopyShard, CopyCursors, ClearDirty, OpenTmp, WriteTmp, WriteError,
     RenameTmp, MarkDirty, StartClear, ClearIPShard, StartClose
<1> QED
  BY <1>1, <1>2, <1>3, <1>4, <1>5, <1>6, <1>7, <1>8
-----------------------------------------------------------------------------
\* After a restart every address of a loaded record resolves to it.
LEMMA LoadedAccounted ==
    ASSUME IInv, SavesApart, NEW c \in Configs, NEW ord \in LoadOrders, Restart(c, ord)
    PROVE  Accounted'
<1> DEFINE loaded == LoadedRecs(c, file, ord)
<1>0. recs' = loaded /\ ips' = LoadedIPs(loaded)
  BY DEF Restart
<1>1. ASSUME NEW p \in Ptrs, loaded[p] # None
      PROVE  \E d \in Domains : /\ ord[d] = p /\ Readable(file) /\ file.records[d] # None
                                /\ loaded[p].ips \subseteq file.records[d].ips
  <2>1. PICK d \in Domains : ord[d] = p /\ Restores(c, file, d)
    BY <1>1 DEF LoadedRecs
  <2>2. loaded[p].ips = ValidIPs(c, file.records[d].ips)
    BY <2>1, RestoredRecord DEF IInv
  <2>3. Readable(file) /\ file.records[d] # None
    BY <2>1 DEF Restores
  <2> QED
    BY <2>1, <2>2, <2>3 DEF ValidIPs
<1>2. ASSUME NEW p \in Ptrs, NEW q \in Ptrs, loaded[p] # None, loaded[q] # None,
             NEW a \in loaded[p].ips, a \in loaded[q].ips
      PROVE  p = q
  <2>1. PICK d \in Domains : /\ ord[d] = p /\ Readable(file) /\ file.records[d] # None
                             /\ loaded[p].ips \subseteq file.records[d].ips
    BY <1>1, <1>2
  <2>2. PICK e \in Domains : /\ ord[e] = q /\ file.records[e] # None
                             /\ loaded[q].ips \subseteq file.records[e].ips
    BY <1>1, <1>2
  <2>3. d = e
    BY <1>2, <2>1, <2>2 DEF SavesApart, Apart
  <2> QED
    BY <2>1, <2>2, <2>3
<1> HIDE DEF loaded
<1>3. ASSUME NEW p \in Ptrs, loaded[p] # None, NEW a \in loaded[p].ips
      PROVE  ips'[a] = p
  <2>1. a \in Addrs
    <3>1. recs'[p] \in Record
      BY <1>0, <1>3, RestartIInv DEF IInv, TypeOK
    <3> QED
      BY <1>0, <3>1 DEF Record
  <2>2. LastHolders(loaded, a) = {p}
    <3>1. {q \in Ptrs : loaded[q] # None /\ a \in loaded[q].ips} = {p}
      BY <1>2, <1>3
    <3>2. p <= p
      BY DomainsAssumption DEF Ptrs
    <3> QED
      BY <3>1, <3>2 DEF LastHolders
  <2> QED
    BY <1>0, <2>1, <2>2 DEF LoadedIPs
<1> QED
  BY <1>0, <1>3 DEF Accounted

\* Records are accounted for as long as nothing leaves the IP table.
LEMMA NextAccounted ==
    ASSUME IInv, PickedFree, AnswersInv, [Next]_vars, NoRemoval \/ UNCHANGED vars
    PROVE  Accounted'
<1> USE DEF poolVars, cursorVars, workerVars, saveVars, cleanVars, diskVars, taskVars,
            queryVars, AnswersInv
<1>0. HeapKept(recs', recs) /\ UNCHANGED <<ips, rec, newIPs>> => Accounted'
  BY DEF HeapKept, Accounted
<1>1. UNCHANGED <<recs, ips, rec, newIPs>> => Accounted'
  BY DEF Accounted
<1>2. ASSUME NEW w \in Workers, NEW d \in Domains, GetFakeIPHit(w, d) PROVE Accounted'
  <2>1. hosts[d] \in Ptrs /\ recs[hosts[d]] # None
    BY <1>2 DEF GetFakeIPHit, IInv, TypeOK, EntriesBacked
  <2> QED
    BY <1>0, <1>2, <2>1, RefreshedPairs DEF GetFakeIPHit, IInv
<1>3. ASSUME NEW a \in Addrs, LookUpAddr(a) PROVE Accounted'
  <2>1. ips[a] \in Ptrs /\ recs[ips[a]] # None
    BY <1>3 DEF LookUpAddr, IInv, TypeOK, EntriesBacked
  <2> QED
    BY <1>0, <1>3, <2>1, RefreshedPairs DEF LookUpAddr, IInv
<1>4. ASSUME NEW w \in Workers, ProbeFree(w) PROVE Accounted'
  <2>1. rec[w] = 0 /\ UNCHANGED <<recs, ips, rec>>
    BY <1>4 DEF ProbeFree, Allocating, PickedFree, PickedBy
  <2>2. \A v \in Workers : v # w => newIPs'[v] = newIPs[v]
    BY <1>4 DEF ProbeFree, IInv, TypeOK
  <2>3. \A p \in Ptrs : p # 0
    BY DomainsAssumption DEF Ptrs
  <2> QED
    BY <2>1, <2>2, <2>3 DEF Accounted
<1>5. ASSUME NEW w \in Workers, UnlockCursor(w) PROVE Accounted'
  <2>1. PICK p \in Ptrs :
          /\ recs[p] = None
          /\ recs' = [recs EXCEPT ![p] = [domain    |-> dom[w],
                                          ips       |-> Elements(newIPs[w]),
                                          expiresAt |-> now + TTL]]
          /\ rec' = [rec EXCEPT ![w] = p]
    BY <1>5 DEF UnlockCursor
  <2>2. /\ recs'[p].ips = Elements(newIPs[w]) /\ rec'[w] = p
        /\ \A q \in Ptrs : q # p => recs'[q] = recs[q]
        /\ \A v \in Workers : v # w => rec'[v] = rec[v]
    BY <2>1 DEF IInv, TypeOK
  <2>3. rec[w] = 0 /\ UNCHANGED <<ips, newIPs>>
    BY <1>5 DEF UnlockCursor, PickedFree, PickedBy
  <2>4. \A q \in Ptrs : q # 0
    BY DomainsAssumption DEF Ptrs
  <2> QED
    BY <2>2, <2>3, <2>4 DEF Accounted
<1>6. ASSUME NEW w \in Workers, InsertIP(w) PROVE Accounted'
  <2> DEFINE b == Head(newIPs[w])
  <2>1. newIPs[w] \in Seq(Addrs) /\ newIPs[w] # <<>> /\ b \in Addrs
    BY <1>6 DEF InsertIP, IInv, TypeOK
  <2>2. /\ newIPs'[w] = Tail(newIPs[w]) /\ UNCHANGED <<recs, rec>>
        /\ \A v \in Workers : v # w => newIPs'[v] = newIPs[v]
        /\ ips'[b] = rec[w] /\ \A a \in Addrs : a # b => ips'[a] = ips[a]
    BY <1>6, <2>1 DEF InsertIP, IInv, TypeOK
  <2>3. \A a \in Elements(newIPs[w]) : a = b \/ a \in Elements(Tail(newIPs[w]))
    <3> SUFFICES ASSUME NEW i \in 1 .. Len(newIPs[w]), i # 1
                 PROVE  newIPs[w][i] \in Elements(Tail(newIPs[w]))
      BY <2>1 DEF Elements
    <3>1. i - 1 \in 1 .. Len(Tail(newIPs[w])) /\ Tail(newIPs[w])[i - 1] = newIPs[w][i]
      BY <2>1
    <3> QED
      BY <3>1 DEF Elements
  <2>4. b \in Elements(newIPs[w])
    BY <2>1, ElementsFacts
  <2>5. ips[b] \in {0, rec[w]} /\ \A v \in Workers \ {w} : b \notin Elements(newIPs[v])
    BY <2>4 DEF PickedFree, PickedBy
  <2> HIDE DEF b
  <2> SUFFICES ASSUME NEW p \in Ptrs, recs[p] # None, NEW a \in recs[p].ips, ips'[a] # p
               PROVE  \E v \in Workers : rec[v] = p /\ a \in Elements(newIPs'[v])
    BY <2>2 DEF Accounted
  <2>6. a \in Addrs /\ p # 0
    <3>1. recs[p] \in Record
      BY DEF IInv, TypeOK
    <3> QED
      BY <3>1, DomainsAssumption DEF Record, Ptrs
  <2>7. ips[a] # p
    BY <2>2, <2>5, <2>6
  <2>8. PICK v \in Workers : rec[v] = p /\ a \in Elements(newIPs[v])
    BY <2>7 DEF Accounted
  <2>9. CASE v = w
    <3>1. a # b
      BY <2>2, <2>8, <2>9
    <3> QED
      BY <2>2, <2>3, <2>8, <2>9, <3>1
  <2>10. CASE v # w
    BY <2>2, <2>8, <2>10
  <2> QED
    BY <2>9, <2>10
<1>7. ASSUME NEW w \in Workers, FinishGet(w) PROVE Accounted'
  <2>1. Elements(newIPs[w]) = {} /\ UNCHANGED <<recs, ips, newIPs>>
    BY <1>7, ElementsFacts DEF FinishGet, IInv, TypeOK
  <2>2. \A v \in Workers : v # w => rec'[v] = rec[v]
    BY <1>7 DEF FinishGet, IInv, TypeOK
  <2> QED
    BY <2>1, <2>2 DEF Accounted
<1>8. CASE CleanIPShard
  <2>1. CASE UNCHANGED vars
    BY <1>1, <2>1 DEF vars
  <2>2. CASE NoRemoval
    <3>1. ips' = [a \in Addrs |-> ips[a]]
      BY <1>8, <2>2 DEF NoRemoval, CleanIPShard
    <3>2. ips' = ips
      BY <3>1 DEF IInv, TypeOK
    <3> QED
      BY <1>1, <1>8, <3>2 DEF CleanIPShard
  <2> QED
    BY <2>1, <2>2
<1>9. ASSUME NEW t \in Tasks, ClearIPShard(t) PROVE Accounted'
  BY <1>1, <1>9 DEF NoRemoval, vars
<1>10. ASSUME NEW c \in Configs, NEW ord \in LoadOrders, Restart(c, ord) PROVE Accounted'
  BY <1>10, LoadedAccounted
<1>11. \/ UNCHANGED <<recs, ips, rec, newIPs>>
       \/ \E w \in Workers : \/ \E d \in Domains : GetFakeIPHit(w, d)
                             \/ ProbeFree(w) \/ UnlockCursor(w) \/ InsertIP(w) \/ FinishGet(w)
       \/ \E a \in Addrs : LookUpAddr(a)
       \/ CleanIPShard \/ \E t \in Tasks : ClearIPShard(t)
       \/ \E c \in Configs, ord \in LoadOrders : Restart(c, ord)
  BY Zenon DEF Next, GetFakeIP, CleanExpired, SaveToFileIfDirty, Clear, vars,
     GetFakeIPMiss, LockCursor, ProbeTaken, InsertHost, Tick, StartClean, CleanHostShard,
     EndClean, SaveTick, SaveCheck, CopyShard, CopyCursors, ClearDirty, OpenTmp, WriteTmp,
     WriteError, RenameTmp, MarkDirty, StartClear, ClearHostShard, StartClose
<1> QED
  BY <1>1, <1>2, <1>3, <1>4, <1>5, <1>6, <1>7, <1>8, <1>9, <1>10, <1>11

LEMMA AnswersInvariance ==
    Spec /\ [][NoWrapAround]_vars /\ [][NoRemoval]_vars
        => [](IInv /\ PickedFree /\ AnswersInv)
<1>1. IInv /\ SavesGiven /\ [Next]_vars => SavesGiven'
  BY NextSavesGiven
<1>2. Spec => []SavesGiven
  BY <1>1, InitSavesGiven, Invariance, PTL DEF Spec
<1>3. IInv /\ PickedFree /\ SavesGiven /\ AnswersInv /\ [Next]_vars /\ [NoRemoval]_vars
         => AnswersInv'
  BY NextAccounted, NextPublishing, NextSavesApart DEF AnswersInv
<1> QED
  BY <1>2, <1>3, InitAnswersInv, Picked, Invariance, PTL DEF Spec

\* Two domains are never answered with the same address, as long as no cursor
\* comes round and nothing leaves the IP table, whatever queries interleave
\* and however often the process is killed and started again.
THEOREM AddressesUnshared ==
    Spec /\ [][NoWrapAround]_vars /\ [][NoRemoval]_vars => []NoSharedAddress
<1>1. IInv /\ PickedFree /\ AnswersInv => NoSharedAddress
  <2> SUFFICES ASSUME IInv, PickedFree, AnswersInv, NEW d \in Domains, NEW e \in Domains,
                      d # e, hosts[d] # 0, hosts[e] # 0, NEW a \in recs[hosts[d]].ips
               PROVE  a \notin recs[hosts[e]].ips
    BY DEF NoSharedAddress
  <2>1. /\ hosts[d] \in Ptrs /\ recs[hosts[d]] # None /\ recs[hosts[d]].domain = d
        /\ hosts[e] \in Ptrs /\ recs[hosts[e]] # None /\ recs[hosts[e]].domain = e
    BY DEF IInv, TypeOK, EntriesBacked
  <2>2. hosts[d] # hosts[e]
    BY <2>1
  <2> QED
    BY <2>1, <2>2, HeapApart DEF AnswersInv
<1> QED
  BY <1>1, AnswersInvariance, PTL

\* Under the same conditions every address that the DNS server answers is
\* turned back into its domain, from the moment the query has inserted it.
THEOREM AnswersTurnBack ==
    Spec /\ [][NoWrapAround]_vars /\ [][NoRemoval]_vars => []AnswersResolve
<1>1. IInv /\ PickedFree /\ AnswersInv => AnswersResolve
  <2> SUFFICES ASSUME IInv, PickedFree, AnswersInv, NEW d \in Domains, hosts[d] # 0,
                      ~Inserting(hosts[d]), NEW a \in recs[hosts[d]].ips
               PROVE  ips[a] # 0 /\ recs[ips[a]].domain = d
    BY DEF AnswersResolve
  <2>1. hosts[d] \in Ptrs /\ recs[hosts[d]] # None /\ recs[hosts[d]].domain = d
    BY DEF IInv, TypeOK, EntriesBacked
  <2>2. ASSUME NEW w \in Workers, rec[w] = hosts[d] PROVE FALSE
    <3>1. pc[w] \in {"host", "ip"}
      BY <2>2 DEF PickedFree, PickedBy
    <3> QED
      BY <2>2, <3>1 DEF AnswersInv, Publishing, Inserting
  <2>3. ips[a] = hosts[d]
    BY <2>1, <2>2 DEF AnswersInv, Accounted
  <2> QED
    BY <2>1, <2>3
<1> QED
  BY <1>1, AnswersInvariance, PTL
-----------------------------------------------------------------------------
(* Prefixes that are large enough *)

\* A start has at most k prefixes, no two of them overlap, and each has more
\* addresses than k for every record that the process may allocate.
RoomFor(k) ==
    \A c \in Configs :
        /\ Len(c.prefixes) <= k
        /\ \A i, j \in 1 .. Len(c.prefixes) :
              i # j => \A a \in Addrs : ~ (InPrefix(c.prefixes[i], a) /\ InPrefix(c.prefixes[j], a))
        /\ \A i \in 1 .. Len(c.prefixes) :
              c.prefixes[i].hi - c.prefixes[i].addr > k * MaxRecs

LargePrefixes == \E k \in Nat : RoomFor(k)

\* The number of prefixes, and hence of the addresses of a record.
MostPrefixes == CHOOSE k \in Nat : RoomFor(k)

LEMMA EnoughRoom == LargePrefixes => MostPrefixes \in Nat /\ RoomFor(MostPrefixes)
BY DEF LargePrefixes, MostPrefixes

\* A set of no more than MostPrefixes addresses.
Small(S) == \E f : S \subseteq {f[k] : k \in 1 .. MostPrefixes}

\* Addresses that a record or a query has; none is given back before a restart.
Held ==
    {a \in Addrs : \/ \E p \in Ptrs : recs[p] # None /\ a \in recs[p].ips
                   \/ \E v \in Workers : a \in Elements(newIPs[v])}

\* Since the cursor of prefix p was at address a it has come to cur, perhaps
\* past the end, and all addresses in between are in H.  (An address before
\* that of the prefix is met once, after a restart, and never again.)
PassedAt(p, cur, a, H) ==
    \/ a < p.addr /\ a <= cur
    \/ p.addr < a /\ a <= cur /\ \A b \in p.lo .. p.hi : a <= b /\ b <= cur => b \in H
    \/ /\ p.addr < cur /\ cur < a
       /\ \A b \in p.lo .. p.hi : (p.addr < b /\ b <= cur) \/ a <= b => b \in H

\* The next address of the cursor.
LEMMA NextFacts ==
    ASSUME NEW c \in Configs, NEW i \in 1 .. Len(c.prefixes),
           NEW cur, InPrefix(c.prefixes[i], cur)
    PROVE  LET p == c.prefixes[i]
               n == NextInPrefix(p, cur)
           IN  /\ p.lo \in Nat /\ p.addr \in Nat /\ p.hi \in Nat /\ p.lo <= p.addr /\ p.addr < p.hi
               /\ cur \in Nat /\ p.lo <= cur /\ cur <= p.hi
               /\ n \in Nat /\ n \in p.lo .. p.hi /\ n # p.addr
               /\ \/ n = cur + 1
                  \/ n = cur + 2 /\ cur + 1 = p.addr
                  \/ n = p.addr + 1 /\ cur = p.hi
<1> DEFINE p == c.prefixes[i]
           n == NextInPrefix(p, cur)
<1>1. /\ p.lo \in Nat /\ p.addr \in Nat /\ p.hi \in Nat
      /\ p.lo <= p.addr /\ p.addr < p.hi
    BY PrefixFacts
<1>2. cur \in Nat /\ p.lo <= cur /\ cur <= p.hi
    BY <1>1 DEF InPrefix
<1>3. /\ n \in Nat /\ n \in p.lo .. p.hi /\ n # p.addr
      /\ \/ n = cur + 1
         \/ n = cur + 2 /\ cur + 1 = p.addr
         \/ n = p.addr + 1 /\ cur = p.hi
  <2>1. InPrefix(p, cur + 1) <=> cur + 1 <= p.hi
    BY <1>1, <1>2 DEF InPrefix
  <2>2. CASE cur + 1 <= p.hi
    <3>1. n = IF cur + 1 = p.addr THEN cur + 2 ELSE cur + 1
      BY <1>2, <2>1, <2>2 DEF NextInPrefix
    <3> QED
      BY <1>1, <1>2, <2>2, <3>1
  <2>3. CASE ~ (cur + 1 <= p.hi)
    <3>1. n = p.addr + 1
      BY <1>1, <2>1, <2>3 DEF NextInPrefix
    <3> QED
      BY <1>1, <1>2, <2>3, <3>1
  <2> QED
    BY <2>2, <2>3
<1> QED
    BY <1>1, <1>2, <1>3

\* The cursor goes on to an address that is held.
LEMMA PassedNext ==
    ASSUME NEW c \in Configs, NEW i \in 1 .. Len(c.prefixes),
           NEW cur, InPrefix(c.prefixes[i], cur), NEW a, InPrefix(c.prefixes[i], a),
           NEW H, NEW G, H \subseteq G, NextInPrefix(c.prefixes[i], cur) \in G,
           PassedAt(c.prefixes[i], cur, a, H)
    PROVE  PassedAt(c.prefixes[i], NextInPrefix(c.prefixes[i], cur), a, G)
<1> DEFINE p == c.prefixes[i]
           n == NextInPrefix(p, cur)
<1>1. /\ p.lo \in Nat /\ p.addr \in Nat /\ p.hi \in Nat /\ p.lo <= p.addr /\ p.addr < p.hi
      /\ cur \in Nat /\ p.lo <= cur /\ cur <= p.hi
      /\ n \in Nat /\ n # p.addr /\ n \in p.lo .. p.hi
      /\ \/ n = cur + 1
         \/ n = cur + 2 /\ cur + 1 = p.addr
         \/ n = p.addr + 1 /\ cur = p.hi
    BY NextFacts
<1>2. a \in Nat /\ p.lo <= a /\ a <= p.hi
    BY <1>1 DEF InPrefix
<1>3. n \in G /\ PassedAt(p, cur, a, H)
    OBVIOUS
<1> SUFFICES PassedAt(p, n, a, G)
    OBVIOUS
<1> HIDE DEF p, n
<1>4. CASE a < p.addr /\ a <= cur
    BY <1>1, <1>2, <1>4 DEF PassedAt
<1>5. CASE p.addr < a /\ a <= cur /\ \A b \in p.lo .. p.hi : a <= b /\ b <= cur => b \in H
    <2>1. CASE n = cur + 1
        <3>1. \A b \in p.lo .. p.hi : a <= b /\ b <= n => b \in G
            BY <1>1, <1>2, <1>3, <1>5, <2>1
        <3> QED
            BY <1>1, <1>2, <1>5, <2>1, <3>1 DEF PassedAt
    <2>2. CASE n = p.addr + 1 /\ cur = p.hi
        <3>1. \A b \in p.lo .. p.hi : (p.addr < b /\ b <= n) \/ a <= b => b \in G
            BY <1>1, <1>2, <1>3, <1>5, <2>2
        <3>2. \A b \in p.lo .. p.hi : a <= b /\ b <= n => b \in G
            BY <3>1
        <3>3. a <= n \/ n < a
            BY <1>1, <1>2
        <3> QED
            BY <1>1, <1>2, <1>5, <2>2, <3>1, <3>2, <3>3 DEF PassedAt
    <2> QED
        BY <1>1, <1>2, <1>5, <2>1, <2>2
<1>6. CASE /\ p.addr < cur /\ cur < a
           /\ \A b \in p.lo .. p.hi : (p.addr < b /\ b <= cur) \/ a <= b => b \in H
    <2>1. n = cur + 1
        BY <1>1, <1>2, <1>6
    <2>2. \A b \in p.lo .. p.hi : (p.addr < b /\ b <= n) \/ a <= b => b \in G
        BY <1>1, <1>2, <1>3, <1>6, <2>1
    <2>3. CASE n < a
        BY <1>1, <1>2, <1>6, <2>1, <2>2, <2>3 DEF PassedAt
    <2>4. CASE n = a
        BY <1>1, <1>2, <1>6, <2>2, <2>4 DEF PassedAt
    <2> QED
        BY <1>1, <1>2, <1>6, <2>1, <2>3, <2>4
<1> QED
    BY <1>3, <1>4, <1>5, <1>6 DEF PassedAt

\* An address that a query picks is where the cursor is.
LEMMA PickedPassed ==
    ASSUME NEW c \in Configs, NEW i \in 1 .. Len(c.prefixes),
           NEW cur, InPrefix(c.prefixes[i], cur), NEW G, NextInPrefix(c.prefixes[i], cur) \in G
    PROVE  PassedAt(c.prefixes[i], NextInPrefix(c.prefixes[i], cur),
                    NextInPrefix(c.prefixes[i], cur), G)
<1> DEFINE p == c.prefixes[i]
           n == NextInPrefix(p, cur)
<1>1. p.lo \in Nat /\ p.addr \in Nat /\ p.hi \in Nat /\ n \in Nat /\ n # p.addr /\ n \in G
    BY NextFacts
<1> HIDE DEF p, n
<1>2. \A b \in p.lo .. p.hi : n <= b /\ b <= n => b \in G
    BY <1>1
<1>3. PassedAt(p, n, n, G)
    BY <1>1, <1>2 DEF PassedAt
<1> QED
    BY <1>3 DEF p, n

\* If it comes to that address again it has seen the whole prefix.
LEMMA CameRound ==
    ASSUME NEW c \in Configs, NEW i \in 1 .. Len(c.prefixes),
           NEW cur, InPrefix(c.prefixes[i], cur), NEW H,
           PassedAt(c.prefixes[i], cur, NextInPrefix(c.prefixes[i], cur), H)
    PROVE  \A b \in c.prefixes[i].addr + 1 .. c.prefixes[i].hi : b \in H
<1> DEFINE p == c.prefixes[i]
           n == NextInPrefix(p, cur)
<1>1. /\ p.lo \in Nat /\ p.addr \in Nat /\ p.hi \in Nat /\ p.lo <= p.addr /\ p.addr < p.hi
      /\ cur \in Nat /\ p.lo <= cur /\ cur <= p.hi
      /\ n \in Nat /\ n # p.addr /\ n \in p.lo .. p.hi
      /\ \/ n = cur + 1
         \/ n = cur + 2 /\ cur + 1 = p.addr
         \/ n = p.addr + 1 /\ cur = p.hi
    BY NextFacts
<1>2. PassedAt(p, cur, n, H)
    OBVIOUS
<1> HIDE DEF p, n
<1>3. ASSUME NEW b \in p.addr + 1 .. p.hi PROVE b \in H
    <2>1. b \in p.lo .. p.hi /\ p.addr < b /\ b \in Nat
        BY <1>1
    <2>2. CASE n < p.addr /\ n <= cur
        BY <1>1, <2>2
    <2>3. CASE p.addr < n /\ n <= cur /\ \A x \in p.lo .. p.hi : n <= x /\ x <= cur => x \in H
        <3>1. n = p.addr + 1 /\ cur = p.hi
            BY <1>1, <2>3
        <3> QED
            BY <1>1, <2>1, <2>3, <3>1
    <2>4. CASE /\ p.addr < cur /\ cur < n
               /\ \A x \in p.lo .. p.hi : (p.addr < x /\ x <= cur) \/ n <= x => x \in H
        <3>1. n = cur + 1
            BY <1>1, <2>4
        <3>2. b <= cur \/ n <= b
            BY <1>1, <2>1, <3>1
        <3> QED
            BY <2>1, <2>4, <3>2
    <2> QED
        BY <1>2, <2>2, <2>3, <2>4 DEF PassedAt
<1> QED
    BY <1>3 DEF p

\* The records are too few to hold all addresses of a prefix.
LEMMA SomeLeft ==
    ASSUME LargePrefixes, TypeOK, NEW i \in 1 .. Len(conf.prefixes),
           \A p \in Ptrs : recs[p] # None => Small(recs[p].ips)
    PROVE  \E b \in conf.prefixes[i].addr + 1 .. conf.prefixes[i].hi :
              \A p \in Ptrs : recs[p] # None => b \notin recs[p].ips
<1> DEFINE lo == conf.prefixes[i].addr
           hi == conf.prefixes[i].hi
           m == MostPrefixes
           cells == Ptrs \X (1 .. m)
           list(p) == CHOOSE f : recs[p].ips \subseteq {f[k] : k \in 1 .. m}
           g == [x \in cells |-> list(x[1])[x[2]]]
           found == {g[x] : x \in cells}
<1>1. m \in Nat /\ hi - lo > m * MaxRecs /\ MaxRecs \in Nat /\ lo \in Nat /\ hi \in Nat /\ lo < hi
    BY EnoughRoom, PrefixFacts, DomainsAssumption DEF RoomFor, TypeOK
<1> SUFFICES ASSUME \A b \in lo + 1 .. hi : \E p \in Ptrs : recs[p] # None /\ b \in recs[p].ips
             PROVE  FALSE
    OBVIOUS
<1> HIDE DEF lo, hi, m
<1>2. lo + 1 .. hi \subseteq found
    <2> SUFFICES ASSUME NEW b \in lo + 1 .. hi PROVE b \in found
        OBVIOUS
    <2>1. PICK p \in Ptrs : recs[p] # None /\ b \in recs[p].ips
        OBVIOUS
    <2>2. recs[p].ips \subseteq {list(p)[k] : k \in 1 .. m}
        BY <2>1 DEF Small, m
    <2> HIDE DEF list
    <2>3. PICK k \in 1 .. m : b = list(p)[k]
        BY <2>1, <2>2
    <2>4. <<p, k>> \in cells /\ g[<<p, k>>] = b
        BY <2>3
    <2> QED
        BY <2>4
<1>3. IsFiniteSet(cells) /\ Cardinality(cells) = MaxRecs * m
    <2>1. IsFiniteSet(Ptrs) /\ Cardinality(Ptrs) = MaxRecs
        BY <1>1, FS_Interval DEF Ptrs
    <2>2. IsFiniteSet(1 .. m) /\ Cardinality(1 .. m) = m
        BY <1>1, FS_Interval
    <2> QED
        BY <2>1, <2>2, FS_Product
<1> HIDE DEF cells, list
<1>4. g \in Surjection(cells, found)
    BY DEF Surjection
<1>5. IsFiniteSet(found) /\ Cardinality(found) <= Cardinality(cells)
    BY <1>3, <1>4, FS_Surjection
<1> HIDE DEF found
<1>6. Cardinality(lo + 1 .. hi) <= Cardinality(found)
    BY <1>2, <1>5, FS_Subset
<1>7. Cardinality(lo + 1 .. hi) = hi - lo
    BY <1>1, FS_Interval
<1>8. Cardinality(found) \in Nat /\ m * MaxRecs = MaxRecs * m /\ m * MaxRecs \in Nat
    BY <1>1, <1>5, FS_CardinalityType
<1> QED
    BY <1>1, <1>3, <1>5, <1>6, <1>7, <1>8

\* A record has no more addresses than a start has prefixes, wherever it is.
SavedSmall(s) ==
    Readable(s) => \A d \in Domains : s.records[d] # None => Small(s.records[d].ips)

SizesOK ==
    /\ \A p \in Ptrs : recs[p] # None => Small(recs[p].ips)
    /\ \A t \in Tasks : SavedSmall(data[t])
    /\ SavedSmall(tmp) /\ SavedSmall(file)

LEMMA SmallParts == ASSUME NEW S, Small(S), NEW T, T \subseteq S PROVE Small(T)
BY DEF Small

LEMMA NoDataSmall == SavedSmall(NoData) /\ SavedSmall(None) /\ SavedSmall(Empty) /\ SavedSmall(Torn)
<1>1. SavedSmall(NoData)
    BY DEF SavedSmall, NoData
<1> QED
    BY <1>1 DEF SavedSmall, Readable

\* The addresses of a query are at most as many as the prefixes.
LEMMA QuerySmall ==
    ASSUME LargePrefixes, TypeOK, NEW s, Len(s) = Len(conf.prefixes)
    PROVE  Small(Elements(s))
<1>1. MostPrefixes \in Nat /\ Len(conf.prefixes) <= MostPrefixes /\ Len(conf.prefixes) \in Nat
    BY EnoughRoom, ConfigsAssumption DEF RoomFor, TypeOK
<1>2. \A i \in 1 .. Len(s) : i \in 1 .. MostPrefixes
    BY <1>1
<1>3. Elements(s) \subseteq {s[k] : k \in 1 .. MostPrefixes}
    BY <1>2 DEF Elements
<1> QED
    BY <1>3 DEF Small

LEMMA InitSizes == Init => SizesOK
BY NoDataSmall DEF Init, SizesOK

\* Steps that change the heap but for expiry times, a save or the disk.
LEMMA NextSizes ==
    ASSUME LargePrefixes, IInv, SizesOK, [Next]_vars
    PROVE  SizesOK'
<1> USE DEF IInv, poolVars, cursorVars, workerVars, saveVars, cleanVars, diskVars, taskVars,
            queryVars
<1>0. UNCHANGED <<recs, data, tmp, file>> => SizesOK'
    BY DEF SizesOK
<1>1. ASSUME NEW p \in Ptrs, recs[p] # None, recs' = [recs EXCEPT ![p].expiresAt = now + TTL],
             UNCHANGED <<data, tmp, file>>
      PROVE  SizesOK'
    BY <1>1, RefreshedHeap DEF SizesOK
<1>2. ASSUME NEW w \in Workers, NEW d \in Domains, GetFakeIPHit(w, d) PROVE SizesOK'
    BY <1>1, <1>2 DEF GetFakeIPHit, TypeOK, EntriesBacked
<1>3. ASSUME NEW a \in Addrs, LookUpAddr(a) PROVE SizesOK'
    BY <1>1, <1>3 DEF LookUpAddr, TypeOK, EntriesBacked
<1>4. ASSUME NEW w \in Workers, UnlockCursor(w) PROVE SizesOK'
    <2>1. PICK p \in Ptrs :
              recs' = [recs EXCEPT ![p] = [domain    |-> dom[w],
                                           ips       |-> Elements(newIPs[w]),
                                           expiresAt |-> now + TTL]]
        BY <1>4 DEF UnlockCursor
    <2>2. recs'[p].ips = Elements(newIPs[w]) /\ \A q \in Ptrs : q # p => recs'[q] = recs[q]
        BY <2>1 DEF TypeOK
    <2>3. Small(Elements(newIPs[w]))
        BY <1>4, QuerySmall DEF UnlockCursor
    <2>4. UNCHANGED <<data, tmp, file>>
        BY <1>4 DEF UnlockCursor
    <2>5. \A q \in Ptrs : recs'[q] # None => Small(recs'[q].ips)
        BY <2>2, <2>3 DEF SizesOK
    <2> QED
        BY <2>4, <2>5 DEF SizesOK
<1>5. ASSUME NEW t \in Tasks, CopyCursors(t) PROVE SizesOK'
    <2>1. /\ data'[t].records = [d \in Domains |-> Saved(snap[t][d])]
          /\ \A u \in Tasks : u # t => data'[u] = data[u]
        BY <1>5 DEF CopyCursors, TypeOK
    <2>2. ASSUME NEW d \in Domains, data'[t].records[d] # None
          PROVE  Small(data'[t].records[d].ips)
        <3>1. data'[t].records[d] = Saved(snap[t][d])
            BY <2>1
        <3>2. snap[t][d] # 0 /\ snap[t][d] \in Ptrs
            BY <2>2, <3>1 DEF Saved, TypeOK
        <3>3. recs[snap[t][d]] # None /\ data'[t].records[d].ips = recs[snap[t][d]].ips
            BY <3>1, <3>2 DEF Saved, CopiesOK
        <3> QED
            BY <3>2, <3>3 DEF SizesOK
    <2>3. \A u \in Tasks : SavedSmall(data'[u])
        BY <2>1, <2>2 DEF SizesOK, SavedSmall
    <2>4. UNCHANGED <<recs, tmp, file>>
        BY <1>5 DEF CopyCursors
    <2> QED
        BY <2>3, <2>4 DEF SizesOK
<1>6. ASSUME NEW t \in Tasks, OpenTmp(t) PROVE SizesOK'
    BY <1>6, NoDataSmall DEF OpenTmp, SizesOK
<1>7. ASSUME NEW t \in Tasks, WriteTmp(t) \/ WriteError(t) PROVE SizesOK'
    <2>1. \A u \in Tasks : SavedSmall(data'[u])
        BY <1>7, NoDataSmall DEF WriteTmp, WriteError, SizesOK, TypeOK
    <2>2. tmp' \in {tmp, data[t], Torn} /\ file' \in {file, data[t], Torn} /\ UNCHANGED recs
        BY <1>7 DEF WriteTmp, WriteError, WriteOver
    <2> QED
        BY <2>1, <2>2, NoDataSmall DEF SizesOK
<1>8. ASSUME NEW t \in Tasks, RenameTmp(t) PROVE SizesOK'
    <2>1. tmp' \in {tmp, None} /\ file' \in {file, tmp} /\ UNCHANGED <<recs, data>>
        BY <1>8 DEF RenameTmp
    <2> QED
        BY <2>1, NoDataSmall DEF SizesOK
<1>9. ASSUME NEW c \in Configs, NEW ord \in LoadOrders, Restart(c, ord) PROVE SizesOK'
    <2>1. UNCHANGED <<tmp, file>> /\ \A t \in Tasks : data'[t] = NoData
        BY <1>9 DEF Restart
    <2>2. ASSUME NEW p \in Ptrs, recs'[p] # None PROVE Small(recs'[p].ips)
        <3>1. PICK d \in Domains : ord[d] = p /\ Restores(c, file, d)
            BY <1>9, <2>2 DEF Restart, LoadedRecs
        <3>2. recs'[p].ips = ValidIPs(c, file.records[d].ips)
            BY <1>9, <3>1, RestoredRecord DEF Restart
        <3>3. Small(file.records[d].ips)
            BY <3>1 DEF Restores, SizesOK, SavedSmall
        <3> QED
            BY <3>2, <3>3, SmallParts DEF ValidIPs
    <2> QED
        BY <2>1, <2>2, NoDataSmall DEF SizesOK
<1>10. \/ UNCHANGED <<recs, data, tmp, file>>
       \/ \E w \in Workers : UnlockCursor(w) \/ \E d \in Domains : GetFakeIPHit(w, d)
       \/ \E a \in Addrs : LookUpAddr(a)
       \/ \E t \in Tasks : \/ CopyCursors(t) \/ OpenTmp(t) \/ WriteTmp(t) \/ WriteError(t)
                           \/ RenameTmp(t)
       \/ \E c \in Configs, ord \in LoadOrders : Restart(c, ord)
    BY Zenon DEF Next, GetFakeIP, CleanExpired, SaveToFileIfDirty, Clear, vars,
       GetFakeIPMiss, LockCursor, ProbeTaken, ProbeFree, InsertHost, InsertIP, FinishGet, Tick,
       StartClean, CleanIPShard, CleanHostShard, EndClean, SaveTick, SaveCheck, CopyShard,
       ClearDirty, MarkDirty, StartClear, ClearHostShard, ClearIPShard, StartClose
<1> QED
    BY <1>0, <1>2, <1>3, <1>4, <1>5, <1>6, <1>7, <1>8, <1>9, <1>10

\* Only the holder of cursorMu picks addresses, the j-th from prefix j.
PicksInOrder ==
    \A w \in Workers :
        /\ pc[w] \in {"idle", "lock"} => newIPs[w] = <<>>
        /\ pc[w] = "alloc" =>
              /\ cursorMu = w
              /\ \A j \in 1 .. Len(newIPs[w]) : /\ j \in 1 .. Len(conf.prefixes)
                                                /\ InPrefix(conf.prefixes[j], newIPs[w][j])

\* The cursor has gone on since a query picked an address.
AllPassed ==
    \A v \in Workers : \A a \in Elements(newIPs[v]) : \A i \in 1 .. Len(conf.prefixes) :
        InPrefix(conf.prefixes[i], a) => PassedAt(conf.prefixes[i], cursors[i], a, Held)

LEMMA InitPassed == Init => PicksInOrder /\ AllPassed
<1> SUFFICES ASSUME Init PROVE PicksInOrder /\ AllPassed
    OBVIOUS
<1>1. \A w \in Workers : pc[w] = "idle" /\ newIPs[w] = <<>>
    BY DEF Init
<1>2. Elements(<<>>) = {}
    BY DEF Elements
<1> QED
    BY <1>1, <1>2 DEF PicksInOrder, AllPassed

LEMMA NextPicksInOrder ==
    ASSUME IInv, PicksInOrder, [Next]_vars
    PROVE  PicksInOrder'
<1> USE DEF IInv, poolVars, cursorVars, workerVars, saveVars, cleanVars, diskVars, taskVars,
            queryVars
<1>1. ASSUME NEW w \in Workers, NEW d \in Domains, GetFakeIPMiss(w, d) PROVE PicksInOrder'
    BY <1>1 DEF GetFakeIPMiss, PicksInOrder, TypeOK
<1>2. ASSUME NEW w \in Workers, LockCursor(w) PROVE PicksInOrder'
    BY <1>2, NoneAssumption DEF LockCursor, PicksInOrder, TypeOK
<1>3. ASSUME NEW w \in Workers, ProbeFree(w) PROVE PicksInOrder'
    <2> DEFINE n == Candidate(w)
               s == newIPs[w]
    <2>1. /\ Len(s) + 1 \in 1 .. Len(conf.prefixes) /\ InPrefix(conf.prefixes[Len(s) + 1], n)
          /\ s \in Seq(Addrs) /\ n \in Addrs /\ pc[w] = "alloc"
        BY <1>3, CandidateInside DEF ProbeFree, Subnet, TypeOK, Allocating
    <2>2. newIPs' = [newIPs EXCEPT ![w] = Append(s, n)] /\ UNCHANGED <<pc, conf, cursorMu>>
        BY <1>3 DEF ProbeFree
    <2> HIDE DEF n
    <2>3. newIPs'[w] = Append(s, n) /\ \A v \in Workers : v # w => newIPs'[v] = newIPs[v]
        BY <2>2 DEF TypeOK
    <2>4. ASSUME NEW j \in 1 .. Len(newIPs'[w])
          PROVE  j \in 1 .. Len(conf.prefixes) /\ InPrefix(conf.prefixes[j], newIPs'[w][j])
        <3>1. j \in 1 .. Len(s) + 1 /\ Len(s) \in Nat
            BY <2>1, <2>3
        <3>2. CASE j = Len(s) + 1
            BY <2>1, <2>3, <3>2
        <3>3. CASE j \in 1 .. Len(s)
            BY <2>1, <2>3, <3>3 DEF PicksInOrder
        <3> QED
            BY <3>1, <3>2, <3>3
    <2> QED
        BY <2>1, <2>2, <2>3, <2>4 DEF PicksInOrder
<1>4. ASSUME NEW w \in Workers, UnlockCursor(w) PROVE PicksInOrder'
    BY <1>4 DEF UnlockCursor, PicksInOrder, TypeOK
<1>5. ASSUME NEW w \in Workers, InsertHost(w) PROVE PicksInOrder'
    BY <1>5 DEF InsertHost, PicksInOrder, TypeOK
<1>6. ASSUME NEW w \in Workers, InsertIP(w) PROVE PicksInOrder'
    BY <1>6 DEF InsertIP, PicksInOrder, TypeOK
<1>7. ASSUME NEW w \in Workers, FinishGet(w) PROVE PicksInOrder'
    BY <1>7 DEF FinishGet, PicksInOrder, TypeOK
<1>8. ASSUME NEW c \in Configs, NEW ord \in LoadOrders, Restart(c, ord) PROVE PicksInOrder'
    BY <1>8 DEF Restart, PicksInOrder
<1>9. ASSUME UNCHANGED <<pc, newIPs, conf, cursorMu>> PROVE PicksInOrder'
    BY <1>9 DEF PicksInOrder
<1>10. \/ UNCHANGED <<pc, newIPs, conf, cursorMu>>
       \/ \E c \in Configs, ord \in LoadOrders : Restart(c, ord)
       \/ \E w \in Workers : \/ \E d \in Domains : GetFakeIPMiss(w, d)
                             \/ LockCursor(w) \/ ProbeFree(w) \/ UnlockCursor(w)
                             \/ InsertHost(w) \/ InsertIP(w) \/ FinishGet(w)
    BY Zenon DEF Next, GetFakeIP, CleanExpired, SaveToFileIfDirty, Clear, vars,
       GetFakeIPHit, ProbeTaken, LookUpAddr, Tick, StartClean, CleanIPShard, CleanHostShard,
       EndClean, SaveTick, SaveCheck, CopyShard, CopyCursors, ClearDirty, OpenTmp, WriteTmp,
       WriteError, RenameTmp, MarkDirty, StartClear, ClearHostShard, ClearIPShard, StartClose
<1> QED
    BY <1>1, <1>2, <1>3, <1>4, <1>5, <1>6, <1>7, <1>8, <1>9, <1>10

\* A step that moves no cursor and gives up nothing.
LEMMA PassedKept ==
    ASSUME AllPassed, conf' = conf, cursors' = cursors, Held \subseteq Held',
           \A v \in Workers : Elements(newIPs'[v]) \subseteq Elements(newIPs[v])
    PROVE  AllPassed'
<1>1. ASSUME NEW v \in Workers, NEW a \in Elements(newIPs'[v]),
             NEW i \in 1 .. Len(conf.prefixes), InPrefix(conf.prefixes[i], a)
      PROVE  PassedAt(conf.prefixes[i], cursors[i], a, Held')
    <2>1. PassedAt(conf.prefixes[i], cursors[i], a, Held)
        BY <1>1 DEF AllPassed
    <2> QED
        BY <2>1 DEF PassedAt
<1> QED
    BY <1>1 DEF AllPassed

\* A cursor goes on to an address that is in the heap or has just been picked.
LEMMA ProbePassed ==
    ASSUME LargePrefixes, IInv, Inside, AllPassed, NEW w \in Workers, ProbeTaken(w) \/ ProbeFree(w)
    PROVE  AllPassed'
<1> DEFINE n == Candidate(w)
           k == Subnet(w)
<1>1. k \in 1 .. Len(conf.prefixes) /\ n \in Addrs /\ InPrefix(conf.prefixes[k], n)
    BY CandidateInside DEF IInv, ProbeTaken, ProbeFree
<1>2. n = NextInPrefix(conf.prefixes[k], cursors[k])
    BY DEF Candidate
<1>3. /\ conf' = conf /\ recs' = recs /\ cursors' = [cursors EXCEPT ![k] = n]
      /\ conf \in Configs
    BY DEF IInv, TypeOK, ProbeTaken, ProbeFree, taskVars, poolVars
<1>4. \A i \in 1 .. Len(conf.prefixes) : /\ InPrefix(conf.prefixes[i], cursors[i])
                                         /\ i # k => cursors'[i] = cursors[i]
    BY <1>3 DEF Inside, CursorsInside, IInv, TypeOK
<1>5. cursors'[k] = n
    BY <1>1, <1>3 DEF IInv, TypeOK
<1>6. /\ \A v \in Workers : Elements(newIPs[v]) \subseteq Elements(newIPs'[v])
      /\ \A v \in Workers : Elements(newIPs'[v]) \subseteq Elements(newIPs[v]) \cup {n}
      /\ n \in Held'
    <2>1. CASE ProbeTaken(w)
        <3>1. newIPs' = newIPs /\ ips[n] # 0
            BY <2>1 DEF ProbeTaken, workerVars
        <3>2. ips[n] \in Ptrs /\ recs[ips[n]] # None /\ n \in recs[ips[n]].ips
            BY <1>1, <3>1 DEF IInv, TypeOK, EntriesBacked
        <3> QED
            BY <1>1, <1>3, <3>1, <3>2 DEF Held
    <2>2. CASE ProbeFree(w)
        <3>1. newIPs' = [newIPs EXCEPT ![w] = Append(newIPs[w], n)]
            BY <2>2 DEF ProbeFree
        <3> HIDE DEF n
        <3>2. newIPs'[w] = Append(newIPs[w], n) /\ newIPs[w] \in Seq(Addrs)
              /\ \A v \in Workers : v # w => newIPs'[v] = newIPs[v]
            BY <3>1 DEF IInv, TypeOK
        <3>3. Elements(newIPs'[w]) = Elements(newIPs[w]) \cup {n}
            BY <1>1, <3>2, ElementsFacts
        <3> QED
            BY <1>1, <3>2, <3>3 DEF Held
    <2> QED
        BY <2>1, <2>2
<1>7. Held \subseteq Held'
    BY <1>3, <1>6 DEF Held
<1> HIDE DEF n, k
<1>8. ASSUME NEW v \in Workers, NEW a \in Elements(newIPs'[v]),
             NEW i \in 1 .. Len(conf.prefixes), InPrefix(conf.prefixes[i], a)
      PROVE  PassedAt(conf.prefixes[i], cursors'[i], a, Held')
    <2>1. CASE a \in Elements(newIPs[v])
        <3>1. PassedAt(conf.prefixes[i], cursors[i], a, Held)
            BY <1>8, <2>1 DEF AllPassed
        <3>2. CASE i = k
            <4>1. /\ k \in 1 .. Len(conf.prefixes) /\ InPrefix(conf.prefixes[k], cursors[k])
                  /\ InPrefix(conf.prefixes[k], a) /\ PassedAt(conf.prefixes[k], cursors[k], a, Held)
                BY <1>1, <1>4, <1>8, <3>1, <3>2
            <4>2. PassedAt(conf.prefixes[k], NextInPrefix(conf.prefixes[k], cursors[k]), a, Held')
                BY <1>2, <1>3, <1>6, <1>7, <4>1, PassedNext
            <4> QED
                BY <1>2, <1>5, <3>2, <4>2
        <3>3. CASE i # k
            BY <1>4, <1>7, <3>1, <3>3 DEF PassedAt
        <3> QED  BY <3>2, <3>3
    <2>2. CASE a = n
        <3>1. i = k
            BY <1>1, <1>3, <1>8, <2>2, EnoughRoom DEF RoomFor
        <3>2. PassedAt(conf.prefixes[k], NextInPrefix(conf.prefixes[k], cursors[k]),
                       NextInPrefix(conf.prefixes[k], cursors[k]), Held')
            BY <1>1, <1>2, <1>3, <1>4, <1>6, PickedPassed
        <3> QED
            BY <1>2, <1>5, <2>2, <3>1, <3>2
    <2> QED
        BY <2>1, <2>2, <1>6
<1> QED
    BY <1>3, <1>8 DEF AllPassed

LEMMA NextPassed ==
    ASSUME LargePrefixes, IInv, Inside, AllPassed, [Next]_vars
    PROVE  AllPassed'
<1> USE DEF poolVars, cursorVars, workerVars, saveVars, cleanVars, diskVars, taskVars, queryVars
<1>0. ASSUME HeapKept(recs, recs'), UNCHANGED <<conf, cursors, newIPs>> PROVE AllPassed'
    <2>1. Held \subseteq Held'
        BY <1>0 DEF HeapKept, Held
    <2> QED
        BY <1>0, <2>1, PassedKept
<1>1. ASSUME NEW w \in Workers, NEW d \in Domains, GetFakeIPHit(w, d) PROVE AllPassed'
    <2>1. hosts[d] \in Ptrs /\ recs[hosts[d]] # None
        BY <1>1 DEF GetFakeIPHit, IInv, TypeOK, EntriesBacked
    <2> QED
        BY <1>0, <1>1, <2>1, RefreshedPairs DEF GetFakeIPHit, IInv
<1>2. ASSUME NEW a \in Addrs, LookUpAddr(a) PROVE AllPassed'
    <2>1. ips[a] \in Ptrs /\ recs[ips[a]] # None
        BY <1>2 DEF LookUpAddr, IInv, TypeOK, EntriesBacked
    <2> QED
        BY <1>0, <1>2, <2>1, RefreshedPairs DEF LookUpAddr, IInv
<1>3. ASSUME NEW w \in Workers, UnlockCursor(w) PROVE AllPassed'
    <2>1. HeapKept(recs, recs')
        BY <1>3 DEF UnlockCursor, HeapKept, IInv, TypeOK
    <2> QED
        BY <1>0, <1>3, <2>1 DEF UnlockCursor
<1>4. ASSUME NEW w \in Workers, ProbeTaken(w) \/ ProbeFree(w) PROVE AllPassed'
    BY <1>4, ProbePassed
<1>5. ASSUME NEW w \in Workers, InsertIP(w) PROVE AllPassed'
    <2>1. /\ newIPs' = [newIPs EXCEPT ![w] = Tail(newIPs[w])] /\ newIPs[w] # <<>>
          /\ UNCHANGED <<conf, cursors, recs>> /\ pc[w] = "ip"
        BY <1>5 DEF InsertIP
    <2>2. newIPs'[w] = Tail(newIPs[w]) /\ \A v \in Workers : v # w => newIPs'[v] = newIPs[v]
        BY <2>1 DEF IInv, TypeOK
    <2>3. \A v \in Workers : Elements(newIPs'[v]) \subseteq Elements(newIPs[v])
        BY <2>1, <2>2, ElementsFacts DEF IInv, TypeOK
    <2>4. \A a \in Elements(newIPs[w]) : rec[w] \in Ptrs /\ recs[rec[w]] # None /\ a \in recs[rec[w]].ips
        BY <2>1 DEF IInv, QueriesOK, Elements
    <2>5. Held \subseteq Held'
        BY <2>1, <2>2, <2>4 DEF Held
    <2> QED
        BY <2>1, <2>3, <2>5, PassedKept
<1>6. ASSUME NEW c \in Configs, NEW ord \in LoadOrders, Restart(c, ord) PROVE AllPassed'
    <2>1. \A w \in Workers : newIPs'[w] = <<>>
        BY <1>6 DEF Restart
    <2>2. Elements(<<>>) = {}
        BY DEF Elements
    <2> QED
        BY <2>1, <2>2 DEF AllPassed
<1>7. ASSUME UNCHANGED <<recs, conf, cursors, newIPs>> PROVE AllPassed'
    BY <1>0, <1>7 DEF HeapKept
<1>8. \/ UNCHANGED <<recs, conf, cursors, newIPs>>
      \/ \E c \in Configs, ord \in LoadOrders : Restart(c, ord)
      \/ \E a \in Addrs : LookUpAddr(a)
      \/ \E w \in Workers : \/ \E d \in Domains : GetFakeIPHit(w, d)
                            \/ ProbeTaken(w) \/ ProbeFree(w) \/ UnlockCursor(w) \/ InsertIP(w)
    BY Zenon DEF Next, GetFakeIP, CleanExpired, SaveToFileIfDirty, Clear, vars,
       GetFakeIPMiss, LockCursor, InsertHost, FinishGet, Tick, StartClean, CleanIPShard,
       CleanHostShard, EndClean, SaveTick, SaveCheck, CopyShard, CopyCursors, ClearDirty,
       OpenTmp, WriteTmp, WriteError, RenameTmp, MarkDirty, StartClear, ClearHostShard,
       ClearIPShard, StartClose
<1> QED
    BY <1>1, <1>2, <1>3, <1>4, <1>5, <1>6, <1>7, <1>8

\* An address that another query is about to insert is not probed: the cursor
\* would have come round, over more addresses than the records have.
LEMMA NotProbedAgain ==
    ASSUME LargePrefixes, IInv, Inside, SizesOK, PicksInOrder, AllPassed
    PROVE  NoWrapAround
<1> SUFFICES ASSUME NEW w \in Workers, ProbeFree(w), NEW v \in Workers \ {w},
                    Candidate(w) \in Elements(newIPs[v])
             PROVE  FALSE
    BY DEF NoWrapAround
<1> DEFINE n == Candidate(w)
           k == Subnet(w)
           p == conf.prefixes[k]
<1>1. /\ k \in 1 .. Len(conf.prefixes) /\ n \in Addrs /\ InPrefix(p, n) /\ conf \in Configs
      /\ pc[w] = "alloc" /\ k = Len(newIPs[w]) + 1
    BY CandidateInside DEF IInv, TypeOK, ProbeFree, Allocating, Subnet
<1>2. n = NextInPrefix(p, cursors[k]) /\ InPrefix(p, cursors[k])
    BY <1>1 DEF Candidate, Inside, CursorsInside
<1>3. PassedAt(p, cursors[k], n, Held)
    BY <1>1 DEF AllPassed
<1> HIDE DEF n, k
<1>4. \A b \in p.addr + 1 .. p.hi : b \in Held
    BY <1>1, <1>2, <1>3, CameRound
<1>5. PICK b \in p.addr + 1 .. p.hi : \A q \in Ptrs : recs[q] # None => b \notin recs[q].ips
    BY <1>1, SomeLeft DEF IInv, SizesOK
<1>6. PICK u \in Workers : b \in Elements(newIPs[u])
    BY <1>4, <1>5 DEF Held
<1>7. PICK j \in 1 .. Len(newIPs[u]) : b = newIPs[u][j]
    BY <1>6 DEF Elements
<1>8. pc[u] \notin {"host", "ip"}
    BY <1>5, <1>7 DEF IInv, QueriesOK
<1>9. pc[u] \notin {"idle", "lock"}
    <2>1. Elements(<<>>) = {}
        BY DEF Elements
    <2> QED
        BY <1>6, <2>1 DEF PicksInOrder
<1>10. pc[u] = "alloc" /\ u = w
    BY <1>1, <1>8, <1>9 DEF PicksInOrder, IInv, TypeOK
<1>11. j \in 1 .. Len(conf.prefixes) /\ InPrefix(conf.prefixes[j], b) /\ j # k
    <2>1. newIPs[w] \in Seq(Addrs)
        BY DEF IInv, TypeOK
    <2> QED
        BY <1>1, <1>7, <1>10, <2>1 DEF PicksInOrder
<1>12. InPrefix(p, b) /\ b \in Addrs
    <2>1. p.lo \in Nat /\ p.addr \in Nat /\ p.hi \in Nat /\ p.lo <= p.addr
        BY <1>1, PrefixFacts
    <2>2. b \in Held
        BY <1>4
    <2> QED
        BY <1>5, <2>1, <2>2 DEF InPrefix, Held
<1> QED
    BY <1>1, <1>11, <1>12, EnoughRoom DEF RoomFor

\* NoWrapAround is a property of the pool where the prefixes do not overlap
\* and are larger than what the records of a process need: the hypothesis of
\* the theorems above holds by itself.
THEOREM CursorsStayAhead == LargePrefixes => (Spec => [][NoWrapAround]_vars)
<1> SUFFICES ASSUME LargePrefixes PROVE Spec => [][NoWrapAround]_vars
    OBVIOUS
<1> DEFINE I == IInv /\ Inside /\ SizesOK /\ PicksInOrder /\ AllPassed
<1>1. Init => I
    BY InitIInv, InitInside, InitSizes, InitPassed
<1>2. I /\ [Next]_vars => I'
    BY NextIInv, NextInside, NextSizes, NextPicksInOrder, NextPassed
<1>3. I => NoWrapAround
    BY NotProbedAgain
<1> QED
    BY <1>1, <1>2, <1>3, PTL DEF Spec

\* GetFakeIP with prefixes of that size: no allocation takes an address over,
\* and the pool with all its races, saves and restarts is a name service.
THEOREM LargePoolsAreNameServices == LargePrefixes => (Spec => LookupStable /\ ImplementsNameService)
BY CursorsStayAhead, NoTakeover, PoolImplementsNames, PTL

\* And as long as cleanExpired and Clear remove nothing, no two domains are
\* answered with the same address and every answer is turned back into its
\* domain.
THEOREM LargePoolsTurnBack ==
    LargePrefixes => (Spec /\ [][NoRemoval]_vars => []NoSharedAddress /\ []AnswersResolve)
BY CursorsStayAhead, AddressesUnshared, AnswersTurnBack, PTL
=============================================================================
