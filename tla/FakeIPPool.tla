----------------------------- MODULE FakeIPPool -----------------------------
(***************************************************************************)
(* The FakeIP pool of the gateway (fakeip.go): the DNS server hands out    *)
(* virtual addresses for every queried domain (GetFakeIP), the transparent *)
(* proxy turns an intercepted destination back into the domain             *)
(* (LookUpAddr), one background goroutine expires and persists the         *)
(* records, the WebUI clears them (Clear), shutdown saves them (Close) and *)
(* the next start reloads them (loadFromFile).                             *)
(*                                                                         *)
(* Every critical section of the code is one action; the gaps between two  *)
(* critical sections are where the goroutines interleave.  A *Record is    *)
(* shared by the host table and the IP table, so the records live in a     *)
(* heap (recs) and the tables hold pointers into it, 0 standing for an     *)
(* absent map entry.                                                       *)
(***************************************************************************)
EXTENDS Naturals, Sequences, FiniteSets

CONSTANTS
    Domains,     \* the domain names clients ask for
    Workers,     \* goroutines serving DNS queries
    Tasks,       \* the savers that run: a subset of AllTasks
    Addrs,       \* addresses, IPv4 and IPv6 alike, as numbers
    Configs,     \* parsed fake_ip.cidrs of the configurations a start may use
    ShardCount,
    fnv32,       \* hash of a domain: only its residue mod ShardCount matters
    fnv32Addr,   \* hash of an address
    TTL,
    WritesFail,  \* whether os.WriteFile may fail (a full disk)
    MaxTime,     \* bound: the clock stops here
    MaxRecs,     \* bound: records allocated by one run of the process
    None,        \* absent value, no file
    Empty,       \* content of a file just truncated by os.WriteFile
    Torn         \* content of a file that is not the output of one save

AllTasks == {"background", "Clear", "Close"}

\* A prefix covers lo..hi; addr is the address written before the slash
\* (netip.Prefix.Addr() is not masked, so it need not be lo).
Prefixes == [lo : Addrs, addr : Addrs, hi : Addrs]

ASSUME AddrsAssumption == Addrs \subseteq Nat
ASSUME DomainsAssumption ==
    IsFiniteSet(Domains) /\ MaxRecs \in Nat /\ Cardinality(Domains) <= MaxRecs
ASSUME TasksAssumption == "background" \in Tasks /\ Tasks \subseteq AllTasks
\* ParseCIDRs refuses an empty list; the IPv4 prefixes (nv4 of them) come
\* first.  A prefix of a single address (/32, /128) is excluded: the code
\* would step out of it.
ASSUME ConfigsAssumption ==
    \A c \in Configs :
        /\ c \in [prefixes : Seq(Prefixes), nv4 : Nat]
        /\ c.prefixes # <<>>
        /\ c.nv4 <= Len(c.prefixes)
        /\ \A i \in 1 .. Len(c.prefixes) :
              LET p == c.prefixes[i] IN /\ p.lo <= p.addr
                                        /\ p.addr < p.hi
                                        /\ p.lo .. p.hi \subseteq Addrs
ASSUME HashAssumption ==
    /\ ShardCount \in Nat \ {0}
    /\ fnv32 \in [Domains -> Nat]
    /\ fnv32Addr \in [Addrs -> Nat]
ASSUME TimeAssumption == TTL \in Nat /\ MaxTime \in Nat
ASSUME WritesFailAssumption == WritesFail \in BOOLEAN
Ptrs == 1 .. MaxRecs
Shards == 0 .. ShardCount - 1
Time == 0 .. MaxTime + TTL
Record == [domain : Domains, ips : SUBSET Addrs, expiresAt : Time]
SavedRecord == [ips : SUBSET Addrs, expiresAt : Time]
PersistState == [currents : Seq(Addrs), nv4 : Nat,
                 records : [Domains -> SavedRecord \cup {None}]]

ASSUME NoneAssumption == None \notin Workers \cup Domains \cup Record

VARIABLES
    conf,      \* the prefixes of the running process
    recs,      \* the heap: [Ptrs -> Record \cup {None}]
    hosts,     \* hostShards, all shards together: [Domains -> Ptrs \cup {0}]
    ips,       \* ipShards: [Addrs -> Ptrs \cup {0}]
    cursors,   \* v4Currents followed by v6Currents
    cursorMu,  \* the worker holding cursorMu, or None
    isDirty,
    now,       \* time.Now()
    pc, dom, newIPs, rec,                \* locals of GetFakeIP, per worker
    bpc, bshard, snap, data, fd,         \* locals of the savers, per task
    clNow, clDomains, clCount,           \* locals of cleanExpired
    tmp, file  \* contents of savePath.tmp and of savePath

poolVars == <<recs, hosts, ips, isDirty>>
cursorVars == <<cursors, cursorMu>>
workerVars == <<pc, dom, newIPs, rec>>
saveVars == <<snap, data, fd>>
cleanVars == <<clNow, clDomains, clCount>>
diskVars == <<tmp, file>>
\* What a query leaves alone, and what a background task does.
taskVars == <<conf, now, bpc, bshard, saveVars, cleanVars, diskVars>>
queryVars == <<conf, now, cursorVars, workerVars>>
vars == <<conf, poolVars, cursorVars, now, workerVars, bpc, bshard, saveVars,
          cleanVars, diskVars>>

HostShard(d) == fnv32[d] % ShardCount
IPShard(a) == fnv32Addr[a] % ShardCount

InPrefix(p, a) == a \in p.lo .. p.hi

\* now.After(rec.ExpiresAt)
Expired(p, t) == t > recs[p].expiresAt

NoHosts == [d \in Domains |-> 0]
NoIPs == [a \in Addrs |-> 0]
NoData == [currents |-> <<>>, nv4 |-> 0, records |-> [d \in Domains |-> None]]
-----------------------------------------------------------------------------
(* GetFakeIP, one step per critical section *)

\* The domain is in its host shard: the record is refreshed and returned.
GetFakeIPHit(w, d) ==
    /\ pc[w] = "idle"
    /\ hosts[d] # 0
    /\ recs' = [recs EXCEPT ![hosts[d]].expiresAt = now + TTL]
    /\ isDirty' = TRUE
    /\ UNCHANGED <<taskVars, cursorVars, workerVars, hosts, ips>>

\* Bound: every allocation in flight has a free cell of the heap.
HeapHasRoom ==
    Cardinality({v \in Workers : pc[v] \in {"lock", "alloc"}})
        < Cardinality({p \in Ptrs : recs[p] = None})

\* It is not: the shard is unlocked and nothing checks again later.
GetFakeIPMiss(w, d) ==
    /\ pc[w] = "idle"
    /\ hosts[d] = 0
    /\ HeapHasRoom
    /\ pc' = [pc EXCEPT ![w] = "lock"]
    /\ dom' = [dom EXCEPT ![w] = d]
    /\ UNCHANGED <<taskVars, poolVars, cursorVars, newIPs, rec>>

LockCursor(w) ==
    /\ pc[w] = "lock"
    /\ cursorMu = None
    /\ cursorMu' = w
    /\ pc' = [pc EXCEPT ![w] = "alloc"]
    /\ UNCHANGED <<taskVars, poolVars, cursors, dom, newIPs, rec>>

\* The address nextV4ForSubnet / nextV6ForSubnet probes after cur.
NextInPrefix(p, cur) ==
    LET wrapped == IF InPrefix(p, cur + 1) THEN cur + 1 ELSE p.addr + 1
    IN  IF wrapped = p.addr THEN wrapped + 1 ELSE wrapped

Allocating(w) == pc[w] = "alloc" /\ Len(newIPs[w]) < Len(conf.prefixes)
Subnet(w) == Len(newIPs[w]) + 1
Candidate(w) == NextInPrefix(conf.prefixes[Subnet(w)], cursors[Subnet(w)])

\* One turn of the loop of nextV4ForSubnet that finds the address taken.
ProbeTaken(w) ==
    /\ Allocating(w)
    /\ ips[Candidate(w)] # 0
    /\ cursors' = [cursors EXCEPT ![Subnet(w)] = Candidate(w)]
    /\ UNCHANGED <<taskVars, poolVars, workerVars, cursorMu>>

\* Mutant: the probed address is returned whether or not it is in use.
ProbeFreeUnchecked(w) ==
    /\ Allocating(w)
    /\ cursors' = [cursors EXCEPT ![Subnet(w)] = Candidate(w)]
    /\ newIPs' = [newIPs EXCEPT ![w] = Append(newIPs[w], Candidate(w))]
    /\ UNCHANGED <<taskVars, poolVars, cursorMu, pc, dom, rec>>

\* The turn that finds it free and returns it.
ProbeFree(w) ==
    /\ Allocating(w)
    /\ ips[Candidate(w)] = 0
    /\ cursors' = [cursors EXCEPT ![Subnet(w)] = Candidate(w)]
    /\ newIPs' = [newIPs EXCEPT ![w] = Append(newIPs[w], Candidate(w))]
    /\ UNCHANGED <<taskVars, poolVars, cursorMu, pc, dom, rec>>

Elements(s) == {s[i] : i \in 1 .. Len(s)}

\* cursorMu is released and the record is built, private to the worker.
UnlockCursor(w) ==
    /\ pc[w] = "alloc"
    /\ Len(newIPs[w]) = Len(conf.prefixes)
    /\ cursorMu' = None
    /\ \E p \in Ptrs :
          /\ recs[p] = None
          /\ \A q \in Ptrs : recs[q] = None => p <= q
          /\ recs' = [recs EXCEPT ![p] = [domain    |-> dom[w],
                                          ips       |-> Elements(newIPs[w]),
                                          expiresAt |-> now + TTL]]
          /\ rec' = [rec EXCEPT ![w] = p]
    /\ pc' = [pc EXCEPT ![w] = "host"]
    /\ UNCHANGED <<taskVars, hosts, ips, isDirty, cursors, dom, newIPs>>

InsertHost(w) ==
    /\ pc[w] = "host"
    /\ hosts' = [hosts EXCEPT ![dom[w]] = rec[w]]
    /\ pc' = [pc EXCEPT ![w] = "ip"]
    /\ UNCHANGED <<taskVars, cursorVars, recs, ips, isDirty, dom, newIPs,
                   rec>>

\* Mutant: the pointer is read back from the host table, where another query
\* may have put its own record, or Clear nothing.
InsertIPByName(w) ==
    /\ pc[w] = "ip"
    /\ newIPs[w] # <<>>
    /\ ips' = [ips EXCEPT ![Head(newIPs[w])] = hosts[dom[w]]]
    /\ newIPs' = [newIPs EXCEPT ![w] = Tail(newIPs[w])]
    /\ UNCHANGED <<taskVars, cursorVars, recs, hosts, isDirty, pc, dom, rec>>

InsertIP(w) ==
    /\ pc[w] = "ip"
    /\ newIPs[w] # <<>>
    /\ ips' = [ips EXCEPT ![Head(newIPs[w])] = rec[w]]
    /\ newIPs' = [newIPs EXCEPT ![w] = Tail(newIPs[w])]
    /\ UNCHANGED <<taskVars, cursorVars, recs, hosts, isDirty, pc, dom, rec>>

FinishGet(w) ==
    /\ pc[w] = "ip"
    /\ newIPs[w] = <<>>
    /\ isDirty' = TRUE
    /\ pc' = [pc EXCEPT ![w] = "idle"]
    /\ dom' = [dom EXCEPT ![w] = None]
    /\ rec' = [rec EXCEPT ![w] = 0]
    /\ UNCHANGED <<taskVars, cursorVars, recs, hosts, ips, newIPs>>

\* The transparent proxy resolves a destination (a miss changes nothing).
LookUpAddr(a) ==
    /\ ips[a] # 0
    /\ recs' = [recs EXCEPT ![ips[a]].expiresAt = now + TTL]
    /\ isDirty' = TRUE
    /\ UNCHANGED <<taskVars, cursorVars, workerVars, hosts, ips>>

Tick ==
    /\ now < MaxTime
    /\ now' = now + 1
    /\ UNCHANGED <<poolVars, cursorVars, workerVars, saveVars, cleanVars,
                   diskVars, conf, bpc, bshard>>
-----------------------------------------------------------------------------
(* cleanExpired, in the background goroutine *)

StartClean ==
    /\ bpc["background"] = "idle"
    /\ bpc' = [bpc EXCEPT !["background"] = "cleanIP"]
    /\ bshard' = [bshard EXCEPT !["background"] = 0]
    /\ clNow' = now
    /\ UNCHANGED <<queryVars, poolVars, saveVars, diskVars, clDomains,
                   clCount>>

\* Mutant: i < ShardCount-1, the last shard is never visited.
NextShardShort(t, loop, after) ==
    LET last == bshard[t] + 1 >= ShardCount - 1
    IN  /\ bpc' = [bpc EXCEPT ![t] = IF last THEN after ELSE loop]
        /\ bshard' = [bshard EXCEPT ![t] = IF last THEN 0 ELSE bshard[t] + 1]

\* Where the task goes after the current shard: the same step of the next
\* shard, or the step after the loop.
NextShard(t, loop, after) ==
    LET last == bshard[t] = ShardCount - 1
    IN  /\ bpc' = [bpc EXCEPT ![t] = IF last THEN after ELSE loop]
        /\ bshard' = [bshard EXCEPT ![t] = IF last THEN 0 ELSE bshard[t] + 1]

\* The addresses the pass removes from the shard it is at.
ExpiredAddrs ==
    {a \in Addrs : /\ IPShard(a) = bshard["background"]
                   /\ ips[a] # 0
                   /\ Expired(ips[a], clNow)}

CleanIPShard ==
    /\ bpc["background"] = "cleanIP"
    /\ ips' = [a \in Addrs |-> IF a \in ExpiredAddrs THEN 0 ELSE ips[a]]
    /\ clDomains' = {recs[ips[a]].domain : a \in ExpiredAddrs}
    /\ clCount' = (clCount \/ ExpiredAddrs # {})
    /\ IF ExpiredAddrs = {}
       THEN NextShard("background", "cleanIP", "cleanEnd")
       ELSE /\ bpc' = [bpc EXCEPT !["background"] = "cleanHost"]
            /\ UNCHANGED bshard
    /\ UNCHANGED <<queryVars, saveVars, diskVars, recs, hosts, isDirty,
                   clNow>>

\* The domains are deleted from the host shard that has the number of the
\* IP shard: a domain whose own shard is another one stays in its table.
CleanHostShard ==
    /\ bpc["background"] = "cleanHost"
    /\ hosts' = [d \in Domains |->
                    IF d \in clDomains /\ HostShard(d) = bshard["background"]
                    THEN 0 ELSE hosts[d]]
    /\ clDomains' = {}
    /\ NextShard("background", "cleanIP", "cleanEnd")
    /\ UNCHANGED <<queryVars, saveVars, diskVars, recs, ips, isDirty,
                   clNow, clCount>>

EndClean ==
    /\ bpc["background"] = "cleanEnd"
    /\ bpc' = [bpc EXCEPT !["background"] = "idle"]
    /\ isDirty' = (isDirty \/ clCount)
    /\ clNow' = 0
    /\ clCount' = FALSE
    /\ UNCHANGED <<queryVars, saveVars, diskVars, recs, hosts, ips, bshard,
                   clDomains>>
-----------------------------------------------------------------------------
(* saveToFileIfDirty, in the background goroutine, in Clear and in Close *)

SaveTick ==
    /\ bpc["background"] = "idle"
    /\ bpc' = [bpc EXCEPT !["background"] = "check"]
    /\ UNCHANGED <<queryVars, poolVars, saveVars, cleanVars, diskVars,
                   bshard>>

\* Where a task is when its save is over: Close ends the process.
AfterSave(t) == IF t = "Close" THEN "closed" ELSE "idle"

SaveCheck(t) ==
    /\ bpc[t] = "check"
    /\ bpc' = [bpc EXCEPT ![t] = IF isDirty THEN "copy" ELSE AfterSave(t)]
    /\ UNCHANGED <<queryVars, poolVars, saveVars, cleanVars, diskVars,
                   bshard>>

\* allRecords collects the pointers of one host shard.
CopyShard(t) ==
    /\ bpc[t] = "copy"
    /\ snap' = [snap EXCEPT ![t] =
                  [d \in Domains |-> IF HostShard(d) = bshard[t]
                                     THEN hosts[d] ELSE snap[t][d]]]
    /\ NextShard(t, "copy", "cursor")
    /\ UNCHANGED <<queryVars, poolVars, cleanVars, diskVars, data, fd>>

\* What json.MarshalIndent reads through the pointer p.
Saved(p) == IF p = 0 THEN None
            ELSE [ips |-> recs[p].ips, expiresAt |-> recs[p].expiresAt]

\* The cursors are copied under cursorMu, then the state is marshalled.
CopyCursors(t) ==
    /\ bpc[t] = "cursor"
    /\ cursorMu = None
    /\ data' = [data EXCEPT ![t] =
                  [currents |-> cursors, nv4 |-> conf.nv4,
                   records  |-> [d \in Domains |-> Saved(snap[t][d])]]]
    /\ snap' = [snap EXCEPT ![t] = NoHosts]
    /\ bpc' = [bpc EXCEPT ![t] = "flag"]
    /\ UNCHANGED <<queryVars, poolVars, cleanVars, diskVars, bshard, fd>>

ClearDirty(t) ==
    /\ bpc[t] = "flag"
    /\ isDirty' = FALSE
    /\ bpc' = [bpc EXCEPT ![t] = "open"]
    /\ UNCHANGED <<queryVars, saveVars, cleanVars, diskVars, recs, hosts,
                   ips, bshard>>

\* Mutant: the file is rewritten in place, without the temporary file.
OpenTmpInPlace(t) ==
    /\ bpc[t] = "open"
    /\ file' = Empty
    /\ fd' = [fd EXCEPT ![t] = "file"]
    /\ bpc' = [bpc EXCEPT ![t] = "write"]
    /\ UNCHANGED <<queryVars, poolVars, cleanVars, bshard, snap, data, tmp>>

\* os.WriteFile creates or truncates savePath.tmp ...
OpenTmp(t) ==
    /\ bpc[t] = "open"
    /\ tmp' = Empty
    /\ fd' = [fd EXCEPT ![t] = "tmp"]
    /\ bpc' = [bpc EXCEPT ![t] = "write"]
    /\ UNCHANGED <<queryVars, poolVars, cleanVars, bshard, snap, data, file>>

\* Writing s over content c from offset 0: if another saver has written in
\* between, the result depends on the two lengths.
WriteOver(c, s) == IF c \in {Empty, s} THEN {s} ELSE {s, Torn}

\* ... writes the bytes through its descriptor and closes it.  The inode may
\* have been renamed to savePath since, or replaced there (fd "gone").
WriteTmp(t) ==
    /\ bpc[t] = "write"
    /\ \/ /\ fd[t] = "tmp"
          /\ tmp' \in WriteOver(tmp, data[t])
          /\ UNCHANGED file
       \/ /\ fd[t] = "file"
          /\ file' \in WriteOver(file, data[t])
          /\ UNCHANGED tmp
       \/ /\ fd[t] = "gone"
          /\ UNCHANGED diskVars
    /\ data' = [data EXCEPT ![t] = NoData]
    /\ fd' = [fd EXCEPT ![t] = None]
    /\ bpc' = [bpc EXCEPT ![t] = "rename"]
    /\ UNCHANGED <<queryVars, poolVars, cleanVars, bshard, snap>>

\* os.WriteFile fails while writing: nothing is renamed, and the dirty mark
\* is already gone.
WriteError(t) ==
    /\ WritesFail
    /\ bpc[t] = "write"
    /\ tmp' = IF fd[t] = "tmp" THEN Torn ELSE tmp
    /\ file' = IF fd[t] = "file" THEN Torn ELSE file
    /\ data' = [data EXCEPT ![t] = NoData]
    /\ fd' = [fd EXCEPT ![t] = None]
    /\ bpc' = [bpc EXCEPT ![t] = AfterSave(t)]
    /\ UNCHANGED <<queryVars, poolVars, cleanVars, bshard, snap>>

\* Renaming moves the inode with the descriptors still open on it; it fails,
\* unnoticed, when another saver has renamed the shared name already.
RenameTmp(t) ==
    /\ bpc[t] = "rename"
    /\ IF tmp = None
       THEN UNCHANGED <<tmp, file, fd>>
       ELSE /\ file' = tmp
            /\ tmp' = None
            /\ fd' = [u \in Tasks |-> CASE fd[u] = "tmp"  -> "file"
                                        [] fd[u] = "file" -> "gone"
                                        [] OTHER          -> fd[u]]
    /\ bpc' = [bpc EXCEPT ![t] = AfterSave(t)]
    /\ UNCHANGED <<queryVars, poolVars, cleanVars, bshard, snap, data>>
-----------------------------------------------------------------------------
(* Clear (WebUI control clear_fakeip) and Close (shutdown) *)

StartClear ==
    /\ "Clear" \in Tasks
    /\ bpc["Clear"] = "idle"
    /\ bpc' = [bpc EXCEPT !["Clear"] = "clearHost"]
    /\ UNCHANGED <<queryVars, poolVars, saveVars, cleanVars, diskVars,
                   bshard>>

ClearHostShard(t) ==
    /\ bpc[t] = "clearHost"
    /\ hosts' = [d \in Domains |-> IF HostShard(d) = bshard[t]
                                   THEN 0 ELSE hosts[d]]
    /\ bpc' = [bpc EXCEPT ![t] = "clearIP"]
    /\ UNCHANGED <<queryVars, saveVars, cleanVars, diskVars, recs, ips,
                   isDirty, bshard>>

ClearIPShard(t) ==
    /\ bpc[t] = "clearIP"
    /\ ips' = [a \in Addrs |-> IF IPShard(a) = bshard[t] THEN 0 ELSE ips[a]]
    /\ NextShard(t, "clearHost", "mark")
    /\ UNCHANGED <<queryVars, saveVars, cleanVars, diskVars, recs, hosts,
                   isDirty>>

StartClose ==
    /\ "Close" \in Tasks
    /\ bpc["Close"] = "idle"
    /\ bpc' = [bpc EXCEPT !["Close"] = "mark"]
    /\ UNCHANGED <<queryVars, poolVars, saveVars, cleanVars, diskVars,
                   bshard>>

MarkDirty(t) ==
    /\ bpc[t] = "mark"
    /\ isDirty' = TRUE
    /\ bpc' = [bpc EXCEPT ![t] = "check"]
    /\ UNCHANGED <<queryVars, saveVars, cleanVars, diskVars, recs, hosts,
                   ips, bshard>>
-----------------------------------------------------------------------------
(* NewFakeIPPool and loadFromFile *)

\* json.Unmarshal accepts the output of one save and nothing else.
Readable(f) == f \notin {None, Empty, Torn}

Starts(c) == [i \in 1 .. Len(c.prefixes) |-> c.prefixes[i].addr]

\* A cursor is restored when the family has as many prefixes as it had when
\* it was saved and the i-th prefix still contains it.
RestoredCursor(c, f, i) ==
    LET v4   == i <= c.nv4
        same == IF v4 THEN f.nv4 = c.nv4
                ELSE Len(f.currents) - f.nv4 = Len(c.prefixes) - c.nv4
        cur  == f.currents[IF v4 THEN i ELSE f.nv4 + i - c.nv4]
    IN  IF same /\ InPrefix(c.prefixes[i], cur) THEN cur
        ELSE c.prefixes[i].addr

\* Mutant: the saved cursors are adopted without comparing the counts.
RestoredCursorsUnchecked(c, f) == f.currents

RestoredCursors(c, f) ==
    [i \in 1 .. Len(c.prefixes) |-> RestoredCursor(c, f, i)]

\* Mutant: the saved addresses are restored without the prefix test.
ValidIPsUnfiltered(c, saved) == saved

\* The saved addresses that are still inside a configured prefix.
ValidIPs(c, saved) ==
    {a \in saved : \E i \in 1 .. Len(c.prefixes) : InPrefix(c.prefixes[i], a)}

\* The record of d is restored: it was saved, has not expired and has an
\* address left.
Restores(c, f, d) ==
    /\ Readable(f)
    /\ f.records[d] # None
    /\ now <= f.records[d].expiresAt
    /\ ValidIPs(c, f.records[d].ips) # {}

\* The order in which the range over the saved map visits the domains: the
\* record of the i-th domain gets pointer i.
LoadOrders ==
    {ord \in [Domains -> 1 .. Cardinality(Domains)] :
        \A d, e \in Domains : ord[d] = ord[e] => d = e}

\* Mutant: validIPs is not reset from one record to the next.
LoadedRecsPiled(c, f, ord) ==
    [p \in Ptrs |->
        IF \E d \in Domains : ord[d] = p /\ Restores(c, f, d)
        THEN LET d == CHOOSE d \in Domains : ord[d] = p
             IN  [domain    |-> d,
                  ips       |-> UNION {ValidIPs(c, f.records[e].ips) :
                                          e \in {x \in Domains : ord[x] <= p /\ f.records[x] # None}},
                  expiresAt |-> f.records[d].expiresAt]
        ELSE None]

LoadedRecs(c, f, ord) ==
    [p \in Ptrs |->
        IF \E d \in Domains : ord[d] = p /\ Restores(c, f, d)
        THEN LET d == CHOOSE d \in Domains : ord[d] = p
             IN  [domain    |-> d,
                  ips       |-> ValidIPs(c, f.records[d].ips),
                  expiresAt |-> f.records[d].expiresAt]
        ELSE None]

LoadedHosts(c, f, ord) ==
    [d \in Domains |-> IF Restores(c, f, d) THEN ord[d] ELSE 0]

\* Mutant: the host table is restored and the IP table is forgotten.
LoadedIPsForgotten(loaded) == [a \in Addrs |-> 0]

\* Of the restored records that list a, the last one visited: later
\* insertions into the IP table overwrite earlier ones.
LastHolders(loaded, a) ==
    LET holders == {p \in Ptrs : loaded[p] # None /\ a \in loaded[p].ips}
    IN  {p \in holders : \A q \in holders : q <= p}

LoadedIPs(loaded) ==
    [a \in Addrs |-> IF LastHolders(loaded, a) = {} THEN 0
                     ELSE CHOOSE p \in LastHolders(loaded, a) : TRUE]

\* The process dies at any point (a crash, os.Exit from the WebUI, the end
\* of main) and starts again, possibly with other CIDRs.  Only the disk and
\* the clock survive.
Restart(c, ord) ==
    /\ conf' = c
    /\ recs' = LoadedRecs(c, file, ord)
    /\ hosts' = LoadedHosts(c, file, ord)
    /\ ips' = LoadedIPs(LoadedRecs(c, file, ord))
    /\ cursors' = IF Readable(file) THEN RestoredCursors(c, file) ELSE Starts(c)
    /\ cursorMu' = None
    /\ isDirty' = FALSE
    /\ pc' = [w \in Workers |-> "idle"]
    /\ dom' = [w \in Workers |-> None]
    /\ newIPs' = [w \in Workers |-> <<>>]
    /\ rec' = [w \in Workers |-> 0]
    /\ bpc' = [t \in Tasks |-> "idle"]
    /\ bshard' = [t \in Tasks |-> 0]
    /\ snap' = [t \in Tasks |-> NoHosts]
    /\ data' = [t \in Tasks |-> NoData]
    /\ fd' = [t \in Tasks |-> None]
    /\ clNow' = 0
    /\ clDomains' = {}
    /\ clCount' = FALSE
    /\ UNCHANGED <<now, diskVars>>

\* The first start finds no file.
Init ==
    /\ conf \in Configs
    /\ recs = [p \in Ptrs |-> None]
    /\ hosts = NoHosts
    /\ ips = NoIPs
    /\ cursors = Starts(conf)
    /\ now = 0
    /\ cursorMu = None
    /\ isDirty = FALSE
    /\ pc = [w \in Workers |-> "idle"]
    /\ dom = [w \in Workers |-> None]
    /\ newIPs = [w \in Workers |-> <<>>]
    /\ rec = [w \in Workers |-> 0]
    /\ bpc = [t \in Tasks |-> "idle"]
    /\ bshard = [t \in Tasks |-> 0]
    /\ snap = [t \in Tasks |-> NoHosts]
    /\ data = [t \in Tasks |-> NoData]
    /\ fd = [t \in Tasks |-> None]
    /\ clNow = 0
    /\ clDomains = {}
    /\ clCount = FALSE
    /\ tmp = None
    /\ file = None
-----------------------------------------------------------------------------
GetFakeIP(w) ==
    \/ \E d \in Domains : GetFakeIPHit(w, d) \/ GetFakeIPMiss(w, d)
    \/ LockCursor(w)
    \/ ProbeTaken(w)
    \/ ProbeFree(w)
    \/ UnlockCursor(w)
    \/ InsertHost(w)
    \/ InsertIP(w)
    \/ FinishGet(w)

CleanExpired == StartClean \/ CleanIPShard \/ CleanHostShard \/ EndClean

SaveToFileIfDirty(t) ==
    \/ SaveCheck(t)
    \/ CopyShard(t)
    \/ CopyCursors(t)
    \/ ClearDirty(t)
    \/ OpenTmp(t)
    \/ WriteTmp(t)
    \/ WriteError(t)
    \/ RenameTmp(t)

Clear == StartClear \/ \E t \in Tasks : ClearHostShard(t) \/ ClearIPShard(t)

Next ==
    \/ \E w \in Workers : GetFakeIP(w)
    \/ \E a \in Addrs : LookUpAddr(a)
    \/ Tick
    \/ CleanExpired
    \/ SaveTick
    \/ \E t \in Tasks : SaveToFileIfDirty(t) \/ MarkDirty(t)
    \/ Clear
    \/ StartClose
    \/ \E c \in Configs, ord \in LoadOrders : Restart(c, ord)

Spec == Init /\ [][Next]_vars

\* A query in progress keeps running, and so does a task.  select picks at
\* random among the tickers that are ready, and a Go mutex is handed over
\* to a waiter that starves: strong fairness for both.  Nothing forces a
\* query, a lookup, a restart or a write error to happen.
Fairness ==
    /\ \A w \in Workers :
          /\ SF_vars(LockCursor(w))
          /\ WF_vars(ProbeTaken(w) \/ ProbeFree(w) \/ UnlockCursor(w)
                       \/ InsertHost(w) \/ InsertIP(w) \/ FinishGet(w))
    /\ SF_vars(StartClean)
    /\ SF_vars(SaveTick)
    /\ WF_vars(CleanIPShard \/ CleanHostShard \/ EndClean)
    /\ \A t \in Tasks :
          /\ SF_vars(CopyCursors(t))
          /\ WF_vars(SaveCheck(t) \/ CopyShard(t) \/ ClearDirty(t)
                       \/ OpenTmp(t) \/ WriteTmp(t) \/ RenameTmp(t))

FairSpec == Spec /\ Fairness
-----------------------------------------------------------------------------
(* Properties *)

\* Every variable keeps its type: the pointers point into the heap, the
\* cursors are one per configured prefix, the files hold a saved state or
\* one of the three markers.
TypeOK ==
    /\ conf \in Configs
    /\ recs \in [Ptrs -> Record \cup {None}]
    /\ hosts \in [Domains -> Ptrs \cup {0}]
    /\ ips \in [Addrs -> Ptrs \cup {0}]
    /\ cursors \in [1 .. Len(conf.prefixes) -> Addrs]
    /\ cursorMu \in Workers \cup {None}
    /\ isDirty \in BOOLEAN
    /\ now \in 0 .. MaxTime
    /\ pc \in [Workers -> {"idle", "lock", "alloc", "host", "ip"}]
    /\ dom \in [Workers -> Domains \cup {None}]
    /\ newIPs \in [Workers -> Seq(Addrs)]
    /\ rec \in [Workers -> Ptrs \cup {0}]
    /\ bpc \in [Tasks -> {"idle", "cleanIP", "cleanHost", "cleanEnd", "check",
                          "copy", "cursor", "flag", "open", "write", "rename",
                          "clearHost", "clearIP", "mark", "closed"}]
    /\ bshard \in [Tasks -> Shards]
    /\ snap \in [Tasks -> [Domains -> Ptrs \cup {0}]]
    /\ data \in [Tasks -> PersistState]
    /\ fd \in [Tasks -> {"tmp", "file", "gone", None}]
    /\ clNow \in 0 .. MaxTime
    /\ clDomains \in SUBSET Domains
    /\ clCount \in BOOLEAN
    /\ tmp \in PersistState \cup {None, Empty, Torn}
    /\ file \in PersistState \cup {None, Empty, Torn}

InSomePrefix(a) ==
    \E i \in 1 .. Len(conf.prefixes) : InPrefix(conf.prefixes[i], a)

\* Every address the pool has handed out, is handing out or resolves lies in
\* a prefix of the running configuration, and each cursor in its own prefix,
\* also after a restart that changed the CIDRs (the policy routing rules
\* divert these prefixes and nothing else).
AddressesInPrefixes ==
    /\ \A p \in Ptrs : recs[p] # None => \A a \in recs[p].ips : InSomePrefix(a)
    /\ \A w \in Workers : \A i \in 1 .. Len(newIPs[w]) : InSomePrefix(newIPs[w][i])
    /\ \A a \in Addrs : ips[a] # 0 => InSomePrefix(a)
    /\ \A i \in 1 .. Len(conf.prefixes) : InPrefix(conf.prefixes[i], cursors[i])

\* The two tables agree with the records they share: an address resolves to
\* a record that lists it, a domain is served the record of that domain.
EntriesBacked ==
    /\ \A a \in Addrs :
          ips[a] # 0 => recs[ips[a]] # None /\ a \in recs[ips[a]].ips
    /\ \A d \in Domains :
          hosts[d] # 0 => recs[hosts[d]] # None /\ recs[hosts[d]].domain = d

Inserting(p) == \E w \in Workers : pc[w] = "ip" /\ rec[w] = p

\* While a record has not outlived its TTL, every address the DNS server
\* answers for its domain is turned back into that domain by LookUpAddr
\* (unless the record is still being inserted or the cleaner is between the
\* two tables).
AnswersResolve ==
    \A d \in Domains :
        (/\ hosts[d] # 0
         /\ ~Expired(hosts[d], now)
         /\ ~Inserting(hosts[d])
         /\ bpc["background"] \notin {"cleanIP", "cleanHost"})
        => \A a \in recs[hosts[d]].ips : ips[a] # 0 /\ recs[ips[a]].domain = d

\* Two domains are never answered with the same address.
NoSharedAddress ==
    \A d, e \in Domains :
        d # e /\ hosts[d] # 0 /\ hosts[e] # 0
            => recs[hosts[d]].ips \cap recs[hosts[e]].ips = {}

\* What the cursors give as long as a prefix is larger than the queries in
\* progress need: the address that a query picks is not one that another
\* query has picked and not yet entered into the IP table.  The code does not
\* check it, and the cursor of a small prefix may come round to such an one.
NoWrapAround ==
    \A w \in Workers :
        ProbeFree(w) => \A v \in Workers \ {w} : Candidate(w) \notin Elements(newIPs[v])

\* Nothing leaves the IP table: the cleaner finds nothing expired and the
\* WebUI does not clear the pool.
NoRemoval ==
    /\ CleanIPShard => ExpiredAddrs = {}
    /\ \A t \in Tasks : ~ClearIPShard(t)

\* An address that resolves keeps its record until the cleaner finds the
\* record expired, the WebUI clears the pool or the process restarts: no
\* allocation takes it over, however the queries interleave.
LookupStable ==
    [][\A a \in Addrs :
          ips[a] # 0 /\ ips'[a] # ips[a]
              => \/ bpc["background"] = "cleanIP" /\ Expired(ips[a], clNow)
                 \/ \E t \in Tasks : bpc[t] = "clearIP"
                 \/ \E c \in Configs, ord \in LoadOrders : Restart(c, ord)]_vars

\* The persistence file is absent or holds the complete output of one save,
\* whenever the process dies ("atomic disk persistence").  The background
\* goroutine, Clear and Close share one temporary file, so it does not hold.
FileWellFormed == file \in PersistState \cup {None}

\* No two savers are between the truncation and the renaming of the
\* temporary file at the same time.
SaversApart ==
    \A t, u \in Tasks :
        bpc[t] \in {"write", "rename"} /\ bpc[u] \in {"write", "rename"} => t = u

\* What saving to a temporary file and renaming it does give: as long as no
\* two saves overlap on the disk, the persistence file is absent or one
\* complete save, whatever the savers do otherwise, whenever the process
\* dies and whether or not the disk is full.
AtomicSave == []SaversApart => []FileWellFormed

\* An entry of the IP table that has expired is eventually removed, unless
\* it is refreshed first.
ExpiredReclaimed ==
    \A a \in Addrs :
        (ips[a] # 0 /\ Expired(ips[a], now))
            ~> (ips[a] = 0 \/ ~Expired(ips[a], now))
=============================================================================
