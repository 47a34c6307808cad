# TLA+ verification of tproxy-gateway

tproxy-gateway is a transparent proxy for Linux. A DNS server answers every
query with virtual *FakeIP* addresses; the kernel diverts packets to these
addresses to the gateway, which turns the address back into the domain, picks
an upstream by rules and forwards the traffic. The configuration can be
replaced while the gateway runs.

This directory models the parts of the program that keep state and run
concurrently, checks them with TLC on small instances, and proves their safety
properties with TLAPS for all values of the constants.
Paths such as `fakeip.go:311` are relative to `src/`.

## 1. Inventory

| Part | State | Operations | Talks to | What is hard | Correct when |
|---|---|---|---|---|---|
| FakeIP pool (`fakeip.go`) | 32 host shards, 32 IP shards, shared records, a cursor per prefix, dirty mark, `fakeip.json` | `GetFakeIP`, `LookUpAddr`, `cleanExpired`, `saveToFileIfDirty`, `Clear`, `Close`, `loadFromFile` | DNS server, TCP/UDP handlers, WebUI, shutdown | each table is locked by itself, several savers, crashes, other CIDRs at the next start, exhaustion | an answered address leads back to its domain, no address is shared or foreign, the file is always one complete save, expired addresses come back |
| UDP proxy (`tproxy.go`) | `udpSessions`, sessions with two sockets, gauge | receive loop, `handleUDP`, `listenFromUpstream`, sweeper | pool, rules, proxies | check and insertion under different lock sections, four kinds of goroutine delete and close | no packet goes to a closed or foreign socket, no socket leaks, silent sessions end |
| Health checks (`health_check.go`) | status per proxy shared by groups, selection per group | rounds of probes, selection, `SelectProxy` | handlers, hot reload | groups write the shared status while others select | groups settle on the right proxy; no needless switch |
| AutoRoute and process life (`netlink_route.go`, `main.go`) | kernel: rules, routes, nftables; process: `cfg`, phase | setup, cleanup, shutdown with 5 s limit, restart | kernel, pool, hot reload | kills between steps, `cfg` replaced between setup and cleanup, failing netlink calls | traffic to the pool's ranges reaches the listener; nothing is left after exit |
| Resolver (`resolver.go`) | cache, singleflight calls | `LookupIP`, background refresh, cleaner, `ClearCache` | AdBlock, DNS upstream, handlers | stale-while-revalidate, late answers, failing queries | one query per name, bounded age, no going back, every lookup returns |
| Hot reload (`main.go`, `metrics.go`), subscriptions (`rule_subscription.go`) | the globals | SIGHUP, POST `/api/config`, `reload_rules`, `fetchAndApply` | every part | assignments without a lock | parts in use fit `cfg` |
| Rule engine and trie (`rule_engine.go`, `router.go`) | trie, list of items | `NewRuleEngine`, `Match` | handlers | precedence among rules, the form of an address | a connection goes where the list of rules says |
| Configuration (`config.go`) | the file | `LoadConfig`, `SaveAndValidateConfig`, `ParseCIDRs` | all | two ways to load | same defaults on both |
| AdBlock (`adblock.go`) | set of domains per filter, the current filter | `NewAdBlocker`, `loadAll`, `IsBlocked`, auto refresh | resolver, reload | the empty filter is published before it is filled, downloads under the write lock, lists that fail or change | nothing is blocked that no list has named, every lookup returns, failed lists are made up for |
| TCP proxy and connection table (`tproxy.go`) | connections with two sockets, the table | `handleTCP`, dial with retries, two copy loops, `Add`, `Remove`, `Kill` | pool, rules, resolver, health checks, WebUI | half-closes, resets, kills at any point, dials that come back to the gateway | the table is true, no socket leaks, handlers end, ends are passed on |
| Inbound HTTP (`inbound_proxy.go`), WebUI on the virtual domain (`dashboard.go`) | connections | as TCP | rules, proxies | as TCP | as TCP |
| Analytics (`analytics.go`) | counts per hour, dirty mark, file | record, prune, save, `Clear`, load | handlers, DNS server, WebUI | counts during a save, failing writes, two savers of one file, a clock set back | counts that are not in the file are marked for the next save; the newest hours are kept |
| UDP buffers (`tproxy.go`) | `udpBufferPool` | `Get`, `Put` | receive loop, handlers, listeners | slices change hands and lengths | datagrams do not mix |
| SOCKS5 inbound, log ring, metrics and REST API, platforms without netlink | see section 6 | | | | not modelled |

The hazards, with the line where each bites and the properties that would
catch it, are listed in `PROJECT.json`.

## 2. Modules

Each component module declares its parameters as CONSTANTS with named
assumptions, has one action per critical section or externally visible step,
and states its properties at the end. An `MC...` module gives the constants
small values, each `.cfg` picks an instance, and a `...Proofs` module holds
theorems (`ServicesProofs` those of `UDPBuffers`, `Analytics` and `AdBlock`).
Definitions called *Mutant* are deliberate defects; substituted for the
definition that follows them they must break a property.

### FakeIPPool (`fakeip.go`)
A `*Record` is shared by both tables, so records live in a heap `recs` and the
tables (`hosts`, `ips`) hold pointers, 0 for an absent key. The shards of a
table are one function; the shard number (`HostShard`, `IPShard`) matters
where the code walks over shards. `GetFakeIP` is a hit (one action) or the
sequence miss, lock `cursorMu`, probe after probe, unlock, insert into the
host table, insert each address, mark dirty. `cleanExpired` visits one shard
per action and deletes expired addresses, then their domains from the host
shard *with the same number*, as the code does. `saveToFileIfDirty` is the
check, one copy per shard, the copy of the cursors under `cursorMu`, clearing
the mark, truncating `savePath.tmp`, writing, renaming; file descriptors
follow the inode, so that two savers may interfere. It is run by the
background goroutine, by `Clear` and by `Close`. `Restart` stands for a kill
at any point and the next start, possibly with other CIDRs, running
`loadFromFile` on whatever the disk holds.
Left out: the records gauge and analytics (nothing here reads them), the
choice of family and the shuffle of the DNS answer. `ExpiresAt` is read and
written atomically (in the code it is written without the lock of the other
table; a torn `time.Time` is not modelled). A file that is not the output of
one save never parses. Prefixes of one address (/32, /128) are excluded by
`ConfigsAssumption`: the code would step out of them.

### NameService and FakeIPNames
`NameService` is what the pool promises, without shards, locks, cursors,
clocks and goroutines: which pairs of address and name were given out, what
name an address turns into, what a start can bring back. Addresses are given
out and bound while they have no name, forgotten at any time, and a restart
knows of nothing but what was saved. `FakeIPNames` maps the pool's state to it
(the pairs of all records on the heap, the domain behind each entry of the IP
table, the pairs in the file) and states that every step of the pool is a step
of the name service or none: `ImplementsNameService`.

### TCPProxy (`tproxy.go`, `inbound_proxy.go`, `dashboard.go`)
A handler is one connection: `handleTCP` from `Accept` through routing
(WebUI, REJECT, proxy, DIRECT), the tries through a proxy with their back-off
and the retry by address, the addresses of a DIRECT name and the fallback dial,
`Add`, the plain copy loops or the header rewrite, to the deferred calls;
`handleHTTPInboundConn` is the other kind. A copy loop runs until its input
ends or its output fails; bytes are left out. Rules, pool, resolver and
network answer at random, peers finish or vanish at any time. `Kill` takes an
entry off the table and closes the client's socket in a second step. A
fallback dial to a FakeIP address becomes a new connection of the gateway
itself (`FallbackToSelf`), since the output chain of AutoRoute diverts it.
`hops` bounds and counts that. Handler numbers are reused once nothing of the
old connection is left, except those of WebUI connections: their handlers
never return.

### AdBlock (`adblock.go`)
Filters are numbered as they are installed; only the first is refreshed. The
lists change from one edition to another at any time and their servers go down
and come back. The lists of a filter are read one per action with its write
lock held, each whole, in part, or as the error page of its server; names are
only ever added, as in the code. `offered` is a history variable: what the
lists have held since a filter was installed. A call of `IsBlocked` looks at
the size without the lock, waits for the lock of the filter it found, and walks
over the suffixes.

### Analytics (`analytics.go`)
Counting and setting the mark are two actions, saving is check, encode, clear
the mark, replace the file; `Clear` and the background goroutine save
independently through one temporary file, whose content two savers may mix.
`excuse` is a history variable: what has gone wrong with saving since a saver
last encoded with no other save under way.

### UDPBuffers (`tproxy.go`)
Slices of `udpBufferPool` with their length, the goroutine whose bytes they
hold, and who has them. A listener's slice keeps the length of the payload it
carried before, as in the code.

### UDPSessions (`tproxy.go`)
The map, the gauge, two-socket sessions and the goroutines around them. Times
are ages, so runs are not bounded in length. Rule lookup and dialling are one
step that succeeds or fails; buffers are in `UDPBuffers`. Session numbers are
reused once nothing refers to them.

### HealthChecker (`health_check.go`)
`StartRound` starts one probe per proxy, `ProbeDone` records an outcome in the
node shared by the groups, `UpdateGroupSelection` follows `wg.Wait`. The
network is external and changes at will. `Reload` is `NewHealthChecker`
without `Start`, as all three reload paths have it.

### AutoRoute (`netlink_route.go`, `main.go`, `config.go`)
The kernel's tables are external state that outlives the process. Setup and
cleanup are one action per netlink call; each call may fail, which setup logs
and cleanup ignores. `LoadConfig` fills in defaults, `SaveInWebUI` does not, as
in the code. `pool.Close` may block, in which case the five-second limit of
`main` ends the process. The loopback interface is taken to exist. A packet
follows the first nftables rule it hits, in the order in which the rules were
appended by this and by earlier processes. `swept` is a history variable:
whether the cleanup has gone by the mark, table and name of setup so far.
`SameMarking` says what interception asks of the operator's edits. A deletion
takes away exactly what has its keys; what the kernel makes of one whose mark
and table are 0 (after a save that left them out) is not modelled.

### Resolver (`resolver.go`)
An entry records when its query was sent, which serves as its data. The A and
AAAA queries end in any order with success, nothing or failure (upstream and
fallback). singleflight is external: `Do` joins or starts a call, `EndCall`
wakes all callers. The cleaner inspects and deletes in two steps, as
`sync.Map` allows.

### ConfigReload (`main.go`, `metrics.go`, `rule_subscription.go`, `adblock.go`)
A part of the gateway is represented by the configuration it was built from. A
reload assigns the parts in the order of the code, one per action, and any
other goroutine may run in between. The subscription updaters are goroutines of
the manager that `main` started: the one that a reload installs is a global
nobody reads, so it is no part that could be current (its assignment is a step
without effect), and `Subs` stays. `alone` is a history variable. AdBlock is
taken to be enabled.

### RuleEngine (`rule_engine.go`, `router.go`)
A name is a sequence of labels, the trie a function from paths to upstreams.
`TakeRule` is one turn of the loop in `NewRuleEngine`, `Match` the lookup. The
property compares it with a declarative reading of the list of rules, for
every address that `Match` is given; from the dual-stack sockets an IPv4
destination arrives mapped to IPv6, which no IPv4 prefix contains (`InPrefix`,
section 5). The loop over the domains of a rule is a recursive function, so
that it can be reasoned about.

### Services and ResolverAndRoutes
Compositions of parts that share no state: HealthChecker, RuleEngine, AdBlock,
Analytics and UDPBuffers in the one, Resolver and AutoRoute in the other.
`running` chooses one at the start and a behaviour is a behaviour of that part,
with its fairness.

## 3. Runs

All runs finish within four minutes with two workers. Deadlock is checked in
all passing runs but `ResolverAndRoutes`, since the process may stay stopped
after its last start, `Services`, since the list of rules ends, and `TCPRelay`,
since the handlers of WebUI connections wait for ever (section 5).

In `Services` and `ResolverAndRoutes` several parts share a run: only one of
them moves in a behaviour, and their states add up instead of multiplying.

| Run | Checks | Bounds and why they suffice |
|---|---|---|
| `FakeIPRace` | `NoSharedAddress`, `AnswersResolve`, `EntriesBacked`, `LookupStable`, `ImplementsNameService` | two workers, two domains, three addresses, three records: both queries for the same or different new domains, with saves and restarts between any two critical sections |
| `FakeIPSavers` | `AtomicSave` | all three savers at once, one domain, one address, failing writes: any order of clearing, inserting, copying, truncating, writing, renaming and dying |
| `FakeIPSharedTmp` | `FileWellFormed` (violated) | as `FakeIPSavers` |
| `FakeIPLifecycle` | `TypeOK`, `AddressesInPrefixes`, `ExpiredReclaimed` | two shards, dual stack, an edit that moves the IPv4 prefix and removes the IPv6 one, records that expire, failing writes |
| `FakeIPStaleHost` | `AnswersResolve` (violated) | two shards, two domains |
| `UDPTable` | `TypeOK`, `MappedIsOpen`, `OpenIsOwned`, `SilentSessionEnds` | two keys, two handlers, two sessions alive, idle timeout of one tick: duplicates of a key and a foreign key |
| `TCPRelay` | `TypeOK`, `TableTrue`, `NothingLeft`, `EndsWithPeers`, `EndPassedOn` | two handlers of which one serves a client at a time and the other a connection the gateway has dialled to itself (connections meet only there), two tries, one address: every try fails or not, every end on either side at every point |
| `Services` | `PartsTyped`, `MatchesAsConfigured`, `UnsavedIsExplained`, `PayloadIntact`, `AbandonsOnlyDead`, `GroupsConverge`, `LookupsReturn`, `BlocksOnlyOffered`, `BootFilterHeals`, `NewestKept` | health: two proxies, a url-test and a fallback group that list them in opposite order, latencies 1 and 2, reloads; AdBlock: a file and a URL, two editions that differ, an error page, two filters, one call; statistics: two hours of which one is kept, one recorder, counts up to two, both savers, failing writes and restarts; buffers: two, for two requests and one listener, lengths 0 to 2; rules: all 4,368 non-empty lists of up to three of sixteen rules, seven names, all addresses and none: suffixes that overlap, repeat and differ in case, with rules of every other kind between them |
| `HealthReloadStops` | `AlwaysConverges` (violated) | one fallback group |
| `AutoRouteResidue` | `ZeroResidue` (violated) | one start, an edit of table and name |
| `ResolverAndRoutes` | `TypeOK`, `SingleFlight`, `AnswersBounded`, `CacheMonotone`, `LookupReturns`, `StaleRevalidated`; `RouteTypeOK`, `OwnResidueGone`, `Intercepted`, `ShutdownTerminates` | resolver: one name (names do not interact), two callers, two calls, TTLs 1 and 2, a stale period of 1, time up to 5: an entry is stored, expires, goes stale, is cleaned and is queried again; AutoRoute: two starts, of which the first leaves something and the second runs on top of it and cleans up; kills anywhere, WebUI restarts, blocked saves, failing netlink calls, edits of the ranges, of table and name, and one that leaves all keys out |
| `ReloadHeals` | `LoneReloadRepairs`, `EventuallyCurrent` | all three kinds of reload, two contents of the file, one subscription |

What the passing runs show:

- **Pool.** Queries in parallel, crashes and edits of the configuration never
  make an answered address resolve to another domain or leave the running
  prefixes; saves that do not overlap never damage the file; an allocation never
  takes an address away, and one passes from one name to another only by way of
  being free. Queries that race leave no entry whose record does not list it
  (with `Clear` in between as well: `TablesBacked` in section 4).
  `NoSharedAddress`, `LookupStable` and `ImplementsNameService` depend on the
  cursor not going around a whole prefix while one query is between choosing
  an address and inserting it (`NoWrapAround`; the prefixes of the instances
  are large enough for the queries in flight, as a /15 is in practice; section
  4 has the condition on their size): the code keeps no mark on a chosen
  address.
- **TCP.** However dials fail, peers vanish and the WebUI kills, both sockets
  are closed when a handler returns, the table lists exactly the relayed
  connections nobody has killed, and a handler whose peers are both through
  returns. An end on one side reaches the other where the socket can be
  half-closed.
- **AdBlock.** Downloads under the write lock delay lookups but never for
  good; the filter of the start ends up complete once its lists can be read and
  stay as they are. What is blocked was on a list since the filter was
  installed, or on an error page: names that the lists have dropped stay
  blocked until a reload, and no longer.
- **Statistics and buffers.** Counts that the file lacks are neither marked
  nor being saved only if a count came between encoding and clearing the mark,
  a write failed, or two savers raced; pooled buffers never mix datagrams.
- **Rules.** A list of rules routes as its declarative reading says, however
  suffixes overlap, for the address it is given.
- **UDP.** Although the key is checked and inserted in separate sections and
  an old listener may delete the key of a newer session, no one writes to a
  closed socket through the map and every open session is closed in the end.
- **Health checks.** Sharing the node status between groups with unrelated
  rounds is harmless.
- **AutoRoute.** Setup is idempotent where it matters. Whatever becomes of the
  ranges, one graceful exit whose deletions succeed removes what any number of
  processes with the same mark, table and name left, unless these keys were
  changed in memory before the cleanup was through.
- **Resolver.** Because both callers and refreshes go through singleflight, a
  late answer cannot replace a newer one, even though the cleaner may delete
  an entry that was stored after its inspection.
- **Hot reload.** Races can leave parts of two configurations, but the next
  undisturbed reload repairs proxy groups and block lists, and a subscription's
  next refresh repairs the rule engine.

### Fairness
Fairness is a conjunct only of `FairSpec` and of the compositions' `AllSpec` and
`PairSpec`. Pool: goroutines in progress go on (weak);
waiting for `cursorMu` and the two tickers of one `select` are strongly fair,
since a Go mutex is handed to a starving waiter and `select` chooses at random;
no query, restart or write error is forced. UDP: time, sweeper and runnable
goroutines. Health checks: tickers fire and probes end within their timeouts.
AdBlock: a list is read or times out, a free lock is taken, and the ticker of
the refresh gets the lock in the end (a waiting writer of a `sync.RWMutex`
holds new readers back). TCP: a goroutine goes on that reads from a socket that
has ended, closes one or returns; nobody has to send, hang up, answer a dial or
kill. AutoRoute: the shutdown goroutine runs and the timer fires. Resolver:
queries end by their timeouts; nothing else is forced. Hot reload: a reload
that has begun ends, downloads end, and a subscription's server answers again
and again.

## 4. Proofs

Every theorem holds for all values of the constants that satisfy the named
assumptions of its component. The runs check each property on a small
instance; below, what was needed to make it inductive.

### FakeIPPoolProofs (any domains, workers, addresses, prefixes, hashes, shard count, TTL and bounds)

| Theorem | States |
|---|---|
| `TypeCorrect` | `Spec => []TypeOK` |
| `TablesBacked` | `Spec => []EntriesBacked` |
| `AddressSafety` | `Spec => []AddressesInPrefixes` |
| `SaveAtomic` | `Spec => AtomicSave`, that is `Spec => ([]SaversApart => []FileWellFormed)` |
| `NoTakeover` | `Spec /\ [][NoWrapAround]_vars => LookupStable` |
| `PoolImplementsNames` | `Spec /\ [][NoWrapAround]_vars => ImplementsNameService` |
| `AddressesUnshared` | `Spec /\ [][NoWrapAround]_vars /\ [][NoRemoval]_vars => []NoSharedAddress` |
| `AnswersTurnBack` | the same hypotheses, `=> []AnswersResolve` |
| `CursorsStayAhead` | `LargePrefixes => (Spec => [][NoWrapAround]_vars)` |
| `LargePoolsAreNameServices` | `LargePrefixes => (Spec => LookupStable /\ ImplementsNameService)` |
| `LargePoolsTurnBack` | `LargePrefixes => (Spec /\ [][NoRemoval]_vars => []NoSharedAddress /\ []AnswersResolve)` |

`TypeOK` is not inductive: `GetFakeIPHit` writes through a pointer of the host
table, which must not dangle, and `CopyCursors` marshals through pointers
copied earlier. The inductive invariant `IInv` adds `EntriesBacked`,
`QueriesOK` (a query that has built its record holds a pointer into the heap
to a record of its domain that lists every address it has yet to insert) and
`CopiesOK` (the pointers a saver has copied are in the heap). For the
addresses, `Inside` adds that a query's addresses and every cursor lie in the
running prefixes; nothing need be known of the file, since `loadFromFile`
filters it. For the file, `DiskOK` says what the temporary file holds at each
step of a saver as long as no other one is between truncating and renaming it.

The four theorems from `NoTakeover` to `AnswersTurnBack` have hypotheses about
behaviours, because the code alone does not give the properties:

- `NoWrapAround`: the address that a query picks is not one that another query
  has picked and not yet inserted. The code compares a candidate with the IP
  table only. Both cursors move forward, so the hypothesis fails only when
  allocations go around a whole prefix during one query.
- `NoRemoval`: the cleaner finds nothing expired and the WebUI clears nothing.
  Without it `AnswersResolve` is false, which is what `FakeIPStaleHost` shows.

Neither is vacuous: both hold in every step of the instance of `FakeIPRace`,
with its races, saves and restarts. `NoWrapAround` is not superfluous either:
with two usable addresses TLC finds a behaviour in which it fails.

`NoTakeover` and the refinement rest on `PickedFree`: what a query has picked
is free, or bound to the query's own record, and no other query has picked it.
The refinement also needs `SavesGiven` (whatever a save has in hand, copied,
encoded or written to the temporary file, this process has given out), and goes
action by action: `UnlockGives`, `InsertBinds`, `RemovalForgets`,
`WritingSaves` and `RestartRestarts` show which step of the name service each
step of the pool is. For the answers, `AnswersInv` adds that every address of a
record in the heap is in the IP table or about to be inserted by the query that
built it (`Accounted`, `Publishing`), and that no save lists one address under
two domains (`SavesApart`), so that a restart brings back a pool that agrees
with itself.

The last three theorems replace the hypothesis `NoWrapAround` by one about the
constants. `LargePrefixes` says that no two prefixes of a start overlap and
that each has more than `k * MaxRecs` addresses after its own, where `k` is
the largest number of prefixes of a start and `MaxRecs` the number of records
that one run of the process allocates; nothing is assumed of what queries, the
cleaner, `Clear`, the savers and restarts do. For one IPv4 and one IPv6 prefix
and a /15, a process may allocate 65,535 records before it has to be
restarted, however many of them expire. (The model never reuses a record;
Go's collector does not touch the argument, which counts allocations.) The
invariant has three parts beyond `IInv` and `Inside`:

- `AllPassed`: from the moment a query picks an address until it has inserted
  it, the cursor has gone on only over addresses of `Held`, those that a record
  of this run lists or a query has picked. `Held` never shrinks before a
  restart, although the IP table does. An address below that of the prefix,
  which only a cursor restored from the file can reach, is met once.
- `SizesOK`: no record has more than `k` addresses, in the heap, in a save
  under way or on disk, where the records may be those of another
  configuration.
- `PicksInOrder`: only the holder of `cursorMu` has picked addresses that no
  record lists yet, and none of them from the prefix it is searching.

A cursor that comes round to a picked address has passed the whole prefix
(`CameRound`), so that every address of it is listed by a record; but the
records together list at most `k * MaxRecs` (`SomeLeft`, by cardinalities).

### UDPSessionsProofs (any finite set of keys, any handlers, sessions and timeout)
`TypesHold`: `Spec => []TypeOK`, `MapHoldsOpenSessions`:
`Spec => []MappedIsOpen`, `NoSocketLeak`: `Spec => []OpenIsOwned`. The
invariant adds `HandlersOK` and `ListenersOK`: which session a goroutine at
each step owns, whether it is open, and that a session about to be closed is
no longer in the map. Without them `CloseSession` could close a session that
is still mapped.

### TCPProxyProofs (any handlers, tries, addresses and hops)
`TypesHold`: `Spec => []TypeOK`, `ConnTableTrue`: `Spec => []TableTrue`,
`NoConnLeak`: `Spec => []NothingLeft`. The invariant adds `Stages`: a handler
that dials has tries left, its client's socket is open and unknown to `Kill`
until `Add`, only intercepted connections get into the table, the second copy
loop runs only while bytes are relayed, and no connection is in the table and
being killed at once. Without the last, a late close by `Kill` could hit a
connection that is listed.

### ResolverProofs (any names, callers, calls, TTLs and stale period)
`TypesHold`: `Spec => []TypeOK`, `OneQueryPerName`: `Spec => []SingleFlight`,
`AnswerAge`: `Spec => []AnswersBounded`, `CacheNeverOlder`:
`Spec => CacheMonotone`. The invariant relates the clocks: when a call was
sent and by when it ends (`CallTimes`), what the times of an entry say about
each other (`EntryTimes`), that a name has at most one entry (`OneEntry`), and
that an entry of a name was asked for before the call that is under way for it
(`EntryBeforeCall`). The last is the reason why `Store` cannot go back in
time, and it needs `SingleFlight`.

### ConfigReloadProofs (any kinds of reload and contents of the file)
`TypesHold`: `Spec => []TypeOK`, `LoneReloadWins`:
`Spec => []LoneReloadRepairs`. The invariant says that a reload without company
is the only one under way (`OneAtATime`) and that the parts it has assigned so
far come from its own configuration (`DoneSoFar`).

### AutoRouteProofs (any ranges, files, edits and number of starts)
`TypesHold`: `RouteSpec => []RouteTypeOK`. `NoResidue`: `RouteSpec =>
[]OwnResidueGone`, whatever the files and edits are and whichever netlink calls
fail. `PacketsReachListener`: `RouteSpec => []Intercepted` if mark and port are
the same everywhere (`SameMarking`) and no range has host bits; section 5 shows
that this is needed. `ResidueInv` follows a cleanup that goes by the keys of
setup and has met no failure, call by call (`Cleaned`); a deletion takes away
what has these keys whoever installed it, so nothing need be known of earlier
processes. `MarkInv` says that all nftables rules of all processes agree on
mark and port (`SameRules`), so that it does not matter which one a packet hits
first, and what setup has installed so far (`Installed`).

### RuleEngineProofs (any list of rules, names of any length)
`RoutesAsConfigured`: `RSpec => []MatchesAsConfigured`, and `RulesTyped`. The
engine is what the list of rules says after every turn of the loop: `Tree`,
with every path the trie has all its parts, so the walk gets as far as there are
nodes (`WalkReaches`); `Upstreams`, the node of a suffix has the upstream of the
last rule for it, and a node with an upstream is the suffix of some rule;
`ItemsOK`, the items are the other rules in their order. A turn extends the
trie by all names of a rule at once (`Extended`, `TrieStep`). That the loop
over the names of a list does this whatever their order and however many they
are (`AddRulesExtends`) is shown by least counterexample (`LeastNatural`, from
the well-foundedness of the natural numbers), since the induction theorems of
the library cannot be instantiated by the provers at hand. The lookup then
agrees with the list: the nodes with an upstream on the path of a name are the
rules that apply to it (`HitsAreRules`), the last of them is the longest suffix
(`LongestSuffix`), and the first item that hits is the first such rule
(`FirstItem`).

### ServicesProofs
`PartsKeepTypes`: `AllSpec => []PartsTyped`. The invariants of the five parts
hold together, since a step of one leaves the variables of the others alone.
- Proxy groups (any groups, proxies and round-trip times), `GroupsTyped`: `Spec
  => []TypeOK`, `FallbackOrderKept`: `Spec => AbandonsOnlyDead`. The invariant
  adds that the selected proxy is a member of its group, which is what makes
  "listed before it" mean something.
- Buffers (any number of buffers, requests and listeners), `DatagramsApart`:
  `BSpec => []PayloadIntact`, and `BuffersTyped`. The invariant adds that a
  slice has one holder at most, which is not in the pool (`OneHolder`), and
  holds the bytes of its holder (`OwnBytes`).
- Statistics (any hours, recorders and bounds), `HoursBounded`: `ASpec =>
  []ATypeOK`, which includes that no more hours are kept than the limit;
  `LossNeedsReason`: `ASpec => []UnsavedIsExplained`, where the invariant says
  what a saver has in hand and what the file holds while nothing has gone
  wrong; `NoNewerHourDropped`: `ASpec => NewestKept`, from `KeptHours`, the
  lemma about what pruning keeps.
- AdBlock (any lists, editions, filters and names of any length),
  `OnlyOfferedBlocked`: `DSpec => BlocksOnlyOffered`, and `FiltersTyped`. The
  invariant says that a filter holds only what the lists have offered since it
  was installed, and error pages; the property also needs what the recursive
  suffix walk computes for every name (`BlocksMeaning`), again by least
  counterexample.

### Only model-checked
All liveness properties (`ExpiredReclaimed`, `SilentSessionEnds`,
`EndsWithPeers`, `EndPassedOn`, `GroupsConverge`, `LookupsReturn`,
`BootFilterHeals`, `ShutdownTerminates`, `LookupReturns`, `StaleRevalidated`,
`EventuallyCurrent`): the prover does not reason about fairness.

## 5. Disagreements between code and documentation

Each of these has a run that ends in a violation.

1. `FakeIPStaleHost`: expiry deletes domains from the wrong host shard
   (`fakeip.go:311`).
2. `HealthReloadStops`: the checker of a hot reload is never started
   (`main.go:90`).
3. `FakeIPSharedTmp`: `Clear`, `Close` and the background goroutine share
   `savePath.tmp` (`fakeip.go:354`), while `README.md:10` says "atomic disk
   persistence". What holds instead is `AtomicSave`.
4. `AutoRouteResidue`: cleanup goes by the `cfg` of the moment
   (`netlink_route.go:116`), so an edit of mark, table or nftables name, or a
   file saved in the WebUI without one of them (`config.go:174`), leaves
   everything behind: "leaving zero residue on exit" (`README.md:30`). What
   holds instead is `OwnResidueGone`. The WebUI's restart (`metrics.go:316`)
   and a blocked `pool.Close` (`main.go:132`) exit without any cleanup, and a
   deletion that fails is not tried again; neither is part of the run's trace.

The models show more with other values of their constants. They have no run
of their own:

- An exhausted prefix makes the allocation loop spin with `cursorMu` held
  (`fakeip.go:107`); the saver waits for it in the goroutine that would have
  reclaimed addresses, so `ExpiredReclaimed` does not hold for `FakeIPPool`
  with two usable addresses and three domains.
- `TCPProxy`: a DIRECT connection whose name does not resolve, is blocked by
  AdBlock or has no address that answers is dialled at its FakeIP address
  (`tproxy.go:382`) and comes back to the gateway (`FallbackToSelf`), where the
  log calls it "Directly connected" (`tproxy.go:384`). The DNS front end never
  asks AdBlock, so that this is what happens to every blocked name with a
  DIRECT rule.
- `RuleEngine`: the TProxy sockets are dual-stack and the handlers pass an IPv4
  destination on without `Unmap` (`tproxy.go:288`, `tproxy.go:521`), so an IPv4
  `IP-CIDR` rule (`config.yaml:148`) never hits. (`GEOIP,PRIVATE` does:
  `IsPrivate` unmaps. Destinations other than FakeIP addresses arrive only if
  the operator diverts them.)
- `ConfigReload`: a reload never starts its `SubscriptionManager`
  (`main.go:93`): the subscriptions of the start go on and those of the new
  configuration are never fetched, while `README.md:23` advertises
  subscriptions with hot reload.
- `TCPProxy`: every WebUI connection on the virtual domain leaves a goroutine
  and a count of the gauge behind, since the second `Accept` of
  `singleConnListener` waits for the end of the server that calls it
  (`dashboard.go:77`). After a header rewrite the client's FIN is not passed
  on (`tproxy.go:405`), and a header that does not parse has been consumed
  when the plain copy begins (`tproxy.go:401`). A reset of the client reaches
  the target as an ordinary end.
- `UDPBuffers`: `handleUDP` puts its buffer back with the length of its
  datagram, and `listenFromUpstream` reads replies into whatever length it
  gets (`tproxy.go:637`): longer replies are cut off, and after an empty
  datagram `Read` returns at once and the listener sends empty datagrams to
  the client without pause.
- `Analytics`: a count taken during a save, or one whose save fails
  (`analytics.go:225`), may be neither saved nor marked until the next one
  (`analytics.go:223`); `Clear` and the background
  goroutine share a temporary file, which can be torn or bring back what was
  cleared (`analytics.go:224`); `main` does not wait for the last save.
- `AdBlock`: a filter installed by a reload is read once and never refreshed
  (`main.go:60`): if its download fails, nothing is blocked until the next
  reload. `loadAll` never clears the map (`adblock.go:42`), so a name that the
  lists have dropped stays blocked until a reload, and the status of an answer
  is not looked at (`adblock.go:87`): an error page is parsed as a list.
- A record inserted during a save may be neither saved nor marked dirty until
  the next change, because the mark is cleared after the copy
  (`fakeip.go:352`).
- The UDP gauge does not count sessions overwritten in the map
  (`tproxy.go:606`; `metrics.go:124` calls it the number of active sessions).
- A url-test group may select a proxy that failed its first probe, since it
  is still alive with RTT 0 (`health_check.go:161`).
- `AutoRoute` with `Aligned` smaller than `Cidrs` violates `Intercepted`: the
  nftables rule compares the masked address with the unmasked CIDR
  (`netlink_route.go:212`).
- An edit of the port followed by a kill leaves old nftables rules in front of
  the new ones; a SIGHUP between `main.go:70` and `main.go:106` makes listener
  and nftables rules use different ports.
- `ConfigReload`: two reloads that race leave parts of two configurations;
  of two subscriptions the one that comes last removes the rules of the other
  (`rule_subscription.go:89`); after a reload nothing is blocked until the
  lists are read (`adblock.go:26`).
- `GEOIP,PRIVATE` matches the IPv6 FakeIP range `fd00::/8`
  (`rule_engine.go:139`), so IPv6 connections of names without a suffix rule
  go the way of private addresses.
- The trie compares names with their case while items are compared in lower
  case.

## 6. Not modelled

- The SOCKS5 port: a server of the library `txthinking/socks5`, started as it
  is.
- The log ring (`log.go`): one slice under one mutex that no other part reads;
  nothing can interleave within `Push` or `GetEntries`.
- Metrics, authentication, ping, lookup, state and static files: handlers that
  keep no state. Those that change state are actions of the module they act on.
- Parsing and formats: lists of AdBlock and subscriptions, DNS, SOCKS5 and
  HTTP messages, the text of rewritten headers, YAML, certificates.
- The bytes of TCP connections, and with them what is lost in a dropped
  reader (`tproxy.go:217`, `tproxy.go:401`).
- `topDomains` of the statistics, which grows without limit under the lock
  that also guards the counts.
- Platforms without netlink, whose functions are empty.

## 7. Plan

Done, in this order: FakeIPPool with its proofs, UDPSessions with its proofs,
HealthChecker, AutoRoute, Resolver, ConfigReload, RuleEngine, TCPProxy,
Analytics, UDPBuffers, AdBlock, NameService with the refinement; then the
proofs about TCPProxy, Resolver, ConfigReload, HealthChecker, AutoRoute,
UDPBuffers, Analytics, AdBlock, RuleEngine and the composition Services, and
the refinement, `LookupStable`, `NoSharedAddress` and `AnswersResolve` of the
pool.

Last came `LargePrefixes`, from which `NoWrapAround` follows. Every invariant
and every action property of the passing runs is now stated by a theorem, and
the liveness properties stay with TLC.
