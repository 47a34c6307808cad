--------------------------- MODULE ServicesProofs ---------------------------
(***************************************************************************)
(* Proofs about the parts of the gateway that share no state: the proxy    *)
(* groups, the UDP buffers, the statistics and the AdBlock filter; those   *)
(* about the rule engine are in RuleEngineProofs.  A step of Services is a *)
(* step of one part and leaves the others alone, so all their invariants   *)
(* hold there too.                                                         *)
(***************************************************************************)
EXTENDS Services, RuleEngineProofs, FiniteSetTheorems

-----------------------------------------------------------------------------
(* Proxy groups: the action property needs to know that the selection of a *)
(* group is one of its own proxies, also after a reload: only then does    *)
(* FirstAlive compare the new proxy with the one in use.                   *)

\* A group with proxies has selected one of them.
SelectedIsMember ==
    \A g \in Groups : Proxies[g] # <<>> => selected[g] \in MembersOf(g)

HInv == TypeOK /\ SelectedIsMember

\* The proxies of a group, by position.
LEMMA ProxyAt ==
    ASSUME NEW g \in Groups
    PROVE  /\ Proxies[g] \in Seq(Nodes) /\ Len(Proxies[g]) \in Nat
           /\ \A i \in 1 .. Len(Proxies[g]) :
                 Proxies[g][i] \in Nodes /\ Proxies[g][i] \in MembersOf(g)
<1>1. Proxies[g] \in Seq(Nodes)
  BY GroupsAssumption
<1> QED
  BY <1>1 DEF MembersOf

\* The proxies of a group are nodes.
LEMMA MembersAreNodes == ASSUME NEW g \in Groups PROVE MembersOf(g) \subseteq Nodes
BY ProxyAt DEF MembersOf

\* NewHealthChecker selects the first proxy of a group, if there is one.
LEMMA FirstProxyOK ==
    ASSUME NEW g \in Groups
    PROVE  /\ FirstProxy(g) \in Nodes \cup {None}
           /\ Proxies[g] # <<>> => FirstProxy(g) \in MembersOf(g)
<1>1. CASE Proxies[g] = <<>>
  BY <1>1 DEF FirstProxy
<1>2. CASE Proxies[g] # <<>>
  <2>1. 1 \in 1 .. Len(Proxies[g]) /\ Head(Proxies[g]) = Proxies[g][1]
    BY <1>2, ProxyAt
  <2> QED
    BY <1>2, <2>1, ProxyAt DEF FirstProxy
<1> QED
  BY <1>1, <1>2

\* A probe leaves a status of the same type, whatever its outcome.
LEMMA ProbedTyped ==
    ASSUME NEW s \in [alive : BOOLEAN, rtt : 0 .. MaxRTT, failCount : 0 .. FailLimit],
           NEW v \in 0 .. MaxRTT
    PROVE  Probed(s, v) \in [alive : BOOLEAN, rtt : 0 .. MaxRTT, failCount : 0 .. FailLimit]
<1>1. CASE v > 0
  BY <1>1, RTTAssumption DEF Probed, FailLimit
<1>2. CASE ~(v > 0)
  <2>1. (s.alive /\ s.failCount + 1 < FailLimit) \in BOOLEAN
    OBVIOUS
  <2>2. (IF s.failCount < FailLimit THEN s.failCount + 1 ELSE FailLimit) \in 0 .. FailLimit
    BY DEF FailLimit
  <2> QED
    BY <1>2, <2>1, <2>2 DEF Probed
<1> QED
  BY <1>1, <1>2

\* A checker that has just been built.
LEMMA FreshTyped ==
    ASSUME node = [n \in Nodes |-> NewNode], selected = [g \in Groups |-> FirstProxy(g)],
           phase = [g \in Groups |-> "start"], pending = [g \in Groups |-> {}],
           net \in [Nodes -> 0 .. MaxRTT], started \in BOOLEAN
    PROVE  HInv
<1>1. NewNode \in [alive : BOOLEAN, rtt : 0 .. MaxRTT, failCount : 0 .. FailLimit]
  BY RTTAssumption DEF NewNode, FailLimit
<1>2. TypeOK
  BY <1>1, FirstProxyOK DEF TypeOK
<1>3. SelectedIsMember
  BY FirstProxyOK DEF SelectedIsMember
<1> QED
  BY <1>2, <1>3 DEF HInv

\* main starts from such a checker.
LEMMA HInitInv == Init => HInv
BY FreshTyped DEF Init

\* Every step preserves the invariant.
LEMMA HNextInv == HInv /\ [Next]_vars => HInv'
<1> SUFFICES ASSUME HInv, [Next]_vars PROVE HInv'
  OBVIOUS
<1> USE DEF HInv
<1>1. ASSUME NEW n \in Nodes, NEW v \in 0 .. MaxRTT, NetChanges(n, v) PROVE HInv'
  BY <1>1 DEF NetChanges, TypeOK, SelectedIsMember
<1>2. ASSUME NEW g \in Groups, StartRound(g) PROVE HInv'
  BY <1>2, MembersAreNodes DEF StartRound, TypeOK, SelectedIsMember
<1>3. ASSUME NEW g \in Groups, NEW n \in Nodes, ProbeDone(g, n) PROVE HInv'
  <2>1. Probed(node[n], net[n]) \in
            [alive : BOOLEAN, rtt : 0 .. MaxRTT, failCount : 0 .. FailLimit]
    BY ProbedTyped DEF TypeOK
  <2> QED
    BY <1>3, <2>1 DEF ProbeDone, TypeOK, SelectedIsMember
<1>4. ASSUME NEW g \in Groups, UpdateGroupSelection(g) PROVE HInv'
  <2> USE <1>4 DEF UpdateGroupSelection
  <2>1. CASE UNCHANGED selected
    BY <2>1 DEF TypeOK, SelectedIsMember
  <2>2. ASSUME NEW i \in AliveAt(g), selected' = [selected EXCEPT ![g] = Proxies[g][i]]
        PROVE  HInv'
    <3>1. Proxies[g][i] \in Nodes /\ Proxies[g][i] \in MembersOf(g)
      BY ProxyAt DEF AliveAt
    <3>2. TypeOK'
      BY <2>2, <3>1 DEF TypeOK
    <3>3. SelectedIsMember'
      BY <2>2, <3>1 DEF TypeOK, SelectedIsMember
    <3> QED
      BY <3>2, <3>3
  <2> QED
    BY <2>1, <2>2
<1>5. CASE Reload
  <2>1. TypeOK'
    <3>1. NewNode \in [alive : BOOLEAN, rtt : 0 .. MaxRTT, failCount : 0 .. FailLimit]
      BY RTTAssumption DEF NewNode, FailLimit
    <3> QED
      BY <1>5, <3>1, FirstProxyOK DEF Reload, TypeOK
  <2>2. SelectedIsMember'
    BY <1>5, FirstProxyOK DEF Reload, SelectedIsMember
  <2> QED
    BY <2>1, <2>2
<1>6. CASE UNCHANGED vars
  BY <1>6 DEF vars, TypeOK, SelectedIsMember
<1> QED
  BY <1>1, <1>2, <1>3, <1>4, <1>5, <1>6 DEF Next

\* TypeOK of the proxy groups for every value of the constants.
THEOREM GroupsTyped == Spec => []TypeOK
<1>1. HInv => TypeOK
  BY DEF HInv
<1> QED
  BY HInitInv, HNextInv, <1>1, PTL DEF Spec

\* updateGroupSelection of a fallback group leaves the proxy in use only for
\* one listed before it, or when it is dead at that moment.
THEOREM FallbackOrderKept == Spec => AbandonsOnlyDead
<1> DEFINE OrderKept ==
        \A g \in Groups :
          selected'[g] # selected[g] /\ started' /\ Type[g] = "fallback"
              => \/ ~node[selected[g]].alive
                 \/ \E i, j \in 1 .. Len(Proxies[g]) :
                       /\ i < j
                       /\ Proxies[g][i] = selected'[g]
                       /\ Proxies[g][j] = selected[g]
<1>1. HInv /\ [Next]_vars => [OrderKept]_vars
  <2> SUFFICES ASSUME HInv, Next, NEW g \in Groups,
                      selected'[g] # selected[g], started', Type[g] = "fallback"
               PROVE  \/ ~node[selected[g]].alive
                      \/ \E i, j \in 1 .. Len(Proxies[g]) :
                            /\ i < j
                            /\ Proxies[g][i] = selected'[g]
                            /\ Proxies[g][j] = selected[g]
    OBVIOUS
  <2> USE DEF HInv
  <2>1. UpdateGroupSelection(g)
    BY DEF Next, NetChanges, StartRound, ProbeDone, UpdateGroupSelection, Reload, TypeOK
  <2>2. PICK i \in AliveAt(g) :
            FirstAlive(g, i) /\ selected' = [selected EXCEPT ![g] = Proxies[g][i]]
    BY <2>1 DEF UpdateGroupSelection
  <2>3. i \in 1 .. Len(Proxies[g]) /\ selected'[g] = Proxies[g][i]
    BY <2>2 DEF AliveAt, TypeOK
  <2>4. PICK j \in 1 .. Len(Proxies[g]) : Proxies[g][j] = selected[g]
    <3>1. Proxies[g] # <<>>
      BY <2>3, ProxyAt
    <3> QED
      BY <3>1 DEF SelectedIsMember, MembersOf
  <2>5. CASE node[selected[g]].alive
    <3>1. j \in AliveAt(g)
      BY <2>4, <2>5 DEF AliveAt
    <3>2. i <= j /\ i # j
      BY <3>1, <2>2, <2>3, <2>4 DEF FirstAlive
    <3>3. i < j
      BY <3>2, <2>3, <2>4, ProxyAt
    <3> QED
      BY <3>3, <2>3, <2>4
  <2> QED
    BY <2>5
<1> QED
  BY HInitInv, HNextInv, <1>1, PTL DEF Spec, AbandonsOnlyDead
-----------------------------------------------------------------------------
(* UDP buffers *)

\* The buffer of a goroutine is its own and not in the pool.
OneHolder ==
    \A g \in Goroutines :
        /\ held[g] \notin inPool
        /\ \A h \in Goroutines : held[g] # NoBuf /\ held[g] = held[h] => g = h

\* The buffer of handleUDP, and that of a listener that has read a reply,
\* hold its own bytes.
OwnBytes ==
    /\ \A r \in Requests : held[r] # NoBuf => bytes[held[r]] = {r}
    /\ \A l \in writing : held[l] # NoBuf /\ bytes[held[l]] = {l}

BInv == BTypeOK /\ OneHolder /\ OwnBytes /\ PayloadIntact

\* A buffer that Get returns is with no goroutine.
LEMMA GotIsFree ==
    ASSUME BInv, NEW b \in Buffers, NEW m, Got(b, m)
    PROVE  \A g \in Goroutines : held[g] # b
BY DEF BInv, OneHolder, Got, Fresh

LEMMA BInitInv == BInit => BInv
BY BAssumption DEF BInit, BInv, BTypeOK, OneHolder, OwnBytes, PayloadIntact, Goroutines

\* Every step keeps the invariant: the buffer that a step writes to is the
\* one of the goroutine that takes it.
LEMMA BNextInv == BInv /\ [BNext]_bVars => BInv'
<1> SUFFICES ASSUME BInv, [BNext]_bVars PROVE BInv'
    OBVIOUS
<1> USE BAssumption DEF BInv, BTypeOK, OneHolder, OwnBytes, PayloadIntact, Goroutines
<1>1. ASSUME NEW r \in Requests, NEW b \in Buffers, NEW n \in 0 .. Cap - 1, Receive(r, b, n)
      PROVE  BInv'
    <2>1. \A g \in Goroutines : held[g] # b
        BY <1>1, GotIsFree DEF Receive
    <2>2. BTypeOK'
        BY <1>1 DEF Receive
    <2>3. OneHolder'
        BY <1>1, <2>1 DEF Receive
    <2>4. OwnBytes'
        BY <1>1, <2>1 DEF Receive
    <2>5. PayloadIntact'
        BY <1>1, <2>1 DEF Receive
    <2> QED  BY <2>2, <2>3, <2>4, <2>5
<1>2. ASSUME NEW r \in Requests, NEW l \in Listeners, NEW b \in Buffers, Listen(r, l, b)
      PROVE  BInv'
    <2>1. \A g \in Goroutines : held[g] # b
        BY <1>2, GotIsFree DEF Listen
    <2>2. BTypeOK'
        BY <1>2 DEF Listen
    <2>3. OneHolder'
        BY <1>2, <2>1 DEF Listen
    <2>4. OwnBytes'
        BY <1>2, <2>1 DEF Listen
    <2>5. PayloadIntact'
        BY <1>2, <2>1 DEF Listen
    <2> QED  BY <2>2, <2>3, <2>4, <2>5
<1>3. ASSUME NEW r \in Requests, WriteUpstream(r) PROVE BInv'
    BY <1>3 DEF WriteUpstream
<1>4. ASSUME NEW r \in Requests, PutPayload(r) PROVE BInv'
    BY <1>4 DEF PutPayload
<1>5. ASSUME NEW l \in Listeners, NEW n \in 0 .. Cap - 1, ReadReply(l, n) PROVE BInv'
    BY <1>5 DEF ReadReply
<1>6. ASSUME NEW l \in Listeners, ReadNothing(l) PROVE BInv'
    BY <1>6 DEF ReadNothing
<1>7. ASSUME NEW l \in Listeners, WriteClient(l) PROVE BInv'
    BY <1>7 DEF WriteClient
<1>8. ASSUME NEW l \in Listeners, PutReplyBuffer(l) PROVE BInv'
    BY <1>8 DEF PutReplyBuffer
<1>9. ASSUME NEW b \in Buffers, Collect(b) PROVE BInv'
    BY <1>9 DEF Collect
<1>10. CASE UNCHANGED bVars
    BY <1>10 DEF bVars
<1> QED
    BY <1>1, <1>2, <1>3, <1>4, <1>5, <1>6, <1>7, <1>8, <1>9, <1>10 DEF BNext

\* Datagrams do not mix in the buffers of udpBufferPool: a goroutine passes
\* on nothing but the bytes of its own datagram, and the payload of handleUDP
\* keeps its length until handleUDP returns.
THEOREM DatagramsApart == BSpec => []PayloadIntact
<1>1. BInit => BInv
    BY BInitInv
<1>2. BInv /\ [BNext]_bVars => BInv'
    BY BNextInv
<1>3. BInv => PayloadIntact
    BY DEF BInv
<1> QED
    BY <1>1, <1>2, <1>3, PTL DEF BSpec

\* The slices of udpBufferPool and what goroutines hold of them keep their
\* types, lengths never exceeding that of a new buffer.
THEOREM BuffersTyped == BSpec => []BTypeOK
<1>1. BInit => BInv
    BY BInitInv
<1>2. BInv /\ [BNext]_bVars => BInv'
    BY BNextInv
<1>3. BInv => BTypeOK
    BY DEF BInv
<1> QED
    BY <1>1, <1>2, <1>3, PTL DEF BSpec
-----------------------------------------------------------------------------
(* Statistics *)

\* The hours above h.
Newer(D, h) == {k \in D : k > h}

\* pruneOldBucketsLocked keeps as many hours as it may, and what it deletes
\* is older than all it keeps.
LEMMA KeptHours ==
    ASSUME NEW m, DOMAIN m \subseteq Hours, IsFiniteSet(DOMAIN m)
    PROVE  /\ Kept(m) \subseteq DOMAIN m
           /\ IsFiniteSet(Kept(m)) /\ Cardinality(Kept(m)) <= MaxHourlyBuckets
           /\ \A h \in DOMAIN m \ Kept(m), k \in Kept(m) : h < k
<1> DEFINE D == DOMAIN m
<1> USE AAssumption
<1>1. Kept(m) = {h \in D : Cardinality(Newer(D, h)) < MaxHourlyBuckets}
    BY DEF Kept, Newer
<1>2. ASSUME NEW h \in D
      PROVE  IsFiniteSet(Newer(D, h)) /\ Cardinality(Newer(D, h)) \in Nat
    <2>1. Newer(D, h) \in SUBSET D
        BY DEF Newer
    <2> QED
        BY <2>1, FS_Subset, FS_CardinalityType
<1> HIDE DEF D
<1>3. D \subseteq Nat /\ IsFiniteSet(D)
    BY DEF D
<1>4. Kept(m) \subseteq D /\ IsFiniteSet(Kept(m))
    <2>1. Kept(m) \in SUBSET D
        BY <1>1
    <2> QED
        BY <2>1, <1>3, FS_Subset
<1>5. Cardinality(Kept(m)) <= MaxHourlyBuckets
    <2>1. CASE Kept(m) = {}
        BY <2>1, FS_EmptySet
    <2>2. CASE Kept(m) # {}
        <3>1. PICK o \in Kept(m) : \A k \in Kept(m) : o <= k
            BY <2>2, <1>3, <1>4, LeastNatural
        <3>2. o \in D /\ Cardinality(Newer(D, o)) < MaxHourlyBuckets
            BY <1>1
        <3>3. IsFiniteSet(Newer(D, o)) /\ Cardinality(Newer(D, o)) \in Nat
            BY <1>2, <3>2
        <3>4. Kept(m) \in SUBSET (Newer(D, o) \cup {o})
            <4>1. ASSUME NEW k \in Kept(m) PROVE k \in Newer(D, o) \cup {o}
                <5>1. k \in D /\ k \in Nat /\ o \in Nat /\ o <= k
                    BY <3>1, <1>3, <1>4
                <5>2. k > o \/ k = o
                    BY <5>1
                <5> QED
                    BY <5>1, <5>2 DEF Newer
            <4> QED
                BY <4>1
        <3>5. /\ IsFiniteSet(Newer(D, o) \cup {o})
              /\ Cardinality(Newer(D, o) \cup {o}) = Cardinality(Newer(D, o)) + 1
            <4>1. o \notin Newer(D, o)
                BY <3>2, <1>3 DEF Newer
            <4>2. /\ IsFiniteSet(Newer(D, o) \cup {o})
                  /\ Cardinality(Newer(D, o) \cup {o}) =
                        IF o \in Newer(D, o) THEN Cardinality(Newer(D, o))
                        ELSE Cardinality(Newer(D, o)) + 1
                BY <3>3, FS_AddElement, Zenon
            <4> QED
                BY <4>1, <4>2
        <3>6. /\ Cardinality(Kept(m)) <= Cardinality(Newer(D, o) \cup {o})
              /\ Cardinality(Kept(m)) \in Nat
            BY <3>4, <3>5, <1>4, FS_Subset, FS_CardinalityType
        <3> QED
            BY <3>2, <3>3, <3>5, <3>6
    <2> QED  BY <2>1, <2>2
<1>6. ASSUME NEW h \in D \ Kept(m), NEW k \in Kept(m) PROVE h < k
    <2>0. h \in Nat /\ k \in Nat
        BY <1>3, <1>4
    <2>1. SUFFICES ASSUME k <= h PROVE FALSE
        BY <2>0
    <2>2. k \in D /\ Cardinality(Newer(D, k)) < MaxHourlyBuckets
        BY <1>1
    <2>3. h \in D /\ ~ (Cardinality(Newer(D, h)) < MaxHourlyBuckets)
        BY <1>1
    <2>4. Newer(D, h) \in SUBSET Newer(D, k)
        <3>1. ASSUME NEW n \in Newer(D, h) PROVE n \in Newer(D, k)
            <4>1. n \in D /\ n \in Nat /\ n > h
                BY <1>3 DEF Newer
            <4>2. n > k
                BY <4>1, <2>0, <2>1
            <4> QED
                BY <4>1, <4>2 DEF Newer
        <3> QED
            BY <3>1
    <2>5. Cardinality(Newer(D, h)) <= Cardinality(Newer(D, k))
        BY <2>2, <2>4, <1>2, FS_Subset
    <2> QED
        BY <2>2, <2>3, <2>5, <1>2
<1> QED
    BY <1>4, <1>5, <1>6 DEF D

\* What belongs to Counts.
LEMMA CountsMember ==
    ASSUME NEW m
    PROVE  m \in Counts <=> /\ m \in [DOMAIN m -> 1 .. MaxCount]
                            /\ DOMAIN m \subseteq Hours
                            /\ IsFiniteSet(DOMAIN m)
                            /\ Cardinality(DOMAIN m) <= MaxHourlyBuckets
BY DEF Counts

LEMMA NoCountsOK == NoCounts \in Counts
<1>1. DOMAIN NoCounts = {} /\ NoCounts \in [{} -> 1 .. MaxCount]
    BY DEF NoCounts
<1>2. IsFiniteSet({}) /\ Cardinality({}) <= MaxHourlyBuckets
    BY FS_EmptySet, AAssumption
<1> QED
    BY <1>1, <1>2, CountsMember

\* Pruning brings any finite number of hours down to MaxHourlyBuckets.
LEMMA PruneOK ==
    ASSUME NEW m, m \in [DOMAIN m -> 1 .. MaxCount],
           DOMAIN m \subseteq Hours, IsFiniteSet(DOMAIN m)
    PROVE  Prune(m) \in Counts /\ DOMAIN Prune(m) = Kept(m)
<1>1. /\ Kept(m) \subseteq DOMAIN m /\ IsFiniteSet(Kept(m))
      /\ Cardinality(Kept(m)) <= MaxHourlyBuckets
    BY KeptHours
<1>2. DOMAIN Prune(m) = Kept(m) /\ Prune(m) \in [Kept(m) -> 1 .. MaxCount]
    BY <1>1 DEF Prune
<1> QED
    BY <1>1, <1>2, CountsMember

\* One more count keeps the bound, and no hour is dropped for an older one.
LEMMA CountedOK ==
    ASSUME NEW m \in Counts, NEW h \in Hours,
           h \in DOMAIN m => m[h] < MaxCount
    PROVE  /\ Counted(m, h) \in Counts
           /\ \A o \in DOMAIN m \ DOMAIN Counted(m, h), k \in DOMAIN Counted(m, h) : o < k
<1>0. /\ m \in [DOMAIN m -> 1 .. MaxCount] /\ DOMAIN m \subseteq Hours
      /\ IsFiniteSet(DOMAIN m) /\ Cardinality(DOMAIN m) <= MaxHourlyBuckets
    BY CountsMember
<1>1. CASE h \in DOMAIN m
    <2> DEFINE c == [m EXCEPT ![h] = @ + 1]
    <2>1. Counted(m, h) = c
        BY <1>1 DEF Counted
    <2>2. m[h] + 1 \in 1 .. MaxCount
        BY <1>0, <1>1, AAssumption
    <2>3. DOMAIN c = DOMAIN m /\ c \in [DOMAIN m -> 1 .. MaxCount]
        BY <1>0, <1>1, <2>2
    <2> HIDE DEF c
    <2>4. c \in Counts
        BY <1>0, <2>3, CountsMember
    <2> QED
        BY <2>1, <2>3, <2>4
<1>2. CASE h \notin DOMAIN m
    <2> DEFINE D == DOMAIN m \cup {h}
               e == [k \in D |-> IF k = h THEN 1 ELSE m[k]]
    <2>1. Counted(m, h) = Prune(e)
        BY <1>2 DEF Counted
    <2>2. DOMAIN e = D /\ e \in [D -> 1 .. MaxCount]
        BY <1>0, AAssumption
    <2>3. D \subseteq Hours /\ DOMAIN m \subseteq D /\ IsFiniteSet(D)
        BY <1>0, FS_AddElement
    <2> HIDE DEF e, D
    <2>4. Prune(e) \in Counts /\ DOMAIN Prune(e) = Kept(e)
        BY <2>2, <2>3, PruneOK
    <2>5. \A o \in D \ Kept(e), k \in Kept(e) : o < k
        BY <2>2, <2>3, KeptHours
    <2> QED
        BY <2>1, <2>3, <2>4, <2>5
<1> QED  BY <1>1, <1>2

\* What fits into MaxHourlyBuckets hours is not pruned.
LEMMA PruneNothing == ASSUME NEW m \in Counts PROVE Prune(m) = m
<1>1. /\ m \in [DOMAIN m -> 1 .. MaxCount] /\ DOMAIN m \subseteq Hours
      /\ IsFiniteSet(DOMAIN m) /\ Cardinality(DOMAIN m) <= MaxHourlyBuckets
    BY CountsMember
<1>2. ASSUME NEW h \in DOMAIN m
      PROVE  Cardinality({k \in DOMAIN m : k > h}) < MaxHourlyBuckets
    <2> DEFINE L == {k \in DOMAIN m : k > h}
    <2>1. L \subseteq DOMAIN m /\ L # DOMAIN m
        BY <1>1, AAssumption
    <2> HIDE DEF L
    <2>2. IsFiniteSet(L) /\ Cardinality(L) <= Cardinality(DOMAIN m)
          /\ Cardinality(L) # Cardinality(DOMAIN m)
        BY <1>1, <2>1, FS_Subset
    <2>3. Cardinality(L) \in Nat /\ Cardinality(DOMAIN m) \in Nat
        BY <1>1, <2>2, FS_CardinalityType
    <2>4. Cardinality(L) < MaxHourlyBuckets
        BY <1>1, <2>2, <2>3, AAssumption
    <2> QED
        BY <2>4 DEF L
<1>3. Kept(m) = DOMAIN m
    BY <1>2 DEF Kept
<1> QED
    BY <1>1, <1>3 DEF Prune

\* As long as nothing has gone wrong, a single save is under way, and what it
\* is about to write is what is counted or the rest is marked.
SavingAlone ==
    excuse = {} =>
        /\ \A s \in Savers :
              /\ spc[s] # "shared"
              /\ \A o \in Savers : s \in InHand /\ o \in InHand => s = o
              /\ spc[s] = "write" => \/ hourly = data[s] \/ isDirty
                                     \/ marking # {} \/ spc["clear"] = "mark"

AInv == ATypeOK /\ SavingAlone /\ UnsavedIsExplained

LEMMA AInitInv == AInit => AInv
<1> SUFFICES ASSUME AInit PROVE AInv
    OBVIOUS
<1>1. ATypeOK
    BY NoCountsOK DEF AInit, ATypeOK, Savers
<1>2. hourly = Loaded(disk)
    BY DEF AInit, Loaded
<1>3. SavingAlone
    BY DEF AInit, SavingAlone, InHand, Savers
<1> QED
    BY <1>1, <1>2, <1>3 DEF AInv, UnsavedIsExplained

\* The file is loaded as it is: it never holds too many hours.
LEMMA LoadedOK ==
    ASSUME NEW d \in Counts \cup {Torn}
    PROVE  /\ Loaded(d) \in Counts
           /\ d # Torn => Loaded(d) = d
BY PruneNothing, NoCountsOK DEF Loaded

LEMMA ANextInv == AInv /\ [ANext]_aVars => AInv'
<1> SUFFICES ASSUME AInv, [ANext]_aVars PROVE AInv'
    OBVIOUS
<1> USE DEF AInv, ATypeOK, SavingAlone, UnsavedIsExplained, InHand, Savers
<1>1. ASSUME NEW r \in Recorders, NEW h \in Hours, Record(r, h) PROVE AInv'
    <2>1. hourly' \in Counts
        BY <1>1, CountedOK DEF Record
    <2> QED
        BY <1>1, <2>1 DEF Record
<1>2. ASSUME NEW r \in Recorders, Mark(r) PROVE AInv'
    BY <1>2 DEF Mark
<1>3. CASE ClearMaps
    BY <1>3, NoCountsOK DEF ClearMaps
<1>4. CASE ClearMarks
    BY <1>4 DEF ClearMarks
<1>5. ASSUME NEW s \in Savers, SaveCheck(s) PROVE AInv'
    BY <1>5 DEF SaveCheck
<1>6. ASSUME NEW s \in Savers, Encode(s) PROVE AInv'
    BY <1>6 DEF Encode
<1>7. ASSUME NEW s \in Savers, Unmark(s) PROVE AInv'
    BY <1>7 DEF Unmark
<1>8. ASSUME NEW s \in Savers, Replace(s) PROVE AInv'
    <2>1. disk' \in Counts \cup {Torn}
        BY <1>8 DEF Replace
    <2>2. ATypeOK'
        BY <1>8, <2>1, NoCountsOK DEF Replace
    <2>3. CASE excuse # {}
        BY <1>8, <2>2, <2>3 DEF Replace
    <2>4. CASE excuse = {}
        <3>1. spc[s] = "write" /\ \A o \in Savers \ {s} : spc[o] \notin {"unmark", "write", "shared"}
            BY <1>8, <2>4 DEF Replace
        <3>2. disk' = data[s] /\ Loaded(data[s]) = data[s]
            <4>1. data[s] # Torn
                BY AAssumption
            <4> QED
                BY <1>8, <3>1, <4>1, LoadedOK DEF Replace
        <3> QED
            BY <1>8, <2>2, <2>4, <3>1, <3>2 DEF Replace
    <2> QED  BY <2>3, <2>4
<1>9. ASSUME NEW s \in Savers, ReplaceFails(s) PROVE AInv'
    BY <1>9, NoCountsOK DEF ReplaceFails
<1>10. CASE Restart
    BY <1>10, NoCountsOK, LoadedOK DEF Restart
<1>11. CASE UNCHANGED aVars
    BY <1>11 DEF aVars
<1> QED
    BY <1>1, <1>2, <1>3, <1>4, <1>5, <1>6, <1>7, <1>8, <1>9, <1>10, <1>11 DEF ANext

LEMMA StatisticsInv == ASpec => []AInv
<1>1. AInit => AInv
    BY AInitInv
<1>2. AInv /\ [ANext]_aVars => AInv'
    BY ANextInv
<1> QED
    BY <1>1, <1>2, PTL DEF ASpec

\* The variables of the statistics keep their types; neither the memory nor
\* the file holds more hours than MaxHourlyBuckets.
THEOREM HoursBounded == ASpec => []ATypeOK
<1>1. AInv => ATypeOK
    BY DEF AInv
<1> QED
    BY <1>1, StatisticsInv, PTL

\* Counts that the file lacks and that nothing is going to save need a count
\* between the encoding and Store(false), a failed write, or two saves at once.
THEOREM LossNeedsReason == ASpec => []UnsavedIsExplained
<1>1. AInv => UnsavedIsExplained
    BY DEF AInv
<1> QED
    BY <1>1, StatisticsInv, PTL

\* No record makes pruneOldBucketsLocked drop an hour that is newer than one
\* it keeps.
THEOREM NoNewerHourDropped == ASpec => NewestKept
<1> DEFINE Recorded == \E r \in Recorders : marking' = marking \cup {r} /\ r \notin marking
           DropsOlder == \A h \in DOMAIN hourly \ DOMAIN hourly' : \A k \in DOMAIN hourly' : h < k
<1>1. AInv /\ [ANext]_aVars => [Recorded => DropsOlder]_aVars
    <2> SUFFICES ASSUME AInv, ANext, Recorded PROVE DropsOlder
        OBVIOUS
    <2>1. PICK r \in Recorders, h \in Hours : Record(r, h)
        BY DEF ANext, Mark, ClearMaps, ClearMarks, SaveCheck, Encode, Unmark, Replace,
               ReplaceFails, Restart
    <2> QED
        BY <2>1, CountedOK DEF Record, AInv, ATypeOK
<1>2. [][Recorded => DropsOlder]_aVars => NewestKept
    BY DEF NewestKept
<1> QED
    BY <1>1, <1>2, StatisticsInv, PTL DEF ASpec
-----------------------------------------------------------------------------
(* AdBlock *)

\* The walk of IsBlocked finds a listed name exactly if there is one among
\* the name and the domains above it.  It is a recursive function, whose
\* values are those of the quantifier from the last label on.
LEMMA BlocksMeaning ==
    ASSUME NEW S, NEW name \in Seq(STRING)
    PROVE  /\ Blocks(S, name) \in BOOLEAN
           /\ Blocks(S, name) <=> \E i \in 1 .. Len(name) : SubSeq(name, i, Len(name)) \in S
<1> DEFINE n == Len(name)
           In(i) == SubSeq(name, i, n) \in S
           Step(w) == [i \in 1 .. n |-> In(i) \/ (i < n /\ w[i + 1])]
           walk == CHOOSE w : w = Step(w)
           found == [i \in 1 .. n |-> \E j \in i .. n : In(j)]
<1>0. n \in Nat /\ (name # <<>> <=> n > 0)
    OBVIOUS
<1>1. Blocks(S, name) = (name # <<>> /\ walk[1])
    BY Zenon DEF Blocks
<1> HIDE DEF n, In
<1>2. found = Step(found)
    <2>1. ASSUME NEW i \in 1 .. n PROVE found[i] = (In(i) \/ (i < n /\ found[i + 1]))
        <3>1. CASE i < n
            <4>1. i + 1 \in 1 .. n /\ \A j : j \in i .. n <=> j = i \/ j \in (i + 1) .. n
                BY <3>1, <1>0
            <4> QED
                BY <3>1, <4>1
        <3>2. CASE ~ (i < n)
            <4>1. i = n /\ \A j : j \in i .. n <=> j = i
                BY <3>2, <1>0
            <4> QED
                BY <3>2, <4>1
        <3> QED  BY <3>1, <3>2
    <2> QED
        BY <2>1
<1> HIDE DEF found
<1>3. walk = Step(walk)
    BY <1>2, Zenon
<1> HIDE DEF walk
<1>4. ASSUME NEW i \in 1 .. n PROVE walk[i] = found[i]
    <2> DEFINE Wrong == {k \in 0 .. n - 1 : walk[n - k] # found[n - k]}
    <2>1. SUFFICES ASSUME Wrong # {} PROVE FALSE
        <3>1. n - i \in 0 .. n - 1 /\ n - (n - i) = i
            BY <1>0
        <3> QED
            BY <3>1
    <2>2. Wrong \subseteq Nat
        BY <1>0
    <2>3. PICK k \in Wrong : \A o \in Wrong : k <= o
        BY <2>1, <2>2, LeastNatural
    <2> DEFINE p == n - k
    <2>4. p \in 1 .. n /\ walk[p] # found[p]
        BY <1>0
    <2>5. p < n => walk[p + 1] = found[p + 1]
        <3>1. SUFFICES ASSUME p < n, walk[p + 1] # found[p + 1] PROVE FALSE
            OBVIOUS
        <3>2. k - 1 \in 0 .. n - 1 /\ n - (k - 1) = p + 1
            BY <1>0, <3>1
        <3>3. k - 1 \in Wrong
            BY <3>1, <3>2
        <3> QED
            BY <2>3, <3>3, <3>2
    <2> HIDE DEF p
    <2>6. walk[p] = (In(p) \/ (p < n /\ walk[p + 1]))
        BY <1>3, <2>4
    <2>7. found[p] = (In(p) \/ (p < n /\ found[p + 1]))
        BY <1>2, <2>4
    <2> QED
        BY <2>4, <2>5, <2>6, <2>7
<1>5. CASE n > 0
    <2>1. 1 \in 1 .. n
        BY <1>0, <1>5
    <2>2. Blocks(S, name) = (\E j \in 1 .. n : In(j))
        BY <1>0, <1>1, <1>4, <1>5, <2>1 DEF found
    <2> QED
        BY <2>2 DEF n, In
<1>6. CASE ~ (n > 0)
    <2>1. name = <<>> /\ ~ \E i \in 1 .. n : TRUE
        BY <1>0, <1>6
    <2>2. Blocks(S, name) = FALSE
        BY <1>1, <2>1, Zenon
    <2> QED
        BY <2>1, <2>2 DEF n
<1> QED  BY <1>5, <1>6

\* A filter holds what the lists have offered it, and error pages; only one
\* that is installed is loaded, and sees the lists as they are.
OfferedTo(f) ==
    /\ blocked[f] \subseteq offered[f] \cup ErrorPage
    /\ f <= current => NamesOf(edition) \subseteq offered[f]
    /\ load[f] > 0 => f <= current
    /\ f > current => blocked[f] = {}

DInv == DTypeOK /\ \A f \in Filters : OfferedTo(f)

\* The lists as a sequence, the filters as numbers.
LEMMA ListFacts == Len(Lists) \in Nat /\ Filters \subseteq Nat /\ Boot \in Filters
BY DAssumption DEF Filters, Boot

\* A list that is read is one of the configuration, and loadAll goes on to
\* another of them or ends.
LEMMA ListInRange ==
    ASSUME DTypeOK, NEW f \in Filters, load[f] > 0
    PROVE  /\ edition[load[f]] \subseteq NamesOf(edition)
           /\ AfterList(f) \in 0 .. Len(Lists)
BY ListFacts DEF DTypeOK, NamesOf, AfterList

\* What an edition holds can be blocked.
LEMMA EditionNames ==
    ASSUME NEW e \in Editions PROVE NamesOf(e) \subseteq AllNames
BY DEF AllNames

\* What a call has asked for is a name, if only the empty one.
LEMMA AskedIsName == ASSUME DTypeOK, NEW c \in Lookups PROVE asked[c] \in Seq(STRING)
<1>1. asked[c] \in Names \/ asked[c] = <<>>
    BY DEF DTypeOK
<1>2. CASE asked[c] = <<>>
    BY <1>2
<1>3. CASE asked[c] \in Names
    BY <1>3, DAssumption
<1> QED  BY <1>1, <1>2, <1>3

LEMMA DInitInv == DInit => DInv
<1> SUFFICES ASSUME DInit PROVE DInv
    OBVIOUS
<1>1. Lists # <<>> => 1 <= Len(Lists)
    BY DAssumption
<1>2. NamesOf(edition) \subseteq AllNames
    BY EditionNames DEF DInit
<1>3. DTypeOK
    BY <1>1, <1>2, ListFacts, DAssumption DEF DInit, DTypeOK
<1> QED
    BY <1>3, ListFacts DEF DInit, DInv, OfferedTo, Filters, Boot

LEMMA DNextInv == DInv /\ [DNext]_dVars => DInv'
<1> SUFFICES ASSUME DInv, [DNext]_dVars PROVE DInv'
    OBVIOUS
<1> USE DEF DInv, listVars
<1>1. CASE UpChanges
    BY <1>1 DEF UpChanges, DTypeOK, OfferedTo
<1>2. ASSUME NEW e \in Editions, ListsChange(e) PROVE DInv'
    <2>1. NamesOf(e) \subseteq AllNames
        BY EditionNames
    <2>2. DTypeOK'
        BY <1>2, <2>1 DEF ListsChange, DTypeOK
    <2>3. ASSUME NEW f \in Filters PROVE OfferedTo(f)'
        BY <1>2 DEF ListsChange, DTypeOK, OfferedTo
    <2> QED
        BY <2>2, <2>3
<1>3. ASSUME NEW on \in BOOLEAN, NewAdBlocker(on) PROVE DInv'
    <2>1. current + 1 \in Filters /\ NamesOf(edition) \subseteq AllNames
        BY <1>3, EditionNames, DAssumption DEF NewAdBlocker, DTypeOK, Filters
    <2>2. DTypeOK'
        BY <1>3, <2>1, ListFacts, DAssumption DEF NewAdBlocker, DTypeOK
    <2>3. ASSUME NEW f \in Filters PROVE OfferedTo(f)'
        <3>1. CASE f = current + 1
            <4>1. f > current
                BY <3>1, ListFacts DEF DTypeOK
            <4> QED
                BY <1>3, <2>1, <3>1, <4>1, ListFacts DEF NewAdBlocker, DTypeOK, OfferedTo
        <3>2. CASE f # current + 1
            <4>1. f <= current' => f <= current
                BY <1>3, <3>2, ListFacts DEF NewAdBlocker, DTypeOK
            <4>2. f > current' => f > current
                BY <1>3, ListFacts DEF NewAdBlocker, DTypeOK
            <4>3. f <= current => f <= current'
                BY <1>3, ListFacts DEF NewAdBlocker, DTypeOK
            <4> QED
                BY <1>3, <3>2, <4>1, <4>2, <4>3 DEF NewAdBlocker, DTypeOK, OfferedTo
        <3> QED  BY <3>1, <3>2
    <2> QED
        BY <2>2, <2>3
<1>4. ASSUME NEW f \in Filters, ReadEnds(f) PROVE DInv'
    <2>1. load[f] > 0
        BY <1>4 DEF ReadEnds, ReadList, ReadFails
    <2>2. /\ edition[load[f]] \subseteq NamesOf(edition)
          /\ NamesOf(edition) \subseteq AllNames
          /\ AfterList(f) \in 0 .. Len(Lists)
        BY <2>1, ListInRange, EditionNames DEF DTypeOK
    <2>3. PICK names \in SUBSET AllNames :
              /\ names \subseteq NamesOf(edition) \/ names \subseteq ErrorPage
              /\ blocked' = [blocked EXCEPT ![f] = @ \cup names]
              /\ load' = [load EXCEPT ![f] = AfterList(f)]
              /\ UNCHANGED <<up, edition, current, enabled, wait, asked, answer, offered>>
        BY <1>4, <2>2 DEF ReadEnds, ReadList, ReadFails
    <2>4. DTypeOK'
        BY <2>2, <2>3 DEF DTypeOK
    <2>5. ASSUME NEW g \in Filters PROVE OfferedTo(g)'
        <3>1. CASE g = f
            <4>1. f <= current /\ ~(f > current)
                BY <2>1, ListFacts DEF OfferedTo, DTypeOK
            <4> QED
                BY <2>3, <3>1, <4>1 DEF DTypeOK, OfferedTo
        <3>2. CASE g # f
            BY <2>3, <3>2 DEF DTypeOK, OfferedTo
        <3> QED  BY <3>1, <3>2
    <2> QED
        BY <2>4, <2>5
<1>5. CASE Refresh
    <2>1. 1 \in 0 .. Len(Lists) /\ Boot <= current
        BY <1>5, ListFacts, DAssumption DEF Refresh, DTypeOK, Boot, Filters
    <2>2. DTypeOK'
        BY <1>5, <2>1, ListFacts DEF Refresh, DTypeOK
    <2>3. ASSUME NEW f \in Filters PROVE OfferedTo(f)'
        BY <1>5, <2>1, ListFacts DEF Refresh, DTypeOK, OfferedTo
    <2> QED
        BY <2>2, <2>3
<1>6. ASSUME NEW c \in Lookups, Answer(c) PROVE DInv'
    <2>1. Blocks(blocked[wait[c]], asked[c]) \in BOOLEAN
        BY AskedIsName, BlocksMeaning
    <2>2. DTypeOK'
        BY <1>6, <2>1, DAssumption DEF Answer, DTypeOK
    <2> QED
        BY <1>6, <2>2 DEF Answer, OfferedTo
<1>7. ASSUME NEW c \in Lookups, NEW name \in Names, IsBlocked(c, name) PROVE DInv'
    <2>1. current \in 0 .. MaxFilters
        BY DAssumption DEF DTypeOK, Filters
    <2>2. DTypeOK'
        BY <1>7, <2>1 DEF IsBlocked, DTypeOK
    <2> QED
        BY <1>7, <2>2 DEF IsBlocked, OfferedTo
<1>8. CASE UNCHANGED dVars
    BY <1>8 DEF dVars, DTypeOK, OfferedTo
<1> QED
    BY <1>1, <1>2, <1>3, <1>4, <1>5, <1>6, <1>7, <1>8 DEF DNext

\* IsBlocked refuses a name only if the lists have held it, or a domain above
\* it, since the filter that answers was installed, or an error page did,
\* through any changes of the lists, refreshes, failed reads and reloads, also
\* for a call that waits while a reload replaces the filter.
THEOREM OnlyOfferedBlocked == DSpec => BlocksOnlyOffered
<1> DEFINE Justified ==
        \A c \in Lookups :
          wait[c] # 0 /\ wait'[c] = 0 /\ answer'[c] =>
              \E i \in 1 .. Len(asked[c]) :
                  SubSeq(asked[c], i, Len(asked[c])) \in offered[wait[c]] \cup ErrorPage
<1>1. DInit => DInv
    BY DInitInv
<1>2. DInv /\ [DNext]_dVars => DInv'
    BY DNextInv
<1>3. DInv /\ [DNext]_dVars => [Justified]_dVars
    <2> SUFFICES ASSUME DInv, DNext, NEW c \in Lookups, wait[c] # 0, wait'[c] = 0, answer'[c]
                 PROVE  \E i \in 1 .. Len(asked[c]) :
                            SubSeq(asked[c], i, Len(asked[c])) \in offered[wait[c]] \cup ErrorPage
        OBVIOUS
    <2>1. Answer(c)
        BY DEF DNext, UpChanges, ListsChange, NewAdBlocker, ReadEnds, ReadList, ReadFails,
               Refresh, Answer, IsBlocked, DInv, DTypeOK, listVars
    <2>2. wait[c] \in Filters
        BY DAssumption DEF DInv, DTypeOK, Filters
    <2>3. blocked[wait[c]] \subseteq offered[wait[c]] \cup ErrorPage
        BY <2>2 DEF DInv, OfferedTo
    <2>4. Blocks(blocked[wait[c]], asked[c])
        BY <2>1 DEF Answer, DInv, DTypeOK
    <2>5. \E i \in 1 .. Len(asked[c]) :
              SubSeq(asked[c], i, Len(asked[c])) \in blocked[wait[c]]
        BY <2>4, AskedIsName, BlocksMeaning DEF DInv
    <2> QED
        BY <2>3, <2>5
<1>4. [][Justified]_dVars => BlocksOnlyOffered
    BY DEF BlocksOnlyOffered
<1> QED
    BY <1>1, <1>2, <1>3, <1>4, PTL DEF DSpec

\* Filters hold nothing but names of lists and error pages and loadAll stays within the lists
\* of the configuration.
THEOREM FiltersTyped == DSpec => []DTypeOK
<1>1. DInit => DInv
    BY DInitInv
<1>2. DInv /\ [DNext]_dVars => DInv'
    BY DNextInv
<1>3. DInv => DTypeOK
    BY DEF DInv
<1> QED
    BY <1>1, <1>2, <1>3, PTL DEF DSpec
-----------------------------------------------------------------------------
(* All parts *)

AllInv == HInv /\ RInv /\ DInv /\ AInv /\ BInv

LEMMA AllInitInv == AllInit => AllInv
BY HInitInv, RInitInv, DInitInv, AInitInv, BInitInv DEF AllInit, AllInv

\* A step of one part is none of the others.
LEMMA AllNextInv == AllInv /\ [AllNext]_allVars => AllInv'
<1>1. [AllNext]_allVars =>
          /\ [Next]_vars /\ [RNext]_rVars /\ [DNext]_dVars /\ [ANext]_aVars /\ [BNext]_bVars
          /\ UNCHANGED running
    BY DEF AllNext, allVars
<1> QED
    BY <1>1, HNextInv, RNextInv, DNextInv, ANextInv, BNextInv DEF AllInv

\* Whatever part runs, its variables keep their types: the trie stays a tree,
\* the statistics stay within their number of hours, a probe leaves a status
\* in range, a filter holds only names of lists and error pages, a buffer is
\* nobody's twice.
THEOREM PartsKeepTypes == AllSpec => []PartsTyped
<1>1. AllInv => PartsTyped
    BY RInvFacts DEF AllInv, PartsTyped, HInv, DInv, AInv, BInv
<1> QED
    BY AllInitInv, AllNextInv, <1>1, PTL DEF AllSpec
=============================================================================
