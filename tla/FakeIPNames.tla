---------------------------- MODULE FakeIPNames -----------------------------
(***************************************************************************)
(* The FakeIP pool implements the name service.  An address turns into the *)
(* domain of the record its entry in the IP table points to (LookUpAddr);  *)
(* the pairs given out are those of all records built; the saved ones are  *)
(* those of the persistence file, if it can be read.                       *)
(***************************************************************************)
EXTENDS FakeIPPool

\* The pairs of the records of a heap, and those of a saved state.
HeapPairs(h) == UNION {h[p].ips \X {h[p].domain} : p \in {q \in Ptrs : h[q] # None}}
FilePairs(s) ==
    UNION {s.records[d].ips \X {d} : d \in {e \in Domains : s.records[e] # None}}

GivenPairs == HeapPairs(recs)

OwnerOf == [a \in Addrs |-> IF ips[a] = 0 THEN None ELSE recs[ips[a]].domain]

SavedPairs == IF Readable(file) THEN FilePairs(file) ELSE {}

Names == INSTANCE NameService WITH given <- GivenPairs, owner <- OwnerOf, saved <- SavedPairs

\* Refinement: whatever the queries, the cleaner, the saver and restarts do
\* in between, every step of the pool is a step of the name service or none
\* at all: no address passes from one domain to another without having been
\* free, no entry appears that no record was built for, and a restart
\* resurrects no pair that was not handed out.
ImplementsNameService == Names!Spec
=============================================================================
