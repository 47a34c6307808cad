----------------------------- MODULE UDPBuffers -----------------------------
(***************************************************************************)
(* The buffers of the UDP proxy (udpBufferPool in tproxy.go): the receive  *)
(* loop copies a datagram without a session into one and hands it to a     *)
(* goroutine handleUDP, which may start listenFromUpstream; a listener     *)
(* keeps a buffer for the replies of its session.                          *)
(*                                                                         *)
(* A buffer is a slice: its array has room for Cap bytes, its length is    *)
(* whatever the slice had when Put took it.  A datagram is its sender and  *)
(* its length.  Sessions are the business of UDPSessions.                  *)
(***************************************************************************)
EXTENDS Naturals, FiniteSets

CONSTANTS
    Buffers,    \* bound: arrays in use or in the pool at the same time
    Requests,   \* bound: goroutines handleUDP at the same time
    Listeners,  \* bound: goroutines listenFromUpstream at the same time
    Cap,        \* 65536, more than any datagram
    NoBuf       \* a goroutine without a buffer

VARIABLES
    inPool,  \* buffers in udpBufferPool
    len,     \* per buffer the length of its slice
    bytes,   \* per buffer whose bytes its array holds: {} or {a goroutine}
    held,    \* per goroutine its buffer
    size,    \* per goroutine the length of the datagram it is passing on
    writing, \* listeners that have read a reply and not yet written it
    gone     \* per goroutine the bytes it has passed on: {} if none yet

bVars == <<inPool, len, bytes, held, size, writing, gone>>

\* What the proofs need of the constants.
ASSUME BAssumption ==
    /\ Cap \in Nat \ {0}
    /\ NoBuf \notin Buffers
    /\ Requests \cap Listeners = {}

Goroutines == Requests \cup Listeners

\* A buffer that is neither in the pool nor with a goroutine is garbage, and
\* New may use its room again.
Fresh == {b \in Buffers : b \notin inPool /\ \A g \in Goroutines : held[g] # b}

\* Get returns a buffer of the pool as it was put there, or New makes one.
\* The pool may be empty for this goroutine although it holds buffers.
Got(b, n) ==
    \/ b \in inPool /\ n = len[b]
    \/ b \in Fresh /\ n = Cap
-----------------------------------------------------------------------------
(* Requests *)

\* The receive loop reads n bytes, takes a buffer with [:n], which only
\* needs the room of its array, and copies the bytes.
Receive(r, b, n) ==
    /\ held[r] = NoBuf
    /\ \E m \in 0 .. Cap : Got(b, m)
    /\ inPool' = inPool \ {b}
    /\ len' = [len EXCEPT ![b] = n]
    /\ bytes' = [bytes EXCEPT ![b] = {r}]
    /\ held' = [held EXCEPT ![r] = b]
    /\ size' = [size EXCEPT ![r] = n]
    /\ UNCHANGED <<writing, gone>>

\* listenFromUpstream starts for the session of r: its buffer keeps the
\* length it was put back with.
Listen(r, l, b) ==
    /\ held[r] # NoBuf /\ held[l] = NoBuf
    /\ \E m \in 0 .. Cap : Got(b, m) /\ len' = [len EXCEPT ![b] = m]
    /\ inPool' = inPool \ {b}
    /\ held' = [held EXCEPT ![l] = b]
    /\ UNCHANGED <<bytes, size, writing, gone>>

\* handleUDP writes its payload to the upstream.
WriteUpstream(r) ==
    /\ held[r] # NoBuf
    /\ gone' = [gone EXCEPT ![r] = bytes[held[r]]]
    /\ UNCHANGED <<inPool, len, bytes, held, size, writing>>

\* Mutant: the receive loop puts the buffer back as soon as it has started
\* the goroutine, which goes on using it.
PutEarly(r) ==
    /\ held[r] # NoBuf
    /\ inPool' = inPool \cup {held[r]}
    /\ UNCHANGED <<len, bytes, held, size, writing, gone>>

\* handleUDP returns, on whatever path: the payload goes back, [:n] and all.
PutPayload(r) ==
    /\ held[r] # NoBuf
    /\ inPool' = inPool \cup {held[r]}
    /\ held' = [held EXCEPT ![r] = NoBuf]
    /\ size' = [size EXCEPT ![r] = 0]
    /\ gone' = [gone EXCEPT ![r] = {}]
    /\ UNCHANGED <<len, bytes, writing>>
-----------------------------------------------------------------------------
(* Replies *)

\* The upstream has sent n bytes: Read takes what fits into the slice.
ReadReply(l, n) ==
    /\ held[l] # NoBuf /\ l \notin writing /\ len[held[l]] > 0
    /\ size' = [size EXCEPT ![l] = IF n <= len[held[l]] THEN n ELSE len[held[l]]]
    /\ bytes' = [bytes EXCEPT ![held[l]] = {l}]
    /\ writing' = writing \cup {l}
    /\ UNCHANGED <<inPool, len, held, gone>>

\* Into an empty slice Read reads nothing and does not wait for a reply.
ReadNothing(l) ==
    /\ held[l] # NoBuf /\ l \notin writing /\ len[held[l]] = 0
    /\ size' = [size EXCEPT ![l] = 0]
    /\ bytes' = [bytes EXCEPT ![held[l]] = {l}]
    /\ writing' = writing \cup {l}
    /\ UNCHANGED <<inPool, len, held, gone>>

\* ... and is written to the client.
WriteClient(l) ==
    /\ l \in writing
    /\ gone' = [gone EXCEPT ![l] = bytes[held[l]]]
    /\ writing' = writing \ {l}
    /\ UNCHANGED <<inPool, len, bytes, held, size>>

\* Read fails and listenFromUpstream returns.
PutReplyBuffer(l) ==
    /\ held[l] # NoBuf /\ l \notin writing
    /\ inPool' = inPool \cup {held[l]}
    /\ held' = [held EXCEPT ![l] = NoBuf]
    /\ size' = [size EXCEPT ![l] = 0]
    /\ gone' = [gone EXCEPT ![l] = {}]
    /\ UNCHANGED <<len, bytes, writing>>

\* The garbage collector empties the pool.
Collect(b) ==
    /\ b \in inPool
    /\ inPool' = inPool \ {b}
    /\ UNCHANGED <<len, bytes, held, size, writing, gone>>
-----------------------------------------------------------------------------
BInit ==
    /\ inPool = {}
    /\ len = [b \in Buffers |-> Cap]
    /\ bytes = [b \in Buffers |-> {}]
    /\ held = [g \in Goroutines |-> NoBuf]
    /\ size = [g \in Goroutines |-> 0]
    /\ writing = {}
    /\ gone = [g \in Goroutines |-> {}]

BNext ==
    \/ \E r \in Requests :
          \/ \E b \in Buffers, n \in 0 .. Cap - 1 : Receive(r, b, n)
          \/ \E l \in Listeners, b \in Buffers : Listen(r, l, b)
          \/ WriteUpstream(r) \/ PutPayload(r)
    \/ \E l \in Listeners :
          \/ \E n \in 0 .. Cap - 1 : ReadReply(l, n)
          \/ ReadNothing(l)
          \/ WriteClient(l) \/ PutReplyBuffer(l)
    \/ \E b \in Buffers : Collect(b)

BSpec == BInit /\ [][BNext]_bVars
-----------------------------------------------------------------------------
(* Properties *)

\* Every variable keeps its type.
BTypeOK ==
    /\ inPool \subseteq Buffers
    /\ len \in [Buffers -> 0 .. Cap]
    /\ bytes \in [Buffers -> SUBSET Goroutines]
    /\ held \in [Goroutines -> Buffers \cup {NoBuf}]
    /\ size \in [Goroutines -> 0 .. Cap]
    /\ writing \subseteq Listeners
    /\ gone \in [Goroutines -> SUBSET Goroutines]

\* Datagrams do not mix: although buffers go round through udpBufferPool, a
\* goroutine passes on nothing but the bytes of its own datagram, and the
\* payload of handleUDP keeps its length until handleUDP returns.
PayloadIntact ==
    \A g \in Goroutines :
        /\ gone[g] \subseteq {g}
        /\ g \in Requests /\ held[g] # NoBuf => len[held[g]] = size[g]
=============================================================================
