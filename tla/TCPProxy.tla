------------------------------ MODULE TCPProxy ------------------------------
(***************************************************************************)
(* TCP connections of the gateway: handleTCP for connections the kernel    *)
(* diverts (tproxy.go), handleHTTPInboundConn for the HTTP proxy port      *)
(* (inbound_proxy.go), the copy loops both run, the table of connections   *)
(* with Kill, and the connections of the WebUI (dashboard.go).             *)
(*                                                                         *)
(* A handler is a goroutine with the socket of its client and, once it has *)
(* dialled, the socket of its target.  Bytes are left out: a copy loop     *)
(* runs until its input ends or its output fails.  Rules, health checks,   *)
(* pool, resolver and network answer at random.                            *)
(***************************************************************************)
EXTENDS Naturals, FiniteSets

CONSTANTS
    Handlers,  \* bound: connections being handled at the same time
    MaxBusy,   \* bound: a client connects while fewer handlers are busy
    MaxHops,   \* bound: times a connection comes back to the gateway
    MaxTries,  \* dials through a proxy: len(backoffs) + 1
    MaxAddrs   \* bound: addresses LookupIP finds for a name

ASSUME BusyAssumption == MaxBusy \in Nat
ASSUME HopsAssumption == MaxHops \in Nat
ASSUME TriesAssumption == MaxTries \in Nat \ {0}
ASSUME AddrsAssumption == MaxAddrs \in Nat

VARIABLES
    pc,       \* where the handler is
    kind,     \* "tproxy" or "http"
    hops,     \* how often the gateway itself has dialled this connection
    dest,     \* destination: a FakeIP with a "name", a "fake" one without, or "other"
    left,     \* dials left: tries through the proxy, or addresses of the name
    client,   \* the socket of the client: "open", "shut" by CloseWrite, "closed"
    target,   \* the socket of the target, in the same way
    cEnd,     \* the client is "open", has sent its "fin", or is "gone": reset, or
              \* our socket is closed (external, but for our own Close)
    tEnd,     \* the target, in the same way
    half,     \* whether the target's socket has a CloseWrite
    up,       \* whether a goroutine copies to the target
    down,     \* whether a goroutine copies to the client
    conns,    \* GlobalConnTracker.conns: the handlers whose client is listed
    killing   \* the connections Kill has taken off the list but not yet closed

sockVars == <<client, target, cEnd, tEnd, half>>
copyVars == <<up, down>>
tableVars == <<conns, killing>>
reqVars == <<kind, hops, dest>>
vars == <<pc, reqVars, left, sockVars, copyVars, tableVars>>

PCs == {"idle", "request", "route", "dial", "sleep", "byAddr", "resolve", "addrs",
        "fallback", "add", "header", "copy", "reply", "remove", "finish", "ui", "served"}

Goto(h, l) == pc' = [pc EXCEPT ![h] = l]

\* Nothing of an earlier connection of h is left: the model reuses it.
Unused(h) == pc[h] = "idle" /\ ~up[h] /\ h \notin killing
-----------------------------------------------------------------------------
(* A connection arrives and is routed *)

\* Accept of the TProxy listener or of the HTTP listener.
Accept(h, k, d) ==
    /\ Cardinality({g \in Handlers : ~Unused(g)}) < MaxBusy
    /\ Unused(h)
    /\ k = "http" => d = "other"
    /\ kind' = [kind EXCEPT ![h] = k]
    /\ dest' = [dest EXCEPT ![h] = d]
    /\ Goto(h, IF k = "http" THEN "request" ELSE "route")
    /\ client' = [client EXCEPT ![h] = "open"]
    /\ cEnd' = [cEnd EXCEPT ![h] = "open"]
    /\ UNCHANGED <<hops, left, target, tEnd, half, copyVars, tableVars>>

\* http.ReadRequest of the HTTP proxy: a request, or an error.
ReadRequest(h) ==
    /\ pc[h] = "request"
    /\ \/ cEnd[h] # "gone" /\ Goto(h, "route")
       \/ Goto(h, "finish")
    /\ UNCHANGED <<reqVars, left, sockVars, copyVars, tableVars>>

\* The virtual domain of the WebUI comes before the rules.
RouteUI(h) ==
    /\ pc[h] = "route" /\ kind[h] = "tproxy" /\ dest[h] = "name"
    /\ Goto(h, "ui")
    /\ UNCHANGED <<reqVars, left, sockVars, copyVars, tableVars>>

RouteReject(h) ==
    /\ pc[h] = "route"
    /\ Goto(h, "finish")
    /\ UNCHANGED <<reqVars, left, sockVars, copyVars, tableVars>>

\* A proxy; the HTTP port dials once, and a direct host just so.
RouteProxy(h) ==
    /\ pc[h] = "route"
    /\ Goto(h, "dial")
    /\ left' = [left EXCEPT ![h] = IF kind[h] = "http" THEN 1 ELSE MaxTries]
    /\ UNCHANGED <<reqVars, sockVars, copyVars, tableVars>>

\* DIRECT: the name is resolved; an address without a name is dialled.
RouteDirect(h) ==
    /\ pc[h] = "route" /\ kind[h] = "tproxy"
    /\ Goto(h, IF dest[h] = "name" THEN "resolve" ELSE "fallback")
    /\ UNCHANGED <<reqVars, left, sockVars, copyVars, tableVars>>
-----------------------------------------------------------------------------
(* Dialling *)

StartCopy(h) ==
    /\ up' = [up EXCEPT ![h] = TRUE]
    /\ down' = [down EXCEPT ![h] = TRUE]

\* The target is connected; hc: its socket has a CloseWrite (a *net.TCPConn
\* has one, the connection through a SOCKS5 client need not).  Nothing looks
\* at the destination any more.
Connected(h, hc) ==
    /\ dest' = [dest EXCEPT ![h] = "other"]
    /\ left' = [left EXCEPT ![h] = 0]
    /\ target' = [target EXCEPT ![h] = "open"]
    /\ tEnd' = [tEnd EXCEPT ![h] = "open"]
    /\ half' = [half EXCEPT ![h] = hc]
    /\ IF kind[h] = "http" THEN Goto(h, "copy") /\ StartCopy(h)
       ELSE Goto(h, "add") /\ UNCHANGED copyVars

DialOK(h, hc) ==
    /\ pc[h] \in {"dial", "byAddr", "addrs"}
    /\ pc[h] = "addrs" => hc
    /\ Connected(h, hc)
    /\ UNCHANGED <<kind, hops, client, cEnd, tableVars>>

\* Mutant: the last try is followed by another one.
DialFailsEndless(h) ==
    /\ pc[h] = "dial"
    /\ Goto(h, "sleep")
    /\ left' = [left EXCEPT ![h] = left[h] - 1]
    /\ UNCHANGED <<reqVars, sockVars, copyVars, tableVars>>

\* A failed try: the handler waits before the next one.
DialFails(h) ==
    /\ pc[h] = "dial"
    /\ Goto(h, IF left[h] = 1 THEN "finish" ELSE "sleep")
    /\ left' = [left EXCEPT ![h] = left[h] - 1]
    /\ UNCHANGED <<reqVars, sockVars, copyVars, tableVars>>

BackoffOver(h) ==
    /\ pc[h] = "sleep"
    /\ Goto(h, "dial")
    /\ UNCHANGED <<reqVars, left, sockVars, copyVars, tableVars>>

\* "address type not supported": the name is resolved here and its first
\* address dialled through the proxy, once.
ProxyWantsAddr(h) ==
    /\ pc[h] = "dial" /\ kind[h] = "tproxy" /\ dest[h] = "name"
    /\ Goto(h, "byAddr")
    /\ UNCHANGED <<reqVars, left, sockVars, copyVars, tableVars>>

\* The name does not resolve, or that dial fails.
ByAddrFails(h) ==
    /\ pc[h] = "byAddr"
    /\ Goto(h, "finish")
    /\ UNCHANGED <<reqVars, left, sockVars, copyVars, tableVars>>

\* LookupIP of a DIRECT name: none if it fails or AdBlock blocks the name.
Resolve(h, n) ==
    /\ pc[h] = "resolve"
    /\ left' = [left EXCEPT ![h] = n]
    /\ Goto(h, IF n = 0 THEN "fallback" ELSE "addrs")
    /\ UNCHANGED <<reqVars, sockVars, copyVars, tableVars>>

AddrFails(h) ==
    /\ pc[h] = "addrs"
    /\ left' = [left EXCEPT ![h] = left[h] - 1]
    /\ Goto(h, IF left[h] = 1 THEN "fallback" ELSE "addrs")
    /\ UNCHANGED <<reqVars, sockVars, copyVars, tableVars>>

\* Without a connection so far the destination itself is dialled.
FallbackFails(h) ==
    /\ pc[h] = "fallback"
    /\ Goto(h, "finish")
    /\ UNCHANGED <<reqVars, left, sockVars, copyVars, tableVars>>

FallbackOK(h) ==
    /\ pc[h] = "fallback" /\ dest[h] = "other"
    /\ Connected(h, TRUE)
    /\ UNCHANGED <<kind, hops, client, cEnd, tableVars>>

\* A FakeIP address: the output rule of AutoRoute diverts the connection to
\* the gateway's own listener, where it is the connection of handler g.
FallbackToSelf(h, g) ==
    /\ pc[h] = "fallback" /\ dest[h] # "other"
    /\ g # h /\ Unused(g) /\ hops[h] < MaxHops
    /\ dest' = [dest EXCEPT ![h] = "other", ![g] = dest[h]]
    /\ hops' = [hops EXCEPT ![g] = hops[h] + 1]
    /\ pc' = [pc EXCEPT ![h] = "add", ![g] = "route"]
    /\ target' = [target EXCEPT ![h] = "open"]
    /\ tEnd' = [tEnd EXCEPT ![h] = "open"]
    /\ half' = [half EXCEPT ![h] = TRUE]
    /\ client' = [client EXCEPT ![g] = "open"]
    /\ cEnd' = [cEnd EXCEPT ![g] = "open"]
    /\ UNCHANGED <<kind, left, copyVars, tableVars>>
-----------------------------------------------------------------------------
(* The table of connections *)

\* GlobalConnTracker.Add; then the plain copy loops, or, on port 80 with
\* rewrites, the header first.
Add(h) ==
    /\ pc[h] = "add"
    /\ conns' = conns \cup {h}
    /\ \/ Goto(h, "copy") /\ StartCopy(h)
       \/ Goto(h, "header") /\ UNCHANGED copyVars
    /\ UNCHANGED <<reqVars, left, sockVars, killing>>

\* Mutant: the entry stays in the table until it is closed.
KillKeepsEntry(h) ==
    /\ h \in conns
    /\ killing' = killing \cup {h}
    /\ UNCHANGED <<pc, reqVars, left, sockVars, copyVars, conns>>

\* Kill takes the entry off the table under the lock.  An id that is not in
\* the table changes nothing.
Kill(h) ==
    /\ h \in conns
    /\ conns' = conns \ {h}
    /\ killing' = killing \cup {h}
    /\ UNCHANGED <<pc, reqVars, left, sockVars, copyVars>>

\* ... and closes the client's socket without it.
CloseKilled(h) ==
    /\ h \in killing
    /\ killing' = killing \ {h}
    /\ client' = [client EXCEPT ![h] = "closed"]
    /\ cEnd' = [cEnd EXCEPT ![h] = "gone"]
    /\ UNCHANGED <<pc, reqVars, left, target, tEnd, half, copyVars, conns>>
-----------------------------------------------------------------------------
(* Copying *)

\* Reading from a socket ends: its peer is through, or we have closed it.
Ended(end) == end # "open"

\* Writing to a socket fails, as soon as there is something to write.
Broken(end) == end = "gone"

\* rewriteHTTPHeader has read the header: it is written to the target, a
\* goroutine copies the rest and the handler itself copies the replies.
HeaderRewritten(h) ==
    /\ pc[h] = "header"
    /\ ~Broken(cEnd[h])
    /\ Goto(h, "reply")
    /\ up' = [up EXCEPT ![h] = TRUE]
    /\ UNCHANGED <<reqVars, left, sockVars, down, tableVars>>

\* No header comes or it does not parse: plain copy loops, without the bytes
\* read so far.
HeaderRefused(h) ==
    /\ pc[h] = "header"
    /\ Goto(h, "copy")
    /\ StartCopy(h)
    /\ UNCHANGED <<reqVars, left, sockVars, tableVars>>

\* CloseWrite of a socket that is still open.
CloseWrite(sock) == IF sock = "open" THEN "shut" ELSE sock

\* Mutant: the goroutine ends without CloseWrite.
UpSilent(h) ==
    /\ up[h] /\ (Ended(cEnd[h]) \/ Broken(tEnd[h]))
    /\ up' = [up EXCEPT ![h] = FALSE]
    /\ UNCHANGED <<pc, reqVars, left, sockVars, down, tableVars>>

\* io.Copy to the target returns and the goroutine calls CloseWrite, which
\* nobody can observe in between.  After a rewrite it just ends.
UpEnds(h) ==
    /\ up[h] /\ (Ended(cEnd[h]) \/ Broken(tEnd[h]))
    /\ up' = [up EXCEPT ![h] = FALSE]
    /\ target' = [target EXCEPT ![h] = IF pc[h] = "copy" /\ half[h] THEN CloseWrite(@) ELSE @]
    /\ UNCHANGED <<pc, reqVars, left, client, cEnd, tEnd, half, down, tableVars>>

\* Mutant: the goroutine waits for the client to hang up.
DownWaits(h) ==
    /\ down[h] /\ Broken(cEnd[h])
    /\ down' = [down EXCEPT ![h] = FALSE]
    /\ client' = [client EXCEPT ![h] = CloseWrite(@)]
    /\ UNCHANGED <<pc, reqVars, left, target, cEnd, tEnd, half, up, tableVars>>

DownEnds(h) ==
    /\ down[h] /\ (Ended(tEnd[h]) \/ Broken(cEnd[h]))
    /\ down' = [down EXCEPT ![h] = FALSE]
    /\ client' = [client EXCEPT ![h] = CloseWrite(@)]
    /\ UNCHANGED <<pc, reqVars, left, target, cEnd, tEnd, half, up, tableVars>>

\* Mutant: the handler goes on when one of the two loops is over.
CopiedOneSide(h) ==
    /\ pc[h] = "copy" /\ (~up[h] \/ ~down[h])
    /\ Goto(h, "remove")
    /\ UNCHANGED <<reqVars, left, sockVars, copyVars, tableVars>>

\* wg.Wait returns.
Copied(h) ==
    /\ pc[h] = "copy" /\ ~up[h] /\ ~down[h]
    /\ Goto(h, IF kind[h] = "http" THEN "finish" ELSE "remove")
    /\ UNCHANGED <<reqVars, left, sockVars, copyVars, tableVars>>

\* After a rewrite the handler returns with the last reply, whatever the
\* goroutine that copies the requests does.
Replied(h) ==
    /\ pc[h] = "reply"
    /\ Ended(tEnd[h]) \/ Broken(cEnd[h])
    /\ Goto(h, "remove")
    /\ UNCHANGED <<reqVars, left, sockVars, copyVars, tableVars>>
-----------------------------------------------------------------------------
(* The deferred calls, last one first *)

Remove(h) ==
    /\ pc[h] = "remove"
    /\ conns' = conns \ {h}
    /\ Goto(h, "finish")
    /\ UNCHANGED <<reqVars, left, sockVars, copyVars, killing>>

\* A handler that returns: nothing of its connection is remembered.
Forget(h) ==
    /\ kind' = [kind EXCEPT ![h] = "tproxy"]
    /\ hops' = [hops EXCEPT ![h] = 0]
    /\ dest' = [dest EXCEPT ![h] = "other"]
    /\ left' = [left EXCEPT ![h] = 0]
    /\ cEnd' = [cEnd EXCEPT ![h] = "gone"]
    /\ tEnd' = [tEnd EXCEPT ![h] = "gone"]
    /\ half' = [half EXCEPT ![h] = TRUE]

\* Both sockets are closed and ActiveTCPConnections goes down.  What was
\* known of the connection is forgotten.
Finish(h) ==
    /\ pc[h] = "finish"
    /\ Goto(h, "idle")
    /\ client' = [client EXCEPT ![h] = "closed"]
    /\ target' = [target EXCEPT ![h] = "closed"]
    /\ Forget(h)
    /\ UNCHANGED <<copyVars, tableVars>>
-----------------------------------------------------------------------------
(* The WebUI on its virtual domain *)

\* No mux, no first byte or no TLS handshake: the connection is closed.
UIFails(h) ==
    /\ pc[h] = "ui"
    /\ Goto(h, "finish")
    /\ UNCHANGED <<reqVars, left, sockVars, copyVars, tableVars>>

\* http.Serve gets the connection from the first Accept; its second Accept
\* waits for a channel that only the end of http.Serve would close.
UIServes(h) ==
    /\ pc[h] = "ui"
    /\ Goto(h, "served")
    /\ UNCHANGED <<reqVars, left, sockVars, copyVars, tableVars>>

\* The HTTP server is done with the connection; the handler stays.
UICloses(h) ==
    /\ pc[h] = "served" /\ client[h] # "closed"
    /\ client' = [client EXCEPT ![h] = "closed"]
    /\ cEnd' = [cEnd EXCEPT ![h] = "gone"]
    /\ UNCHANGED <<pc, reqVars, left, target, tEnd, half, copyVars, tableVars>>
-----------------------------------------------------------------------------
(* External: the two peers finish sending, or are gone *)

Later(end) == CASE end = "open" -> {"fin", "gone"}
                [] end = "fin"  -> {"gone"}
                [] end = "gone" -> {}

ClientEnds(h, e) ==
    /\ client[h] # "closed" /\ e \in Later(cEnd[h])
    /\ cEnd' = [cEnd EXCEPT ![h] = e]
    /\ UNCHANGED <<pc, reqVars, left, client, target, tEnd, half, copyVars, tableVars>>

TargetEnds(h, e) ==
    /\ target[h] # "closed" /\ e \in Later(tEnd[h])
    /\ tEnd' = [tEnd EXCEPT ![h] = e]
    /\ UNCHANGED <<pc, reqVars, left, client, target, cEnd, half, copyVars, tableVars>>
-----------------------------------------------------------------------------
Init ==
    /\ pc = [h \in Handlers |-> "idle"]
    /\ kind = [h \in Handlers |-> "tproxy"]
    /\ hops = [h \in Handlers |-> 0]
    /\ dest = [h \in Handlers |-> "other"]
    /\ left = [h \in Handlers |-> 0]
    /\ client = [h \in Handlers |-> "closed"]
    /\ target = [h \in Handlers |-> "closed"]
    /\ cEnd = [h \in Handlers |-> "gone"]
    /\ tEnd = [h \in Handlers |-> "gone"]
    /\ half = [h \in Handlers |-> TRUE]
    /\ up = [h \in Handlers |-> FALSE]
    /\ down = [h \in Handlers |-> FALSE]
    /\ conns = {}
    /\ killing = {}

Route(h) == RouteUI(h) \/ RouteReject(h) \/ RouteProxy(h) \/ RouteDirect(h)

Dial(h) ==
    \/ \E hc \in BOOLEAN : DialOK(h, hc)
    \/ DialFails(h) \/ BackoffOver(h) \/ ProxyWantsAddr(h) \/ ByAddrFails(h)
    \/ \E n \in 0 .. MaxAddrs : Resolve(h, n)
    \/ AddrFails(h) \/ FallbackFails(h) \/ FallbackOK(h)
    \/ \E g \in Handlers : FallbackToSelf(h, g)

Relay(h) ==
    \/ HeaderRewritten(h) \/ HeaderRefused(h)
    \/ UpEnds(h) \/ DownEnds(h)
    \/ Copied(h) \/ Replied(h)

WebUI(h) == UIFails(h) \/ UIServes(h) \/ UICloses(h)

Next ==
    \E h \in Handlers :
        \/ \E k \in {"tproxy", "http"}, d \in {"name", "fake", "other"} : Accept(h, k, d)
        \/ ReadRequest(h) \/ Route(h) \/ Dial(h)
        \/ Add(h) \/ Kill(h) \/ CloseKilled(h)
        \/ Relay(h) \/ Remove(h) \/ Finish(h)
        \/ WebUI(h)
        \/ \E e \in {"fin", "gone"} : ClientEnds(h, e) \/ TargetEnds(h, e)

Spec == Init /\ [][Next]_vars

\* The handler's own goroutine when it does not wait for a peer.
Handler(h) ==
    \/ Ended(cEnd[h]) /\ HeaderRefused(h)
    \/ Ended(tEnd[h]) /\ Replied(h)
    \/ Copied(h) \/ Remove(h) \/ Finish(h)

\* A goroutine that does not wait for a peer goes on: one that reads from a
\* socket that has ended, closes a socket or returns.  Nobody has to send,
\* to hang up, to answer a dial or to call Kill.
Fairness ==
    \A h \in Handlers :
        /\ WF_vars(Handler(h))
        /\ WF_vars(Ended(cEnd[h]) /\ UpEnds(h))
        /\ WF_vars(Ended(tEnd[h]) /\ DownEnds(h))
        /\ WF_vars(CloseKilled(h))

FairSpec == Spec /\ Fairness
-----------------------------------------------------------------------------
(* Properties *)

\* Every variable keeps its type.
TypeOK ==
    /\ pc \in [Handlers -> PCs]
    /\ kind \in [Handlers -> {"tproxy", "http"}]
    /\ hops \in [Handlers -> 0 .. MaxHops]
    /\ dest \in [Handlers -> {"name", "fake", "other"}]
    /\ left \in [Handlers -> 0 .. MaxTries + MaxAddrs]
    /\ client \in [Handlers -> {"open", "shut", "closed"}]
    /\ target \in [Handlers -> {"open", "shut", "closed"}]
    /\ cEnd \in [Handlers -> {"open", "fin", "gone"}]
    /\ tEnd \in [Handlers -> {"open", "fin", "gone"}]
    /\ half \in [Handlers -> BOOLEAN]
    /\ up \in [Handlers -> BOOLEAN]
    /\ down \in [Handlers -> BOOLEAN]
    /\ conns \subseteq Handlers /\ killing \subseteq Handlers

\* Where a connection of the TProxy listener is in the table.
Tracked == {"header", "copy", "reply", "remove"}

\* The table the WebUI shows is true: a listed connection is being relayed
\* and has not been cut, and a relayed connection that is not listed has been
\* killed (Add, Remove and Kill race with the handler and with each other).
TableTrue ==
    \A h \in Handlers :
        /\ h \in conns => pc[h] \in Tracked /\ kind[h] = "tproxy" /\ client[h] # "closed"
        /\ pc[h] \in Tracked /\ kind[h] = "tproxy" /\ h \notin conns
              => h \in killing \/ client[h] = "closed"

\* Sockets do not leak: whichever way handleTCP or handleHTTPInboundConn
\* returns, both sockets are closed, and a copy goroutine that outlives its
\* handler (after a rewrite) has nothing but closed sockets to copy between.
NothingLeft ==
    \A h \in Handlers :
        /\ pc[h] = "idle" => /\ client[h] = "closed" /\ target[h] = "closed"
                             /\ ~down[h]
        /\ target[h] # "closed" => pc[h] \in Tracked \cup {"add", "finish"}

Relaying(h) == pc[h] \in Tracked

\* When both peers of a relayed connection are through (or the WebUI has
\* killed it and the target is through), the handler ends: neither loop waits
\* for the other, and neither does the handler for a goroutine left behind.
EndsWithPeers ==
    \A h \in Handlers :
        (Relaying(h) /\ Ended(cEnd[h]) /\ Ended(tEnd[h]))
            ~> (pc[h] = "idle")

\* Half-closes pass through: what one side ends, by FIN, by reset or because
\* the WebUI killed the client, the other side gets to know, as far as its
\* socket has a CloseWrite.  (Not so after a header rewrite.)
EndPassedOn ==
    \A h \in Handlers :
        /\ (pc[h] = "copy" /\ half[h] /\ Ended(cEnd[h]))
               ~> (target[h] # "open")
        /\ (pc[h] = "copy" /\ Ended(tEnd[h]))
               ~> (client[h] # "open")
=============================================================================
