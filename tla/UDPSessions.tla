---------------------------- MODULE UDPSessions -----------------------------
(***************************************************************************)
(* The UDP session table of the transparent proxy (tproxy.go): the receive *)
(* loop of startUDPTProxy, one handleUDP goroutine per packet that finds   *)
(* no session, one listenFromUpstream goroutine per session, and the       *)
(* sweeper.  Every section under sessionMu is one action.                  *)
(*                                                                         *)
(* Times are kept as ages, so that nothing bounds the length of a run:     *)
(* idle[s] counts the ticks since LastActive, deadline[s] the ticks left   *)
(* of the read deadline of the upstream connection.                        *)
(***************************************************************************)
EXTENDS Integers, FiniteSets

CONSTANTS
    Keys,         \* udpKey: client and destination address and port
    Handlers,     \* bound: packets being handled at the same time
    MaxSessions,  \* bound: sessions alive at the same time
    IdleTimeout   \* the 3 minutes of the sweeper and of the read deadline

ASSUME BoundsAssumption == MaxSessions \in Nat /\ IdleTimeout \in Nat \ {0}
ASSUME KeysAssumption == IsFiniteSet(Keys)

Sessions == 1 .. MaxSessions

VARIABLES
    udpSessions,  \* the map, 0 for an absent key
    active,       \* Metrics.ActiveUDPSessions
    open,         \* whether the two sockets of a session are open
    key,          \* the key a session was created for
    idle,         \* ticks since LastActive, capped just above IdleTimeout
    deadline,     \* ticks left until Read times out
    listener,     \* where listenFromUpstream of the session is
    pc, hkey, sess  \* locals of handleUDP

tableVars == <<udpSessions, active>>
sessionVars == <<open, key, idle, deadline, listener>>
handlerVars == <<pc, hkey, sess>>
vars == <<tableVars, sessionVars, handlerVars>>

Mapped(m) == {k \in Keys : m[k] # 0}

\* The map is replaced by m and the gauge is set to its length.
SetTable(m) ==
    /\ udpSessions' = m
    /\ active' = Cardinality(Mapped(m))

\* A session number no goroutine refers to: the model reuses it.
Unused(s) ==
    /\ ~open[s]
    /\ listener[s] = "none"
    /\ \A h \in Handlers : sess[h] # s
-----------------------------------------------------------------------------
(* The receive loop and handleUDP *)

\* Fast path of the receive loop: found under the read lock, the packet is
\* written at once (an error is ignored).
FastPath(k) ==
    /\ udpSessions[k] # 0
    /\ idle' = [idle EXCEPT ![udpSessions[k]] = 0]
    /\ UNCHANGED <<tableVars, open, key, deadline, listener, handlerVars>>

\* Not found: a goroutine is started for the packet.
StartHandler(h, k) ==
    /\ pc[h] = "idle"
    /\ udpSessions[k] = 0
    /\ pc' = [pc EXCEPT ![h] = "check"]
    /\ hkey' = [hkey EXCEPT ![h] = k]
    /\ UNCHANGED <<tableVars, sessionVars, sess>>

\* handleUDP looks again under the read lock and releases it.
CheckSession(h) ==
    /\ pc[h] = "check"
    /\ sess' = [sess EXCEPT ![h] = udpSessions[hkey[h]]]
    /\ pc' = [pc EXCEPT ![h] = IF udpSessions[hkey[h]] = 0 THEN "dial" ELSE "write"]
    /\ UNCHANGED <<tableVars, sessionVars, hkey>>

\* A REJECT rule, a failed dial or a failed return socket ends the handler
\* with nothing left open.
DialFails(h) ==
    /\ pc[h] = "dial"
    /\ pc' = [pc EXCEPT ![h] = "idle"]
    /\ UNCHANGED <<tableVars, sessionVars, hkey, sess>>

\* Both sockets are open: the session exists, known to the handler alone.
DialSucceeds(h, s) ==
    /\ pc[h] = "dial"
    /\ Unused(s)
    /\ open' = [open EXCEPT ![s] = TRUE]
    /\ key' = [key EXCEPT ![s] = hkey[h]]
    /\ idle' = [idle EXCEPT ![s] = 0]
    /\ sess' = [sess EXCEPT ![h] = s]
    /\ pc' = [pc EXCEPT ![h] = "insert"]
    /\ UNCHANGED <<tableVars, deadline, listener, hkey>>

\* The session is put into the map, over any other inserted since the check.
InsertSession(h) ==
    /\ pc[h] = "insert"
    /\ SetTable([udpSessions EXCEPT ![hkey[h]] = sess[h]])
    /\ pc' = [pc EXCEPT ![h] = "listen"]
    /\ UNCHANGED <<sessionVars, hkey, sess>>

\* go listenFromUpstream: the goroutine sets its first read deadline.
StartListener(h) ==
    /\ pc[h] = "listen"
    /\ listener' = [listener EXCEPT ![sess[h]] = "read"]
    /\ deadline' = [deadline EXCEPT ![sess[h]] = IdleTimeout]
    /\ pc' = [pc EXCEPT ![h] = "write"]
    /\ UNCHANGED <<tableVars, open, key, idle, hkey, sess>>

\* LastActive is set and the payload is written.  Writing to a closed socket
\* fails; writing to an open one may.
WriteSucceeds(h) ==
    /\ pc[h] = "write"
    /\ open[sess[h]]
    /\ idle' = [idle EXCEPT ![sess[h]] = 0]
    /\ pc' = [pc EXCEPT ![h] = "idle"]
    /\ sess' = [sess EXCEPT ![h] = 0]
    /\ UNCHANGED <<tableVars, open, key, deadline, listener, hkey>>

WriteFails(h) ==
    /\ pc[h] = "write"
    /\ idle' = [idle EXCEPT ![sess[h]] = 0]
    /\ pc' = [pc EXCEPT ![h] = "delete"]
    /\ UNCHANGED <<tableVars, open, key, deadline, listener, hkey, sess>>

\* Mutant: the sockets of a failed write are closed before the key is deleted.
DeleteFailedLate(h) ==
    /\ pc[h] = "delete"
    /\ open' = [open EXCEPT ![sess[h]] = FALSE]
    /\ pc' = [pc EXCEPT ![h] = "close"]
    /\ UNCHANGED <<tableVars, key, idle, deadline, listener, hkey, sess>>

\* The key is deleted, whichever session it maps to by now.
DeleteFailed(h) ==
    /\ pc[h] = "delete"
    /\ SetTable([udpSessions EXCEPT ![hkey[h]] = 0])
    /\ pc' = [pc EXCEPT ![h] = "close"]
    /\ UNCHANGED <<sessionVars, hkey, sess>>

CloseFailed(h) ==
    /\ pc[h] = "close"
    /\ open' = [open EXCEPT ![sess[h]] = FALSE]
    /\ pc' = [pc EXCEPT ![h] = "idle"]
    /\ sess' = [sess EXCEPT ![h] = 0]
    /\ UNCHANGED <<tableVars, key, idle, deadline, listener, hkey>>
-----------------------------------------------------------------------------
(* listenFromUpstream *)

\* A datagram from upstream is passed to the client; the deadline is renewed.
ReadData(s) ==
    /\ listener[s] = "read"
    /\ open[s]
    /\ deadline[s] > 0
    /\ idle' = [idle EXCEPT ![s] = 0]
    /\ deadline' = [deadline EXCEPT ![s] = IdleTimeout]
    /\ UNCHANGED <<tableVars, open, key, listener, handlerVars>>

\* Mutant: no read deadline is set, only a closed socket ends the loop.
ReadEndsWithoutDeadline(s) ==
    /\ listener[s] = "read"
    /\ ~open[s]
    /\ listener' = [listener EXCEPT ![s] = "delete"]
    /\ UNCHANGED <<tableVars, open, key, idle, deadline, handlerVars>>

\* Read returns an error: the socket is closed or the deadline has passed ...
ReadEnds(s) ==
    /\ listener[s] = "read"
    /\ ~open[s] \/ deadline[s] = 0
    /\ listener' = [listener EXCEPT ![s] = "delete"]
    /\ UNCHANGED <<tableVars, open, key, idle, deadline, handlerVars>>

\* ... or the upstream fails (connection refused, proxy gone).
ReadError(s) ==
    /\ listener[s] = "read"
    /\ listener' = [listener EXCEPT ![s] = "delete"]
    /\ UNCHANGED <<tableVars, open, key, idle, deadline, handlerVars>>

\* Mutant: the gauge is decremented instead of being set to the map's length.
DeleteSessionDecrement(s) ==
    /\ listener[s] = "delete"
    /\ udpSessions' = [udpSessions EXCEPT ![key[s]] = 0]
    /\ active' = active - 1
    /\ listener' = [listener EXCEPT ![s] = "close"]
    /\ UNCHANGED <<open, key, idle, deadline, handlerVars>>

\* The deferred function deletes the key, whichever session it maps to ...
DeleteSession(s) ==
    /\ listener[s] = "delete"
    /\ SetTable([udpSessions EXCEPT ![key[s]] = 0])
    /\ listener' = [listener EXCEPT ![s] = "close"]
    /\ UNCHANGED <<open, key, idle, deadline, handlerVars>>

\* Mutant: the goroutine ends without closing the sockets.
CloseSessionForgotten(s) ==
    /\ listener[s] = "close"
    /\ listener' = [listener EXCEPT ![s] = "none"]
    /\ deadline' = [deadline EXCEPT ![s] = 0]
    /\ UNCHANGED <<tableVars, open, key, idle, handlerVars>>

\* ... and closes the sockets after releasing the lock.
CloseSession(s) ==
    /\ listener[s] = "close"
    /\ open' = [open EXCEPT ![s] = FALSE]
    /\ listener' = [listener EXCEPT ![s] = "none"]
    /\ deadline' = [deadline EXCEPT ![s] = 0]
    /\ UNCHANGED <<tableVars, key, idle, handlerVars>>
-----------------------------------------------------------------------------
Stale == {k \in Keys : udpSessions[k] # 0 /\ idle[udpSessions[k]] > IdleTimeout}

\* One pass of startUDPSweeper, all of it under the write lock.
Sweep ==
    /\ open' = [s \in Sessions |->
                   open[s] /\ \A k \in Stale : udpSessions[k] # s]
    /\ SetTable([k \in Keys |-> IF k \in Stale THEN 0 ELSE udpSessions[k]])
    /\ UNCHANGED <<key, idle, deadline, listener, handlerVars>>

Tick ==
    /\ idle' = [s \in Sessions |-> IF idle[s] > IdleTimeout THEN idle[s]
                                   ELSE idle[s] + 1]
    /\ deadline' = [s \in Sessions |-> IF deadline[s] = 0 THEN 0
                                       ELSE deadline[s] - 1]
    /\ UNCHANGED <<tableVars, open, key, listener, handlerVars>>

Init ==
    /\ udpSessions = [k \in Keys |-> 0]
    /\ active = 0
    /\ open = [s \in Sessions |-> FALSE]
    /\ key \in [Sessions -> Keys]
    /\ idle = [s \in Sessions |-> 0]
    /\ deadline = [s \in Sessions |-> 0]
    /\ listener = [s \in Sessions |-> "none"]
    /\ pc = [h \in Handlers |-> "idle"]
    /\ hkey \in [Handlers -> Keys]
    /\ sess = [h \in Handlers |-> 0]

HandleUDP(h) ==
    \/ CheckSession(h)
    \/ DialFails(h)
    \/ \E s \in Sessions : DialSucceeds(h, s)
    \/ InsertSession(h)
    \/ StartListener(h)
    \/ WriteSucceeds(h)
    \/ WriteFails(h)
    \/ DeleteFailed(h)
    \/ CloseFailed(h)

ListenFromUpstream(s) ==
    ReadData(s) \/ ReadEnds(s) \/ ReadError(s) \/ DeleteSession(s) \/ CloseSession(s)

Next ==
    \/ \E k \in Keys : FastPath(k) \/ \E h \in Handlers : StartHandler(h, k)
    \/ \E h \in Handlers : HandleUDP(h)
    \/ \E s \in Sessions : ListenFromUpstream(s)
    \/ Sweep
    \/ Tick

Spec == Init /\ [][Next]_vars

\* Time passes, the sweeper's ticker fires, and goroutines that can run do.
Fairness ==
    /\ WF_vars(Tick)
    /\ WF_vars(Sweep)
    /\ \A h \in Handlers : WF_vars(HandleUDP(h))
    /\ \A s \in Sessions :
          /\ WF_vars(ReadEnds(s))
          /\ WF_vars(DeleteSession(s) \/ CloseSession(s))

FairSpec == Spec /\ Fairness
-----------------------------------------------------------------------------
(* Properties *)

\* Every variable keeps its type; the gauge never goes negative.
TypeOK ==
    /\ udpSessions \in [Keys -> Sessions \cup {0}]
    /\ active \in Nat
    /\ open \in [Sessions -> BOOLEAN]
    /\ key \in [Sessions -> Keys]
    /\ idle \in [Sessions -> 0 .. IdleTimeout + 1]
    /\ deadline \in [Sessions -> 0 .. IdleTimeout]
    /\ listener \in [Sessions -> {"none", "read", "delete", "close"}]
    /\ pc \in [Handlers -> {"idle", "check", "dial", "insert", "listen",
                            "write", "delete", "close"}]
    /\ hkey \in [Handlers -> Keys]
    /\ sess \in [Handlers -> Sessions \cup {0}]

\* A session that can be found in the map has open sockets and belongs to
\* the key: the fast path never writes to a closed or foreign socket, although
\* four kinds of goroutine delete and close sessions without coordination.
MappedIsOpen ==
    \A k \in Keys :
        udpSessions[k] # 0 => open[udpSessions[k]] /\ key[udpSessions[k]] = k

\* Every open session is held by the handler that is still creating it or by
\* a listener that will close it: sockets lost from the map do not leak.
OpenIsOwned ==
    \A s \in Sessions :
        open[s] => \/ listener[s] # "none"
                   \/ \E h \in Handlers : sess[h] = s /\ pc[h] \in {"insert", "listen"}

\* A session whose upstream has fallen silent is eventually closed, however
\* much the client keeps sending and even if the map no longer knows it.
SilentSessionEnds ==
    \A s \in Sessions : <>[][~ReadData(s)]_vars => []<>(~open[s])
=============================================================================
