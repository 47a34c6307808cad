------------------------- MODULE UDPSessionsProofs --------------------------
(***************************************************************************)
(* MappedIsOpen and OpenIsOwned for every number of keys, handlers and     *)
(* sessions.  Neither is inductive: that a session being closed is not in  *)
(* the map rests on whoever closes it having deleted the session's own key *)
(* first and on nobody inserting it again.                                 *)
(***************************************************************************)
EXTENDS UDPSessions, FiniteSetTheorems, TLAPS

\* No key maps to s.
Unmapped(s) == \A k \in Keys : udpSessions[k] # s

\* A handler refers to a session of its own key; until it has inserted the
\* session nobody else knows it; until it has started the listener no other
\* handler is creating it; and it closes a session only once unmapped.
HandlersOK ==
    \A h \in Handlers :
        /\ (sess[h] = 0) <=> (pc[h] \in {"idle", "check", "dial"})
        /\ sess[h] # 0 => key[sess[h]] = hkey[h]
        /\ pc[h] \in {"insert", "listen"} => listener[sess[h]] = "none"
        /\ pc[h] = "insert" =>
              /\ open[sess[h]]
              /\ Unmapped(sess[h])
              /\ \A g \in Handlers \ {h} : sess[g] # sess[h]
        /\ pc[h] = "listen" =>
              \A g \in Handlers \ {h} :
                  sess[g] = sess[h] => pc[g] \notin {"insert", "listen"}
        /\ pc[h] = "close" => Unmapped(sess[h])

\* So does a listener.
ListenersOK == \A s \in Sessions : listener[s] = "close" => Unmapped(s)

IInv == TypeOK /\ MappedIsOpen /\ OpenIsOwned /\ HandlersOK /\ ListenersOK

\* The gauge is set to the size of a finite set.
LEMMA GaugeTyped == \A m : Cardinality(Mapped(m)) \in Nat
<1> SUFFICES ASSUME NEW m PROVE Cardinality(Mapped(m)) \in Nat
  OBVIOUS
<1>1. IsFiniteSet(Mapped(m))
  BY KeysAssumption, FS_Subset DEF Mapped
<1> QED
  BY <1>1, FS_CardinalityType

\* Initially no session exists.
LEMMA InitIInv == Init => IInv
BY BoundsAssumption DEF Init, IInv, TypeOK, MappedIsOpen, OpenIsOwned, HandlersOK,
   ListenersOK

\* Every step preserves the invariant.
LEMMA NextIInv == IInv /\ [Next]_vars => IInv'
<1> SUFFICES ASSUME IInv, [Next]_vars PROVE IInv'
  OBVIOUS
<1> USE DEF IInv, tableVars, sessionVars, handlerVars
<1>1. ASSUME NEW k \in Keys, FastPath(k) PROVE IInv'
  <2> USE <1>1 DEF FastPath
  <2>1. TypeOK'
    BY GaugeTyped, BoundsAssumption DEF TypeOK, SetTable
  <2>2. MappedIsOpen'
    BY DEF TypeOK, MappedIsOpen, HandlersOK, ListenersOK, Unmapped, SetTable, Unused
  <2>3. OpenIsOwned'
    BY DEF TypeOK, OpenIsOwned, HandlersOK, Unused
  <2>4. HandlersOK'
    BY DEF TypeOK, HandlersOK, Unmapped, SetTable
  <2>5. ListenersOK'
    BY DEF TypeOK, ListenersOK, HandlersOK, Unmapped, SetTable
  <2> QED
    BY <2>1, <2>2, <2>3, <2>4, <2>5
<1>2. ASSUME NEW h \in Handlers, NEW k \in Keys, StartHandler(h, k) PROVE IInv'
  <2> USE <1>2 DEF StartHandler
  <2>1. TypeOK'
    BY GaugeTyped, BoundsAssumption DEF TypeOK, SetTable
  <2>2. MappedIsOpen'
    BY DEF TypeOK, MappedIsOpen, HandlersOK, ListenersOK, Unmapped, SetTable, Unused
  <2>3. OpenIsOwned'
    BY DEF TypeOK, OpenIsOwned, HandlersOK, Unused
  <2>4. HandlersOK'
    BY DEF TypeOK, HandlersOK, Unmapped, SetTable
  <2>5. ListenersOK'
    BY DEF TypeOK, ListenersOK, HandlersOK, Unmapped, SetTable
  <2> QED
    BY <2>1, <2>2, <2>3, <2>4, <2>5
<1>3. ASSUME NEW h \in Handlers, CheckSession(h) PROVE IInv'
  <2> USE <1>3 DEF CheckSession
  <2>1. TypeOK'
    BY GaugeTyped, BoundsAssumption DEF TypeOK, SetTable
  <2>2. MappedIsOpen'
    BY DEF TypeOK, MappedIsOpen, HandlersOK, ListenersOK, Unmapped, SetTable, Unused
  <2>3. OpenIsOwned'
    BY DEF TypeOK, OpenIsOwned, HandlersOK, Unused
  <2>4. HandlersOK'
    BY DEF TypeOK, HandlersOK, MappedIsOpen, Unmapped, Sessions
  <2>5. ListenersOK'
    BY DEF TypeOK, ListenersOK, HandlersOK, Unmapped, SetTable
  <2> QED
    BY <2>1, <2>2, <2>3, <2>4, <2>5
<1>4. ASSUME NEW h \in Handlers, DialFails(h) PROVE IInv'
  <2> USE <1>4 DEF DialFails
  <2>1. TypeOK'
    BY GaugeTyped, BoundsAssumption DEF TypeOK, SetTable
  <2>2. MappedIsOpen'
    BY DEF TypeOK, MappedIsOpen, HandlersOK, ListenersOK, Unmapped, SetTable, Unused
  <2>3. OpenIsOwned'
    BY DEF TypeOK, OpenIsOwned, HandlersOK, Unused
  <2>4. HandlersOK'
    BY DEF TypeOK, HandlersOK, Unmapped, SetTable
  <2>5. ListenersOK'
    BY DEF TypeOK, ListenersOK, HandlersOK, Unmapped, SetTable
  <2> QED
    BY <2>1, <2>2, <2>3, <2>4, <2>5
<1>5. ASSUME NEW h \in Handlers, NEW s \in Sessions, DialSucceeds(h, s) PROVE IInv'
  <2> USE <1>5 DEF DialSucceeds
  <2>1. TypeOK'
    BY GaugeTyped, BoundsAssumption DEF TypeOK, SetTable
  <2>2. MappedIsOpen'
    BY DEF TypeOK, MappedIsOpen, HandlersOK, ListenersOK, Unmapped, SetTable, Unused
  <2>3. OpenIsOwned'
    BY DEF TypeOK, OpenIsOwned, HandlersOK, Unused
  <2>4. HandlersOK'
    <3>1. Unmapped(s)
      BY DEF MappedIsOpen, Unused, Unmapped, Sessions
    <3>2. \A g \in Handlers : sess[g] # s
      BY DEF Unused
    <3>3. s # 0
      BY DEF Sessions
    <3> QED
      BY <3>1, <3>2, <3>3 DEF TypeOK, HandlersOK, Unmapped, Unused
  <2>5. ListenersOK'
    BY DEF TypeOK, ListenersOK, HandlersOK, Unmapped, SetTable
  <2> QED
    BY <2>1, <2>2, <2>3, <2>4, <2>5
<1>6. ASSUME NEW h \in Handlers, InsertSession(h) PROVE IInv'
  <2> USE <1>6 DEF InsertSession
  <2>1. TypeOK'
    BY GaugeTyped, BoundsAssumption DEF TypeOK, SetTable
  <2>2. MappedIsOpen'
    BY DEF TypeOK, MappedIsOpen, HandlersOK, ListenersOK, Unmapped, SetTable, Unused
  <2>3. OpenIsOwned'
    BY DEF TypeOK, OpenIsOwned, HandlersOK, Unused
  <2>4. HandlersOK'
    BY DEF TypeOK, HandlersOK, Unmapped, SetTable
  <2>5. ListenersOK'
    BY DEF TypeOK, ListenersOK, HandlersOK, Unmapped, SetTable
  <2> QED
    BY <2>1, <2>2, <2>3, <2>4, <2>5
<1>7. ASSUME NEW h \in Handlers, StartListener(h) PROVE IInv'
  <2> USE <1>7 DEF StartListener
  <2>1. TypeOK'
    <3>1. 0 \in 0 .. IdleTimeout + 1 /\ IdleTimeout \in 0 .. IdleTimeout
      BY BoundsAssumption
    <3> QED
      BY <3>1 DEF TypeOK
  <2>2. MappedIsOpen'
    BY DEF TypeOK, MappedIsOpen, HandlersOK, ListenersOK, Unmapped, SetTable, Unused
  <2>3. OpenIsOwned'
    BY DEF TypeOK, OpenIsOwned, HandlersOK, Unused
  <2>4. HandlersOK'
    BY DEF TypeOK, HandlersOK, Unmapped, SetTable
  <2>5. ListenersOK'
    BY DEF TypeOK, ListenersOK, HandlersOK, Unmapped, SetTable
  <2> QED
    BY <2>1, <2>2, <2>3, <2>4, <2>5
<1>8. ASSUME NEW h \in Handlers, WriteSucceeds(h) PROVE IInv'
  <2> USE <1>8 DEF WriteSucceeds
  <2>1. TypeOK'
    <3>1. 0 \in 0 .. IdleTimeout + 1 /\ IdleTimeout \in 0 .. IdleTimeout
      BY BoundsAssumption
    <3> QED
      BY <3>1 DEF TypeOK
  <2>2. MappedIsOpen'
    BY DEF TypeOK, MappedIsOpen, HandlersOK, ListenersOK, Unmapped, SetTable, Unused
  <2>3. OpenIsOwned'
    BY DEF TypeOK, OpenIsOwned, HandlersOK, Unused
  <2>4. HandlersOK'
    BY DEF TypeOK, HandlersOK, Unmapped, SetTable
  <2>5. ListenersOK'
    BY DEF TypeOK, ListenersOK, HandlersOK, Unmapped, SetTable
  <2> QED
    BY <2>1, <2>2, <2>3, <2>4, <2>5
<1>9. ASSUME NEW h \in Handlers, WriteFails(h) PROVE IInv'
  <2> USE <1>9 DEF WriteFails
  <2>1. TypeOK'
    <3>1. 0 \in 0 .. IdleTimeout + 1 /\ IdleTimeout \in 0 .. IdleTimeout
      BY BoundsAssumption
    <3> QED
      BY <3>1 DEF TypeOK
  <2>2. MappedIsOpen'
    BY DEF TypeOK, MappedIsOpen, HandlersOK, ListenersOK, Unmapped, SetTable, Unused
  <2>3. OpenIsOwned'
    BY DEF TypeOK, OpenIsOwned, HandlersOK, Unused
  <2>4. HandlersOK'
    BY DEF TypeOK, HandlersOK, Unmapped, SetTable
  <2>5. ListenersOK'
    BY DEF TypeOK, ListenersOK, HandlersOK, Unmapped, SetTable
  <2> QED
    BY <2>1, <2>2, <2>3, <2>4, <2>5
<1>10. ASSUME NEW h \in Handlers, DeleteFailed(h) PROVE IInv'
  <2> USE <1>10 DEF DeleteFailed
  <2>0. \A k \in Keys :
          udpSessions'[k] = IF k = hkey[h] THEN 0 ELSE udpSessions[k]
    BY DEF TypeOK, SetTable
  <2>u. \A r \in Sessions : Unmapped(r) => Unmapped(r)'
    BY <2>0 DEF Unmapped, Sessions
  <2>1. TypeOK'
    BY GaugeTyped, BoundsAssumption DEF TypeOK, SetTable
  <2>2. MappedIsOpen'
    BY DEF TypeOK, MappedIsOpen, HandlersOK, ListenersOK, Unmapped, SetTable, Unused
  <2>3. OpenIsOwned'
    BY DEF TypeOK, OpenIsOwned, HandlersOK, Unused
  <2>4. HandlersOK'
    <3>1. sess[h] \in Sessions /\ key[sess[h]] = hkey[h]
      BY DEF TypeOK, HandlersOK
    <3>2. Unmapped(sess[h])'
      BY <2>0, <3>1 DEF MappedIsOpen, Unmapped, Sessions
    <3>3. \A g \in Handlers : sess[g] # 0 => sess[g] \in Sessions
      BY DEF TypeOK
    <3> QED
      BY <2>u, <3>1, <3>2, <3>3 DEF TypeOK, HandlersOK
  <2>5. ListenersOK'
    BY <2>u DEF TypeOK, ListenersOK
  <2> QED
    BY <2>1, <2>2, <2>3, <2>4, <2>5
<1>11. ASSUME NEW h \in Handlers, CloseFailed(h) PROVE IInv'
  <2> USE <1>11 DEF CloseFailed
  <2>1. TypeOK'
    BY GaugeTyped, BoundsAssumption DEF TypeOK, SetTable
  <2>2. MappedIsOpen'
    BY DEF TypeOK, MappedIsOpen, HandlersOK, ListenersOK, Unmapped, SetTable, Unused
  <2>3. OpenIsOwned'
    BY DEF TypeOK, OpenIsOwned, HandlersOK, Unused
  <2>4. HandlersOK'
    BY DEF TypeOK, HandlersOK, Unmapped, SetTable
  <2>5. ListenersOK'
    BY DEF TypeOK, ListenersOK, HandlersOK, Unmapped, SetTable
  <2> QED
    BY <2>1, <2>2, <2>3, <2>4, <2>5
<1>12. ASSUME NEW s \in Sessions, ReadData(s) PROVE IInv'
  <2> USE <1>12 DEF ReadData
  <2>1. TypeOK'
    BY GaugeTyped, BoundsAssumption DEF TypeOK, SetTable
  <2>2. MappedIsOpen'
    BY DEF TypeOK, MappedIsOpen, HandlersOK, ListenersOK, Unmapped, SetTable, Unused
  <2>3. OpenIsOwned'
    BY DEF TypeOK, OpenIsOwned, HandlersOK, Unused
  <2>4. HandlersOK'
    BY DEF TypeOK, HandlersOK, Unmapped, SetTable
  <2>5. ListenersOK'
    BY DEF TypeOK, ListenersOK, HandlersOK, Unmapped, SetTable
  <2> QED
    BY <2>1, <2>2, <2>3, <2>4, <2>5
<1>13. ASSUME NEW s \in Sessions, ReadEnds(s) PROVE IInv'
  <2> USE <1>13 DEF ReadEnds
  <2>1. TypeOK'
    BY GaugeTyped, BoundsAssumption DEF TypeOK, SetTable
  <2>2. MappedIsOpen'
    BY DEF TypeOK, MappedIsOpen, HandlersOK, ListenersOK, Unmapped, SetTable, Unused
  <2>3. OpenIsOwned'
    BY DEF TypeOK, OpenIsOwned, HandlersOK, Unused
  <2>4. HandlersOK'
    BY DEF TypeOK, HandlersOK, Unmapped, SetTable
  <2>5. ListenersOK'
    BY DEF TypeOK, ListenersOK, HandlersOK, Unmapped, SetTable
  <2> QED
    BY <2>1, <2>2, <2>3, <2>4, <2>5
<1>14. ASSUME NEW s \in Sessions, ReadError(s) PROVE IInv'
  <2> USE <1>14 DEF ReadError
  <2>1. TypeOK'
    BY GaugeTyped, BoundsAssumption DEF TypeOK, SetTable
  <2>2. MappedIsOpen'
    BY DEF TypeOK, MappedIsOpen, HandlersOK, ListenersOK, Unmapped, SetTable, Unused
  <2>3. OpenIsOwned'
    BY DEF TypeOK, OpenIsOwned, HandlersOK, Unused
  <2>4. HandlersOK'
    BY DEF TypeOK, HandlersOK, Unmapped, SetTable
  <2>5. ListenersOK'
    BY DEF TypeOK, ListenersOK, HandlersOK, Unmapped, SetTable
  <2> QED
    BY <2>1, <2>2, <2>3, <2>4, <2>5
<1>15. ASSUME NEW s \in Sessions, DeleteSession(s) PROVE IInv'
  <2> USE <1>15 DEF DeleteSession
  <2>0. \A k \in Keys :
          udpSessions'[k] = IF k = key[s] THEN 0 ELSE udpSessions[k]
    BY DEF TypeOK, SetTable
  <2>u. \A r \in Sessions : Unmapped(r) => Unmapped(r)'
    BY <2>0 DEF Unmapped, Sessions
  <2>v. Unmapped(s)'
    BY <2>0 DEF MappedIsOpen, Unmapped, Sessions
  <2>1. TypeOK'
    BY GaugeTyped, BoundsAssumption DEF TypeOK, SetTable
  <2>2. MappedIsOpen'
    BY DEF TypeOK, MappedIsOpen, HandlersOK, ListenersOK, Unmapped, SetTable, Unused
  <2>3. OpenIsOwned'
    BY DEF TypeOK, OpenIsOwned, HandlersOK, Unused
  <2>4. HandlersOK'
    BY DEF TypeOK, HandlersOK, Unmapped, SetTable
  <2>5. ListenersOK'
    BY <2>u, <2>v DEF TypeOK, ListenersOK
  <2> QED
    BY <2>1, <2>2, <2>3, <2>4, <2>5
<1>16. ASSUME NEW s \in Sessions, CloseSession(s) PROVE IInv'
  <2> USE <1>16 DEF CloseSession
  <2>1. TypeOK'
    BY GaugeTyped, BoundsAssumption DEF TypeOK, SetTable
  <2>2. MappedIsOpen'
    BY DEF TypeOK, MappedIsOpen, HandlersOK, ListenersOK, Unmapped, SetTable, Unused
  <2>3. OpenIsOwned'
    BY DEF TypeOK, OpenIsOwned, HandlersOK, Unused
  <2>4. HandlersOK'
    BY DEF TypeOK, HandlersOK, Unmapped, SetTable
  <2>5. ListenersOK'
    BY DEF TypeOK, ListenersOK, HandlersOK, Unmapped, SetTable
  <2> QED
    BY <2>1, <2>2, <2>3, <2>4, <2>5
<1>17. ASSUME Sweep PROVE IInv'
  <2> USE <1>17 DEF Sweep
  <2>0. \A k \in Keys : udpSessions'[k] = IF k \in Stale THEN 0 ELSE udpSessions[k]
    BY DEF SetTable
  <2>u. \A r \in Sessions : Unmapped(r) => Unmapped(r)'
    BY <2>0 DEF Unmapped, Sessions
  <2>o. \A r \in Sessions : Unmapped(r) => open'[r] = open[r]
    BY DEF TypeOK, Unmapped, Stale
  <2>1. TypeOK'
    BY GaugeTyped, BoundsAssumption DEF TypeOK, SetTable
  <2>2. MappedIsOpen'
    <3> SUFFICES ASSUME NEW k \in Keys, udpSessions'[k] # 0
                 PROVE  open'[udpSessions'[k]] /\ key'[udpSessions'[k]] = k
      BY DEF MappedIsOpen
    <3>1. k \notin Stale /\ udpSessions'[k] = udpSessions[k]
      BY <2>0
    <3>2. udpSessions[k] \in Sessions
      BY <3>1 DEF TypeOK
    <3>3. open[udpSessions[k]] /\ key[udpSessions[k]] = k
      BY <3>1 DEF MappedIsOpen
    <3>4. \A j \in Stale : udpSessions[j] # udpSessions[k]
      BY <3>1, <3>3 DEF Stale, MappedIsOpen
    <3> QED
      BY <3>1, <3>2, <3>3, <3>4
  <2>3. OpenIsOwned'
    BY DEF TypeOK, OpenIsOwned, HandlersOK, Unused
  <2>4. HandlersOK'
    <3>1. \A g \in Handlers : sess[g] # 0 => sess[g] \in Sessions
      BY DEF TypeOK
    <3> QED
      BY <2>u, <2>o, <3>1 DEF HandlersOK
  <2>5. ListenersOK'
    BY <2>u DEF ListenersOK
  <2> QED
    BY <2>1, <2>2, <2>3, <2>4, <2>5
<1>18. ASSUME Tick PROVE IInv'
  <2> USE <1>18 DEF Tick
  <2>1. TypeOK'
    BY GaugeTyped, BoundsAssumption DEF TypeOK, SetTable
  <2>2. MappedIsOpen'
    BY DEF TypeOK, MappedIsOpen, HandlersOK, ListenersOK, Unmapped, SetTable, Unused
  <2>3. OpenIsOwned'
    BY DEF TypeOK, OpenIsOwned, HandlersOK, Unused
  <2>4. HandlersOK'
    BY DEF TypeOK, HandlersOK, Unmapped, SetTable
  <2>5. ListenersOK'
    BY DEF TypeOK, ListenersOK, HandlersOK, Unmapped, SetTable
  <2> QED
    BY <2>1, <2>2, <2>3, <2>4, <2>5
<1>19. CASE UNCHANGED vars
  BY <1>19 DEF vars, TypeOK, MappedIsOpen, OpenIsOwned, HandlersOK, ListenersOK,
     Unmapped
<1> QED
  BY <1>1, <1>2, <1>3, <1>4, <1>5, <1>6, <1>7, <1>8, <1>9, <1>10, <1>11,
     <1>12, <1>13, <1>14, <1>15, <1>16, <1>17, <1>18, <1>19
  DEF Next, HandleUDP, ListenFromUpstream

\* The invariant holds in every reachable state.
LEMMA Invariance == Spec => []IInv
<1>1. Init => IInv
  BY InitIInv
<1>2. IInv /\ [Next]_vars => IInv'
  BY NextIInv
<1> QED
  BY <1>1, <1>2, PTL DEF Spec

\* Every variable keeps its type, for any number of packets and sessions; in
\* particular the gauge is the size of the map and never negative.
THEOREM TypesHold == Spec => []TypeOK
<1>1. IInv => TypeOK
  BY DEF IInv
<1> QED
  BY <1>1, Invariance, PTL

\* Whatever is found in the map can be written to: no order of handlers,
\* listeners and sweeper leaves a closed session behind in it.
THEOREM MapHoldsOpenSessions == Spec => []MappedIsOpen
<1>1. IInv => MappedIsOpen
  BY DEF IInv
<1> QED
  BY <1>1, Invariance, PTL

\* No socket is left open with nobody to close it, even when a session is
\* overwritten in the map or deleted under another session's key.
THEOREM NoSocketLeak == Spec => []OpenIsOwned
<1>1. IInv => OpenIsOwned
  BY DEF IInv
<1> QED
  BY <1>1, Invariance, PTL
=============================================================================
