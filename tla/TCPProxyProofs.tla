--------------------------- MODULE TCPProxyProofs ---------------------------
(***************************************************************************)
(* TableTrue and NothingLeft for every number of connections, of tries and *)
(* of addresses.  That a listed connection has not been cut needs to know  *)
(* where a client's socket can be closed at all: by Kill, which has taken  *)
(* the entry off the table first, by the WebUI's server and by the handler *)
(* itself when it returns, neither of which has an entry any more.         *)
(***************************************************************************)
EXTENDS TCPProxy, TLAPS

\* The handler has accepted the connection and not yet entered the table.
Dialling == {"request", "route", "dial", "sleep", "byAddr", "resolve", "addrs",
             "fallback", "add", "ui"}

\* What holds of a handler at each stage: dials are left while it dials, its
\* socket is open and unknown to Kill until Add, only connections of the
\* TProxy listener get to the table, and the loop that copies to the client
\* runs only while the handler waits for it.
Stages ==
    \A h \in Handlers :
        /\ pc[h] \in {"dial", "sleep", "addrs"} => left[h] >= 1
        /\ pc[h] \in Dialling => client[h] # "closed" /\ h \notin killing
        /\ pc[h] = "served" => h \notin killing
        /\ pc[h] \in {"idle", "resolve", "addrs", "fallback", "add", "header", "reply", "remove"}
              => kind[h] = "tproxy"
        /\ down[h] => pc[h] = "copy"
        /\ h \in conns => h \notin killing

IInv == TypeOK /\ TableTrue /\ NothingLeft /\ Stages

\* CloseWrite leaves a socket open for reading, or closed.
LEMMA CloseWriteTyped ==
    \A s \in {"open", "shut", "closed"} :
        /\ CloseWrite(s) \in {"open", "shut", "closed"}
        /\ CloseWrite(s) = "closed" <=> s = "closed"
BY DEF CloseWrite

\* The flags of the copy loops, whether the loops are started or not.
LEMMA CopyTyped ==
    ASSUME NEW h \in Handlers, TypeOK, StartCopy(h) \/ UNCHANGED copyVars
    PROVE  up' \in [Handlers -> BOOLEAN] /\ down' \in [Handlers -> BOOLEAN]
<1>1. CASE StartCopy(h)
  BY <1>1 DEF StartCopy, TypeOK
<1>2. CASE UNCHANGED copyVars
  BY <1>2 DEF copyVars, TypeOK
<1> QED
  BY <1>1, <1>2

\* Initially no connection is handled.
LEMMA InitIInv == Init => IInv
BY HopsAssumption, TriesAssumption, AddrsAssumption
   DEF Init, IInv, TypeOK, TableTrue, NothingLeft, Stages, PCs, Tracked, Dialling

\* Every step preserves the invariant.
LEMMA NextIInv == IInv /\ [Next]_vars => IInv'
<1> SUFFICES ASSUME IInv, [Next]_vars PROVE IInv'
  OBVIOUS
<1> USE DEF IInv, Goto, reqVars, sockVars, copyVars, tableVars
<1>1. ASSUME NEW h \in Handlers, NEW k \in {"tproxy", "http"},
             NEW d \in {"name", "fake", "other"}, Accept(h, k, d)
      PROVE  IInv'
  <2> USE <1>1 DEF Accept, Unused
  <2>1. TypeOK'
    BY DEF TypeOK, PCs
  <2>2. TableTrue'
    BY DEF TypeOK, TableTrue, Stages, Tracked
  <2>3. NothingLeft'
    BY DEF TypeOK, NothingLeft, Stages, Tracked
  <2>4. Stages'
    BY DEF TypeOK, TableTrue, NothingLeft, Stages, Tracked, Dialling
  <2> QED
    BY <2>1, <2>2, <2>3, <2>4
<1>2. ASSUME NEW h \in Handlers, ReadRequest(h) PROVE IInv'
  <2> USE <1>2 DEF ReadRequest
  <2>1. TypeOK'
    BY DEF TypeOK, PCs
  <2>2. TableTrue'
    BY DEF TypeOK, TableTrue, Stages, Tracked
  <2>3. NothingLeft'
    BY DEF TypeOK, NothingLeft, Stages, Tracked
  <2>4. Stages'
    BY DEF TypeOK, TableTrue, NothingLeft, Stages, Tracked, Dialling
  <2> QED
    BY <2>1, <2>2, <2>3, <2>4
<1>3. ASSUME NEW h \in Handlers, RouteUI(h) PROVE IInv'
  <2> USE <1>3 DEF RouteUI
  <2>1. TypeOK'
    BY DEF TypeOK, PCs
  <2>2. TableTrue'
    BY DEF TypeOK, TableTrue, Stages, Tracked
  <2>3. NothingLeft'
    BY DEF TypeOK, NothingLeft, Stages, Tracked
  <2>4. Stages'
    BY DEF TypeOK, TableTrue, NothingLeft, Stages, Tracked, Dialling
  <2> QED
    BY <2>1, <2>2, <2>3, <2>4
<1>4. ASSUME NEW h \in Handlers, RouteReject(h) PROVE IInv'
  <2> USE <1>4 DEF RouteReject
  <2>1. TypeOK'
    BY DEF TypeOK, PCs
  <2>2. TableTrue'
    BY DEF TypeOK, TableTrue, Stages, Tracked
  <2>3. NothingLeft'
    BY DEF TypeOK, NothingLeft, Stages, Tracked
  <2>4. Stages'
    BY DEF TypeOK, TableTrue, NothingLeft, Stages, Tracked, Dialling
  <2> QED
    BY <2>1, <2>2, <2>3, <2>4
<1>5. ASSUME NEW h \in Handlers, RouteProxy(h) PROVE IInv'
  <2> USE <1>5 DEF RouteProxy
  <2>1. TypeOK'
    BY TriesAssumption, AddrsAssumption DEF TypeOK, PCs
  <2>2. TableTrue'
    BY DEF TypeOK, TableTrue, Stages, Tracked
  <2>3. NothingLeft'
    BY DEF TypeOK, NothingLeft, Stages, Tracked
  <2>4. Stages'
    BY TriesAssumption, AddrsAssumption DEF TypeOK, TableTrue, NothingLeft, Stages, Tracked, Dialling
  <2> QED
    BY <2>1, <2>2, <2>3, <2>4
<1>6. ASSUME NEW h \in Handlers, RouteDirect(h) PROVE IInv'
  <2> USE <1>6 DEF RouteDirect
  <2>1. TypeOK'
    BY DEF TypeOK, PCs
  <2>2. TableTrue'
    BY DEF TypeOK, TableTrue, Stages, Tracked
  <2>3. NothingLeft'
    BY DEF TypeOK, NothingLeft, Stages, Tracked
  <2>4. Stages'
    BY DEF TypeOK, TableTrue, NothingLeft, Stages, Tracked, Dialling
  <2> QED
    BY <2>1, <2>2, <2>3, <2>4
<1>7. ASSUME NEW h \in Handlers, NEW hc \in BOOLEAN, DialOK(h, hc) PROVE IInv'
  <2> USE <1>7 DEF DialOK, Connected
  <2>1. TypeOK'
    BY TriesAssumption, AddrsAssumption, CopyTyped DEF TypeOK, PCs
  <2>2. TableTrue'
    BY DEF TypeOK, TableTrue, Stages, Tracked
  <2>3. NothingLeft'
    BY DEF TypeOK, NothingLeft, Stages, Tracked, StartCopy
  <2>4. Stages'
    BY DEF TypeOK, TableTrue, NothingLeft, Stages, Tracked, Dialling, StartCopy
  <2> QED
    BY <2>1, <2>2, <2>3, <2>4
<1>8. ASSUME NEW h \in Handlers, DialFails(h) PROVE IInv'
  <2> USE <1>8 DEF DialFails
  <2>1. TypeOK'
    BY TriesAssumption, AddrsAssumption DEF TypeOK, PCs, Stages
  <2>2. TableTrue'
    BY DEF TypeOK, TableTrue, Stages, Tracked
  <2>3. NothingLeft'
    BY DEF TypeOK, NothingLeft, Stages, Tracked
  <2>4. Stages'
    BY TriesAssumption, AddrsAssumption DEF TypeOK, TableTrue, NothingLeft, Stages, Tracked, Dialling
  <2> QED
    BY <2>1, <2>2, <2>3, <2>4
<1>9. ASSUME NEW h \in Handlers, BackoffOver(h) PROVE IInv'
  <2> USE <1>9 DEF BackoffOver
  <2>1. TypeOK'
    BY DEF TypeOK, PCs
  <2>2. TableTrue'
    BY DEF TypeOK, TableTrue, Stages, Tracked
  <2>3. NothingLeft'
    BY DEF TypeOK, NothingLeft, Stages, Tracked
  <2>4. Stages'
    BY DEF TypeOK, TableTrue, NothingLeft, Stages, Tracked, Dialling
  <2> QED
    BY <2>1, <2>2, <2>3, <2>4
<1>10. ASSUME NEW h \in Handlers, ProxyWantsAddr(h) PROVE IInv'
  <2> USE <1>10 DEF ProxyWantsAddr
  <2>1. TypeOK'
    BY DEF TypeOK, PCs
  <2>2. TableTrue'
    BY DEF TypeOK, TableTrue, Stages, Tracked
  <2>3. NothingLeft'
    BY DEF TypeOK, NothingLeft, Stages, Tracked
  <2>4. Stages'
    BY DEF TypeOK, TableTrue, NothingLeft, Stages, Tracked, Dialling
  <2> QED
    BY <2>1, <2>2, <2>3, <2>4
<1>11. ASSUME NEW h \in Handlers, ByAddrFails(h) PROVE IInv'
  <2> USE <1>11 DEF ByAddrFails
  <2>1. TypeOK'
    BY DEF TypeOK, PCs
  <2>2. TableTrue'
    BY DEF TypeOK, TableTrue, Stages, Tracked
  <2>3. NothingLeft'
    BY DEF TypeOK, NothingLeft, Stages, Tracked
  <2>4. Stages'
    BY DEF TypeOK, TableTrue, NothingLeft, Stages, Tracked, Dialling
  <2> QED
    BY <2>1, <2>2, <2>3, <2>4
<1>12. ASSUME NEW h \in Handlers, NEW n \in 0 .. MaxAddrs, Resolve(h, n)
      PROVE  IInv'
  <2> USE <1>12 DEF Resolve
  <2>1. TypeOK'
    BY TriesAssumption, AddrsAssumption DEF TypeOK, PCs
  <2>2. TableTrue'
    BY DEF TypeOK, TableTrue, Stages, Tracked
  <2>3. NothingLeft'
    BY DEF TypeOK, NothingLeft, Stages, Tracked
  <2>4. Stages'
    BY TriesAssumption, AddrsAssumption DEF TypeOK, TableTrue, NothingLeft, Stages, Tracked, Dialling
  <2> QED
    BY <2>1, <2>2, <2>3, <2>4
<1>13. ASSUME NEW h \in Handlers, AddrFails(h) PROVE IInv'
  <2> USE <1>13 DEF AddrFails
  <2>1. TypeOK'
    BY TriesAssumption, AddrsAssumption DEF TypeOK, PCs, Stages
  <2>2. TableTrue'
    BY DEF TypeOK, TableTrue, Stages, Tracked
  <2>3. NothingLeft'
    BY DEF TypeOK, NothingLeft, Stages, Tracked
  <2>4. Stages'
    BY TriesAssumption, AddrsAssumption DEF TypeOK, TableTrue, NothingLeft, Stages, Tracked, Dialling
  <2> QED
    BY <2>1, <2>2, <2>3, <2>4
<1>14. ASSUME NEW h \in Handlers, FallbackFails(h) PROVE IInv'
  <2> USE <1>14 DEF FallbackFails
  <2>1. TypeOK'
    BY DEF TypeOK, PCs
  <2>2. TableTrue'
    BY DEF TypeOK, TableTrue, Stages, Tracked
  <2>3. NothingLeft'
    BY DEF TypeOK, NothingLeft, Stages, Tracked
  <2>4. Stages'
    BY DEF TypeOK, TableTrue, NothingLeft, Stages, Tracked, Dialling
  <2> QED
    BY <2>1, <2>2, <2>3, <2>4
<1>15. ASSUME NEW h \in Handlers, FallbackOK(h) PROVE IInv'
  <2> USE <1>15 DEF FallbackOK, Connected
  <2>1. TypeOK'
    BY TriesAssumption, AddrsAssumption, CopyTyped DEF TypeOK, PCs
  <2>2. TableTrue'
    BY DEF TypeOK, TableTrue, Stages, Tracked
  <2>3. NothingLeft'
    BY DEF TypeOK, NothingLeft, Stages, Tracked, StartCopy
  <2>4. Stages'
    BY DEF TypeOK, TableTrue, NothingLeft, Stages, Tracked, Dialling, StartCopy
  <2> QED
    BY <2>1, <2>2, <2>3, <2>4
<1>16. ASSUME NEW h \in Handlers, NEW g \in Handlers, FallbackToSelf(h, g)
      PROVE  IInv'
  <2> USE <1>16 DEF FallbackToSelf, Unused
  <2>1. TypeOK'
    BY HopsAssumption DEF TypeOK, PCs
  <2>2. TableTrue'
    BY DEF TypeOK, TableTrue, Stages, Tracked
  <2>3. NothingLeft'
    BY DEF TypeOK, NothingLeft, Stages, Tracked
  <2>4. Stages'
    <3>1. pc'[h] = "add" /\ pc'[g] = "route" /\ kind[h] = "tproxy"
      BY DEF TypeOK, Stages
    <3>2. client[h] # "closed" /\ h \notin killing /\ g \notin conns /\ ~down[h] /\ ~down[g]
      BY DEF TypeOK, TableTrue, NothingLeft, Stages, Tracked, Dialling
    <3>3. \A i \in Handlers \ {h, g} :
             pc'[i] = pc[i] /\ client'[i] = client[i]
      BY DEF TypeOK
    <3>4. client'[g] = "open" /\ client'[h] = client[h]
      BY DEF TypeOK
    <3> QED
      BY <3>1, <3>2, <3>3, <3>4 DEF TypeOK, Stages, Dialling
  <2> QED
    BY <2>1, <2>2, <2>3, <2>4
<1>17. ASSUME NEW h \in Handlers, Add(h) PROVE IInv'
  <2> USE <1>17 DEF Add
  <2>1. TypeOK'
    BY CopyTyped DEF TypeOK, PCs
  <2>2. TableTrue'
    BY DEF TypeOK, TableTrue, Stages, Tracked, Dialling
  <2>3. NothingLeft'
    BY DEF TypeOK, NothingLeft, Stages, Tracked, StartCopy
  <2>4. Stages'
    BY DEF TypeOK, TableTrue, NothingLeft, Stages, Tracked, Dialling, StartCopy
  <2> QED
    BY <2>1, <2>2, <2>3, <2>4
<1>18. ASSUME NEW h \in Handlers, Kill(h) PROVE IInv'
  <2> USE <1>18 DEF Kill
  <2>1. TypeOK'
    BY DEF TypeOK, PCs
  <2>2. TableTrue'
    BY DEF TypeOK, TableTrue, Stages, Tracked
  <2>3. NothingLeft'
    BY DEF TypeOK, NothingLeft, Stages, Tracked
  <2>4. Stages'
    BY DEF TypeOK, TableTrue, NothingLeft, Stages, Tracked, Dialling
  <2> QED
    BY <2>1, <2>2, <2>3, <2>4
<1>19. ASSUME NEW h \in Handlers, CloseKilled(h) PROVE IInv'
  <2> USE <1>19 DEF CloseKilled
  <2>1. TypeOK'
    BY DEF TypeOK, PCs
  <2>2. TableTrue'
    BY DEF TypeOK, TableTrue, Stages, Tracked
  <2>3. NothingLeft'
    BY DEF TypeOK, NothingLeft, Stages, Tracked
  <2>4. Stages'
    BY DEF TypeOK, TableTrue, NothingLeft, Stages, Tracked, Dialling
  <2> QED
    BY <2>1, <2>2, <2>3, <2>4
<1>20. ASSUME NEW h \in Handlers, HeaderRewritten(h) PROVE IInv'
  <2> USE <1>20 DEF HeaderRewritten
  <2>1. TypeOK'
    BY DEF TypeOK, PCs
  <2>2. TableTrue'
    BY DEF TypeOK, TableTrue, Stages, Tracked
  <2>3. NothingLeft'
    BY DEF TypeOK, NothingLeft, Stages, Tracked
  <2>4. Stages'
    BY DEF TypeOK, TableTrue, NothingLeft, Stages, Tracked, Dialling
  <2> QED
    BY <2>1, <2>2, <2>3, <2>4
<1>21. ASSUME NEW h \in Handlers, HeaderRefused(h) PROVE IInv'
  <2> USE <1>21 DEF HeaderRefused
  <2>1. TypeOK'
    BY CopyTyped DEF TypeOK, PCs
  <2>2. TableTrue'
    BY DEF TypeOK, TableTrue, Stages, Tracked
  <2>3. NothingLeft'
    BY DEF TypeOK, NothingLeft, Stages, Tracked, StartCopy
  <2>4. Stages'
    BY DEF TypeOK, TableTrue, NothingLeft, Stages, Tracked, Dialling, StartCopy
  <2> QED
    BY <2>1, <2>2, <2>3, <2>4
<1>22. ASSUME NEW h \in Handlers, UpEnds(h) PROVE IInv'
  <2> USE <1>22 DEF UpEnds
  <2>1. TypeOK'
    BY CloseWriteTyped DEF TypeOK, PCs
  <2>2. TableTrue'
    BY CloseWriteTyped DEF TypeOK, TableTrue, Stages, Tracked
  <2>3. NothingLeft'
    BY CloseWriteTyped DEF TypeOK, NothingLeft, Stages, Tracked
  <2>4. Stages'
    BY CloseWriteTyped DEF TypeOK, TableTrue, NothingLeft, Stages, Tracked, Dialling
  <2> QED
    BY <2>1, <2>2, <2>3, <2>4
<1>23. ASSUME NEW h \in Handlers, DownEnds(h) PROVE IInv'
  <2> USE <1>23 DEF DownEnds
  <2>1. TypeOK'
    BY CloseWriteTyped DEF TypeOK, PCs
  <2>2. TableTrue'
    BY CloseWriteTyped DEF TypeOK, TableTrue, Stages, Tracked
  <2>3. NothingLeft'
    BY CloseWriteTyped DEF TypeOK, NothingLeft, Stages, Tracked
  <2>4. Stages'
    BY CloseWriteTyped DEF TypeOK, TableTrue, NothingLeft, Stages, Tracked, Dialling
  <2> QED
    BY <2>1, <2>2, <2>3, <2>4
<1>24. ASSUME NEW h \in Handlers, Copied(h) PROVE IInv'
  <2> USE <1>24 DEF Copied
  <2>1. TypeOK'
    BY DEF TypeOK, PCs
  <2>2. TableTrue'
    BY DEF TypeOK, TableTrue, Stages, Tracked
  <2>3. NothingLeft'
    BY DEF TypeOK, NothingLeft, Stages, Tracked
  <2>4. Stages'
    BY DEF TypeOK, TableTrue, NothingLeft, Stages, Tracked, Dialling
  <2> QED
    BY <2>1, <2>2, <2>3, <2>4
<1>25. ASSUME NEW h \in Handlers, Replied(h) PROVE IInv'
  <2> USE <1>25 DEF Replied
  <2>1. TypeOK'
    BY DEF TypeOK, PCs
  <2>2. TableTrue'
    BY DEF TypeOK, TableTrue, Stages, Tracked
  <2>3. NothingLeft'
    BY DEF TypeOK, NothingLeft, Stages, Tracked
  <2>4. Stages'
    BY DEF TypeOK, TableTrue, NothingLeft, Stages, Tracked, Dialling
  <2> QED
    BY <2>1, <2>2, <2>3, <2>4
<1>26. ASSUME NEW h \in Handlers, Remove(h) PROVE IInv'
  <2> USE <1>26 DEF Remove
  <2>1. TypeOK'
    BY DEF TypeOK, PCs
  <2>2. TableTrue'
    BY DEF TypeOK, TableTrue, Stages, Tracked
  <2>3. NothingLeft'
    BY DEF TypeOK, NothingLeft, Stages, Tracked
  <2>4. Stages'
    BY DEF TypeOK, TableTrue, NothingLeft, Stages, Tracked, Dialling
  <2> QED
    BY <2>1, <2>2, <2>3, <2>4
<1>27. ASSUME NEW h \in Handlers, Finish(h) PROVE IInv'
  <2> USE <1>27 DEF Finish, Forget
  <2>1. TypeOK'
    BY HopsAssumption, TriesAssumption, AddrsAssumption DEF TypeOK, PCs
  <2>2. TableTrue'
    BY DEF TypeOK, TableTrue, Stages, Tracked
  <2>3. NothingLeft'
    BY DEF TypeOK, NothingLeft, Stages, Tracked
  <2>4. Stages'
    BY DEF TypeOK, TableTrue, NothingLeft, Stages, Tracked, Dialling
  <2> QED
    BY <2>1, <2>2, <2>3, <2>4
<1>28. ASSUME NEW h \in Handlers, UIFails(h) PROVE IInv'
  <2> USE <1>28 DEF UIFails
  <2>1. TypeOK'
    BY DEF TypeOK, PCs
  <2>2. TableTrue'
    BY DEF TypeOK, TableTrue, Stages, Tracked
  <2>3. NothingLeft'
    BY DEF TypeOK, NothingLeft, Stages, Tracked
  <2>4. Stages'
    BY DEF TypeOK, TableTrue, NothingLeft, Stages, Tracked, Dialling
  <2> QED
    BY <2>1, <2>2, <2>3, <2>4
<1>29. ASSUME NEW h \in Handlers, UIServes(h) PROVE IInv'
  <2> USE <1>29 DEF UIServes
  <2>1. TypeOK'
    BY DEF TypeOK, PCs
  <2>2. TableTrue'
    BY DEF TypeOK, TableTrue, Stages, Tracked
  <2>3. NothingLeft'
    BY DEF TypeOK, NothingLeft, Stages, Tracked
  <2>4. Stages'
    BY DEF TypeOK, TableTrue, NothingLeft, Stages, Tracked, Dialling
  <2> QED
    BY <2>1, <2>2, <2>3, <2>4
<1>30. ASSUME NEW h \in Handlers, UICloses(h) PROVE IInv'
  <2> USE <1>30 DEF UICloses
  <2>1. TypeOK'
    BY DEF TypeOK, PCs
  <2>2. TableTrue'
    BY DEF TypeOK, TableTrue, Stages, Tracked
  <2>3. NothingLeft'
    BY DEF TypeOK, NothingLeft, Stages, Tracked
  <2>4. Stages'
    BY DEF TypeOK, TableTrue, NothingLeft, Stages, Tracked, Dialling
  <2> QED
    BY <2>1, <2>2, <2>3, <2>4
<1>31. ASSUME NEW h \in Handlers, NEW e \in {"fin", "gone"}, ClientEnds(h, e)
      PROVE  IInv'
  <2> USE <1>31 DEF ClientEnds
  <2>1. TypeOK'
    BY DEF TypeOK, PCs
  <2>2. TableTrue'
    BY DEF TypeOK, TableTrue, Stages, Tracked
  <2>3. NothingLeft'
    BY DEF TypeOK, NothingLeft, Stages, Tracked
  <2>4. Stages'
    BY DEF TypeOK, TableTrue, NothingLeft, Stages, Tracked, Dialling
  <2> QED
    BY <2>1, <2>2, <2>3, <2>4
<1>32. ASSUME NEW h \in Handlers, NEW e \in {"fin", "gone"}, TargetEnds(h, e)
      PROVE  IInv'
  <2> USE <1>32 DEF TargetEnds
  <2>1. TypeOK'
    BY DEF TypeOK, PCs
  <2>2. TableTrue'
    BY DEF TypeOK, TableTrue, Stages, Tracked
  <2>3. NothingLeft'
    BY DEF TypeOK, NothingLeft, Stages, Tracked
  <2>4. Stages'
    BY DEF TypeOK, TableTrue, NothingLeft, Stages, Tracked, Dialling
  <2> QED
    BY <2>1, <2>2, <2>3, <2>4
<1>33. CASE UNCHANGED vars
  BY <1>33 DEF vars, TypeOK, TableTrue, NothingLeft, Stages, Dialling
<1> QED
  BY <1>1, <1>2, <1>3, <1>4, <1>5, <1>6, <1>7, <1>8, <1>9, <1>10, <1>11, <1>12, <1>13, <1>14, <1>15, <1>16, <1>17, <1>18, <1>19, <1>20, <1>21, <1>22, <1>23, <1>24, <1>25, <1>26, <1>27, <1>28, <1>29, <1>30, <1>31, <1>32, <1>33
     DEF Next, Route, Dial, Relay, WebUI

\* TypeOK of the TCP connections for every value of the constants.
THEOREM TypesHold == Spec => []TypeOK
<1>1. IInv => TypeOK
  BY DEF IInv
<1> QED
  BY InitIInv, NextIInv, <1>1, PTL DEF Spec

\* GlobalConnTracker lists exactly the relayed connections that nobody has
\* killed, however Add, Remove and Kill interleave with the handlers.
THEOREM ConnTableTrue == Spec => []TableTrue
<1>1. IInv => TableTrue
  BY DEF IInv
<1> QED
  BY InitIInv, NextIInv, <1>1, PTL DEF Spec

\* A handler that has returned, on whatever path, has closed both sockets.
THEOREM NoConnLeak == Spec => []NothingLeft
<1>1. IInv => NothingLeft
  BY DEF IInv
<1> QED
  BY InitIInv, NextIInv, <1>1, PTL DEF Spec
=============================================================================
