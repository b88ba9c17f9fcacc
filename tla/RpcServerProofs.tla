-------------------------- MODULE RpcServerProofs --------------------------
(***************************************************************************)
(* Shutdown for any number of connections and requests: it waits for the   *)
(* requests that it counts.                                                *)
(***************************************************************************)
EXTENDS RpcServer, FiniteSetTheorems, TLAPS

\* The requests that handlerMsgNum is about.
InProcess == {r \in Reqs : rq[r] \in {"handling", "respond", "finish"}}
Counts == handlerMsgNum = Cardinality(InProcess)

\* What was counted was read; without AsyncWrite nothing is written before a
\* request was handled.
Placed ==
  \A r \in Reqs :
    /\ r \in counted => rq[r] \in {"handling", "respond", "finish", "end"}
    /\ ~AsyncWrite /\ rq[r] \in {"none", "sent", "spawned", "refused", "handling"} => out[r] = "none"

\* When Shutdown has stopped waiting, unless its context expired, all that it
\* counted is finished.
Drained ==
  spc \in {"gateway", "final", "returned"} /\ ~expired => \A r \in counted : rq[r] = "end"

Ends ==
  /\ spc # "idle" => inShutdown
  /\ ln = "closed" => closed \/ spc \notin {"idle", "begin"}
  /\ doneChan => closed \/ spc = "returned"
  /\ aErr = "ErrServerClosed" => closed \/ spc = "returned"

\* A connection is closed by whoever ends the server, by a serveConn that left
\* before that, or before it was read.
Unread(c) == \A r \in Reqs : ConnOf[r] = c => rq[r] \in {"none", "sent"}
Over(c) == closed \/ spc = "returned" \/ c \in leftBefore

KeptConn(c) ==
  /\ cpc[c] = "refuse" => rdReq[c] \in Reqs /\ rq[rdReq[c]] = "refused" /\ ConnOf[rdReq[c]] = c
  /\ cpc[c] \in {"none", "accepted", "start"} => Unread(c)
  /\ c \in accepted => cpc[c] = "accepted"
  /\ cpc[c] \in {"leave", "drain"} => inShutdown \/ c \in leftBefore
  /\ cpc[c] = "close" => Over(c)
  /\ sock[c] = "closed" => Over(c) \/ (cpc[c] = "ended" /\ Unread(c))
  /\ ~AsyncWrite => wpc[c] = "none"

Kept == \A c \in Conns : KeptConn(c)

IInv == TypeOK /\ Counts /\ Placed /\ Drained /\ Ends /\ Kept /\ (~AsyncWrite => CountedAreAnswered)

USE DEF srvVars, accVars, connVars, reqVars, chVars, wVars, endVars, GotoC, GotoR
-----------------------------------------------------------------------------
\* writeResponse keeps the types: writeCh holds one response at most.
LEMMA WriteTypes ==
  ASSUME TypeOK, NEW r \in Reqs, writeResponse(r) \/ UNCHANGED <<out, ch>>
  PROVE  /\ ch' \in [Conns -> SUBSET Reqs] /\ \A c \in Conns : \A r1, r2 \in ch'[c] : r1 = r2
         /\ out' \in [Reqs -> {"none", "written", "lost", "queued"}]
<1>1. CASE UNCHANGED <<out, ch>>
  BY <1>1, Zenon DEF TypeOK
<1>2. CASE writeResponse(r)
  <2>1. ConnOf[r] \in Conns
    BY ServerConstants, Zenon
  <2>2. out' \in [Reqs -> {"none", "written", "lost", "queued"}]
    BY <1>2 DEF TypeOK, writeResponse, connWrite
  <2>3. ch' = ch \/ ch' = [ch EXCEPT ![ConnOf[r]] = {r}]
    BY <1>2, Zenon DEF writeResponse
  <2>4. ch' \in [Conns -> SUBSET Reqs] /\ \A c \in Conns : \A r1, r2 \in ch'[c] : r1 = r2
    BY <2>1, <2>3 DEF TypeOK
  <2> QED BY <2>2, <2>4, Zenon
<1> QED BY <1>1, <1>2, Zenon

\* Every action keeps the types.
LEMMA TypeStep == IInv /\ Next => TypeOK'
<1> SUFFICES ASSUME IInv, Next PROVE TypeOK'
  BY Zenon
<1>1. ASSUME NEW c \in Conns, Accept(c) PROVE TypeOK'
  BY <1>1 DEF Accept, IInv, TypeOK
<1>2. ASSUME NEW c \in Conns, RejectConn(c) PROVE TypeOK'
  BY <1>2 DEF RejectConn, IInv, TypeOK
<1>3. ASSUME NEW c \in Conns, HandshakeFails(c) PROVE TypeOK'
  BY <1>3, Zenon DEF HandshakeFails, IInv, TypeOK
<1>4. ASSUME NEW c \in Conns, ServeAccepted(c) PROVE TypeOK'
  BY <1>4 DEF ServeAccepted, IInv, TypeOK
<1>5. ASSUME NEW c \in Conns, ClientLeaves(c) PROVE TypeOK'
  BY <1>5 DEF ClientLeaves, IInv, TypeOK
<1>6. ASSUME NEW c \in Conns, StartConn(c) PROVE TypeOK'
  BY <1>6 DEF StartConn, closeConn, IInv, TypeOK
<1>7. ASSUME NEW c \in Conns, LoopHead(c) PROVE TypeOK'
  BY <1>7 DEF LoopHead, Leave, IInv, TypeOK
<1>8. ASSUME NEW c \in Conns, ReadError(c) PROVE TypeOK'
  BY <1>8 DEF ReadError, Leave, IInv, TypeOK
<1>9. ASSUME NEW c \in Conns, handleError(c) PROVE TypeOK'
  <2>1. rdReq[c] \in Reqs
    BY <1>9, Zenon DEF IInv, Kept, KeptConn, handleError
  <2>2. ch' \in [Conns -> SUBSET Reqs] /\ (\A d \in Conns : \A r1, r2 \in ch'[d] : r1 = r2)
        /\ out' \in [Reqs -> {"none", "written", "lost", "queued"}]
    BY <1>9, <2>1, WriteTypes, Zenon DEF IInv, handleError, TypeOK
  <2>3. cpc' \in [Conns -> {"none", "accepted", "start", "loop", "read", "refuse",
                             "leave", "drain", "await", "close", "ended"}]
        /\ leftBefore' \subseteq Conns
    BY <1>9 DEF IInv, handleError, Leave, TypeOK
  <2>4. /\ UNCHANGED <<sock, rdNext, handlerMsgNum, counted, srvVars, accVars, gone, chClosed, wVars, endVars>>
        /\ rq' \in [Reqs -> {"none", "sent", "spawned", "handling", "respond", "finish", "refused", "end"}]
        /\ rdReq' \in [Conns -> Reqs \cup {NoReq}]
    BY <1>9, <2>1, Zenon DEF IInv, handleError, TypeOK
  <2> QED BY <2>2, <2>3, <2>4 DEF IInv, TypeOK
<1>10. ASSUME NEW c \in Conns, CloseWriteCh(c) PROVE TypeOK'
  <2>1. chClosed' \in [Conns -> BOOLEAN]
    <3>1. AsyncWrite \in BOOLEAN
      BY ServerConstants, Zenon
    <3> QED BY <1>10, <3>1, Zenon DEF IInv, CloseWriteCh, TypeOK
  <2> QED BY <1>10, <2>1 DEF IInv, CloseWriteCh, TypeOK
<1>11. ASSUME NEW c \in Conns, Drain(c) PROVE TypeOK'
  BY <1>11 DEF Drain, IInv, TypeOK
<1>12. ASSUME NEW c \in Conns, EndConn(c) PROVE TypeOK'
  BY <1>12 DEF EndConn, closeConn, IInv, TypeOK
<1>13. ASSUME NEW c \in Conns, WriterSelect(c) PROVE TypeOK'
  <2>1. ch' \in [Conns -> SUBSET Reqs] /\ \A d \in Conns : \A r1, r2 \in ch'[d] : r1 = r2
    BY <1>13 DEF IInv, WriterSelect, TypeOK
  <2>2. wReq' \in [Conns -> Reqs \cup {NoReq}]
    BY <1>13 DEF IInv, WriterSelect, TypeOK
  <2>3. wpc' \in [Conns -> {"none", "select", "write", "ended"}]
    BY <1>13 DEF IInv, WriterSelect, TypeOK
  <2> QED BY <1>13, <2>1, <2>2, <2>3 DEF IInv, WriterSelect, TypeOK
<1>14. ASSUME NEW c \in Conns, WriterWrite(c) PROVE TypeOK'
  <2>1. out' \in [Reqs -> {"none", "written", "lost", "queued"}]
    BY <1>14, Zenon DEF IInv, WriterWrite, connWrite, TypeOK
  <2>2. wReq' \in [Conns -> Reqs \cup {NoReq}]
    BY <1>14, Zenon DEF IInv, WriterWrite, TypeOK
  <2>3. wpc' \in [Conns -> {"none", "select", "write", "ended"}]
    BY <1>14, Zenon DEF IInv, WriterWrite, TypeOK
  <2> QED BY <1>14, <2>1, <2>2, <2>3 DEF IInv, WriterWrite, TypeOK
<1>15. ASSUME NEW r \in Reqs, ClientSends(r) PROVE TypeOK'
  BY <1>15 DEF ClientSends, IInv, TypeOK
<1>16. ASSUME NEW r \in Reqs, ReadRequest(r) PROVE TypeOK'
  <2>1. ConnOf[r] \in Conns
    BY ServerConstants, Zenon
  <2> QED BY <1>16, <2>1 DEF IInv, ReadRequest, TypeOK
<1>17. ASSUME NEW r \in Reqs, RefuseRequest(r) PROVE TypeOK'
  <2>1. ConnOf[r] \in Conns
    BY ServerConstants, Zenon
  <2>2. rdReq' \in [Conns -> Reqs \cup {NoReq}] /\ rdNext' \in [Conns -> {"loop", "leave"}]
    BY <1>17, <2>1 DEF IInv, RefuseRequest, TypeOK
  <2> QED BY <1>17, <2>1, <2>2 DEF IInv, RefuseRequest, TypeOK
<1>18. ASSUME NEW r \in Reqs, CountRequest(r) PROVE TypeOK'
  BY <1>18 DEF CountRequest, IInv, TypeOK
<1>19. ASSUME NEW r \in Reqs, HandleRequest(r) PROVE TypeOK'
  BY <1>19 DEF HandleRequest, IInv, TypeOK
<1>20. ASSUME NEW r \in Reqs, Respond(r) PROVE TypeOK'
  <2>1. ch' \in [Conns -> SUBSET Reqs] /\ (\A c \in Conns : \A r1, r2 \in ch'[c] : r1 = r2)
        /\ out' \in [Reqs -> {"none", "written", "lost", "queued"}]
    BY <1>20, WriteTypes, Zenon DEF IInv, Respond
  <2>2. /\ UNCHANGED <<handlerMsgNum, counted, srvVars, accVars, connVars, gone, chClosed, wVars, endVars>>
        /\ rq' \in [Reqs -> {"none", "sent", "spawned", "handling", "respond", "finish", "refused", "end"}]
    BY <1>20, Zenon DEF IInv, Respond, TypeOK
  <2> QED BY <2>1, <2>2 DEF IInv, TypeOK
<1>21. ASSUME NEW r \in Reqs, Finish(r) PROVE TypeOK'
  <2>1. r \in InProcess /\ IsFiniteSet(InProcess)
    BY <1>21, ServerConstants, FS_Subset, Zenon DEF Finish, InProcess
  <2>2. handlerMsgNum # 0
    BY <2>1, FS_EmptySet, Zenon DEF IInv, Counts
  <2>3. handlerMsgNum' \in Nat
    BY <1>21, <2>2 DEF IInv, Finish, TypeOK
  <2> QED BY <1>21, <2>3 DEF IInv, Finish, TypeOK
<1>22. ASSUME AcceptError PROVE TypeOK'
  BY <1>22 DEF AcceptError, IInv, TypeOK
<1>23. ASSUME ServeReturns PROVE TypeOK'
  BY <1>23, Zenon DEF ServeReturns, IInv, TypeOK
<1>24. ASSUME ShutdownBegin PROVE TypeOK'
  BY <1>24 DEF ShutdownBegin, IInv, TypeOK
<1>25. ASSUME ShutdownCloseRead PROVE TypeOK'
  BY <1>25 DEF ShutdownCloseRead, IInv, TypeOK
<1>26. ASSUME ShutdownDrained PROVE TypeOK'
  BY <1>26 DEF ShutdownDrained, IInv, TypeOK
<1>27. ASSUME ShutdownExpires PROVE TypeOK'
  BY <1>27, Zenon DEF ShutdownExpires, IInv, TypeOK
<1>28. ASSUME ShutdownGateway PROVE TypeOK'
  BY <1>28 DEF ShutdownGateway, IInv, TypeOK
<1>29. ASSUME ShutdownEnd PROVE TypeOK'
  BY <1>29 DEF ShutdownEnd, EndActiveConns, IInv, TypeOK
<1>30. ASSUME Close PROVE TypeOK'
  BY <1>30 DEF Close, EndActiveConns, IInv, TypeOK
<1> QED
  BY <1>1, <1>2, <1>3, <1>4, <1>5, <1>6, <1>7, <1>8, <1>9, <1>10, <1>11, <1>12, <1>13,
     <1>14, <1>15, <1>16, <1>17, <1>18, <1>19, <1>20, <1>21, <1>22, <1>23, <1>24, <1>25, <1>26,
     <1>27, <1>28, <1>29, <1>30, Zenon
  DEF Next, ServeStep, ConnStep, ReqStep, WriterStep, ShutdownStep

\* A request is counted once it was read, and answered after that.
LEMMA PlacedStep == IInv /\ Next => Placed'
<1> SUFFICES ASSUME IInv, Next PROVE Placed'
  BY Zenon
<1>0. DOMAIN rq = Reqs /\ DOMAIN out = Reqs
  BY ServerConstants, Zenon DEF IInv, TypeOK
<1>1. ASSUME UNCHANGED <<rq, out, counted>> PROVE Placed'
  BY <1>1, Zenon DEF IInv, Placed
<1>2. ASSUME NEW c \in Conns, handleError(c) PROVE Placed'
  <2>1. rdReq[c] \in Reqs /\ rq[rdReq[c]] = "refused" /\ cpc[c] = "refuse"
    BY <1>2, Zenon DEF IInv, Kept, KeptConn, handleError
  <2> QED
    BY <1>2, <1>0, <2>1, Zenon DEF handleError, connWrite, writeResponse, IInv, Placed
<1>3. ASSUME NEW c \in Conns, WriterWrite(c) PROVE Placed'
  BY <1>3, <1>0, Zenon DEF WriterWrite, connWrite, IInv, Placed, Kept, KeptConn
<1>4. ASSUME NEW r \in Reqs, ClientSends(r) PROVE Placed'
  BY <1>4, <1>0, Zenon DEF ClientSends, IInv, Placed, Kept
<1>5. ASSUME NEW r \in Reqs, ReadRequest(r) PROVE Placed'
  BY <1>5, <1>0, Zenon DEF ReadRequest, IInv, Placed, Kept
<1>6. ASSUME NEW r \in Reqs, RefuseRequest(r) PROVE Placed'
  BY <1>6, <1>0, Zenon DEF RefuseRequest, IInv, Placed, Kept
<1>7. ASSUME NEW r \in Reqs, CountRequest(r) PROVE Placed'
  BY <1>7, <1>0, Zenon DEF CountRequest, IInv, Placed, Kept
<1>8. ASSUME NEW r \in Reqs, HandleRequest(r) PROVE Placed'
  BY <1>8, <1>0, Zenon DEF HandleRequest, IInv, Placed, Kept
<1>9. ASSUME NEW r \in Reqs, Respond(r) PROVE Placed'
  BY <1>9, <1>0, Zenon DEF Respond, connWrite, writeResponse, IInv, Placed, Kept
<1>10. ASSUME NEW r \in Reqs, Finish(r) PROVE Placed'
  BY <1>10, <1>0, Zenon DEF Finish, IInv, Placed, Kept
<1>11. ASSUME NEW c \in Conns,
             Accept(c) \/ RejectConn(c) \/ HandshakeFails(c) \/ ServeAccepted(c) \/ ClientLeaves(c)
             \/ StartConn(c) \/ LoopHead(c) \/ ReadError(c) \/ CloseWriteCh(c) \/ Drain(c)
             \/ EndConn(c) \/ WriterSelect(c)
     PROVE  Placed'
  BY <1>1, <1>11, ZenonT(30) DEF Accept, RejectConn, HandshakeFails, ServeAccepted, ClientLeaves,
     StartConn, LoopHead, ReadError, CloseWriteCh, Drain, EndConn, WriterSelect, closeConn, Leave
<1>12. ASSUME
             AcceptError \/ ServeReturns \/ ShutdownBegin \/ ShutdownCloseRead \/ ShutdownDrained
             \/ ShutdownExpires \/ ShutdownGateway \/ ShutdownEnd \/ Close
     PROVE  Placed'
  BY <1>1, <1>12, ZenonT(30) DEF AcceptError, ServeReturns, ShutdownBegin, ShutdownCloseRead,
     ShutdownDrained, ShutdownExpires, ShutdownGateway, ShutdownEnd, Close, EndActiveConns
<1> QED
  BY <1>1, <1>2, <1>3, <1>4, <1>5, <1>6, <1>7, <1>8, <1>9, <1>10, <1>11, <1>12, Zenon
  DEF Next, ServeStep, ConnStep, ReqStep, WriterStep, ShutdownStep

\* Shutdown stops waiting when handlerMsgNum is 0: InProcess is empty then.
LEMMA DrainedStep == IInv /\ Next => Drained'
<1> SUFFICES ASSUME IInv, Next PROVE Drained'
  BY Zenon
<1>0. DOMAIN rq = Reqs /\ counted \subseteq Reqs
  BY ServerConstants, Zenon DEF IInv, TypeOK
<1>1. ASSUME UNCHANGED <<rq, spc, expired, counted>> PROVE Drained'
  BY <1>1, Zenon DEF IInv, Drained
<1>2. ASSUME NEW c \in Conns, handleError(c) PROVE Drained'
  BY <1>2, <1>0, Zenon DEF handleError, Leave, connWrite, writeResponse, IInv, Placed, Drained, Kept
<1>3. ASSUME NEW r \in Reqs, ClientSends(r) PROVE Drained'
  BY <1>3, <1>0, Zenon DEF ClientSends, IInv, Placed, Drained, Kept
<1>4. ASSUME NEW r \in Reqs, ReadRequest(r) PROVE Drained'
  BY <1>4, <1>0, Zenon DEF ReadRequest, IInv, Placed, Drained, Kept
<1>5. ASSUME NEW r \in Reqs, RefuseRequest(r) PROVE Drained'
  BY <1>5, <1>0, Zenon DEF RefuseRequest, IInv, Placed, Drained, Kept
<1>6. ASSUME NEW r \in Reqs, CountRequest(r) PROVE Drained'
  BY <1>6, <1>0, Zenon DEF CountRequest, IInv, Placed, Drained, Kept
<1>7. ASSUME NEW r \in Reqs, HandleRequest(r) PROVE Drained'
  BY <1>7, <1>0, Zenon DEF HandleRequest, IInv, Placed, Drained, Kept
<1>8. ASSUME NEW r \in Reqs, Respond(r) PROVE Drained'
  BY <1>8, <1>0, Zenon DEF Respond, connWrite, writeResponse, IInv, Placed, Drained, Kept
<1>9. ASSUME NEW r \in Reqs, Finish(r) PROVE Drained'
  BY <1>9, <1>0, Zenon DEF Finish, IInv, Placed, Drained, Kept
<1>10. ASSUME ShutdownBegin PROVE Drained'
  BY <1>10, <1>0, Zenon DEF ShutdownBegin, IInv, Placed, Drained, Kept
<1>11. ASSUME ShutdownCloseRead PROVE Drained'
  BY <1>11, <1>0, Zenon DEF ShutdownCloseRead, IInv, Placed, Drained, Kept
<1>12. ASSUME ShutdownDrained PROVE Drained'
  <2>1. IsFiniteSet(InProcess)
    BY ServerConstants, FS_Subset, Zenon DEF InProcess
  <2>2. InProcess = {}
    BY <1>12, <2>1, FS_EmptySet, Zenon DEF IInv, Counts, ShutdownDrained
  <2> QED BY <1>12, <1>0, <2>2, Zenon DEF IInv, Placed, Drained, ShutdownDrained, InProcess
<1>13. ASSUME ShutdownExpires PROVE Drained'
  BY <1>13, <1>0, Zenon DEF ShutdownExpires, IInv, Placed, Drained, Kept
<1>14. ASSUME ShutdownGateway PROVE Drained'
  BY <1>14, <1>0, Zenon DEF ShutdownGateway, IInv, Placed, Drained, Kept
<1>15. ASSUME ShutdownEnd PROVE Drained'
  BY <1>15, <1>0, Zenon DEF ShutdownEnd, EndActiveConns, IInv, Placed, Drained, Kept
<1>16. ASSUME NEW c \in Conns,
             Accept(c) \/ RejectConn(c) \/ HandshakeFails(c) \/ ServeAccepted(c) \/ ClientLeaves(c)
             \/ StartConn(c) \/ LoopHead(c) \/ ReadError(c) \/ CloseWriteCh(c) \/ Drain(c)
             \/ EndConn(c) \/ WriterSelect(c) \/ WriterWrite(c)
     PROVE  Drained'
  BY <1>1, <1>16, ZenonT(30) DEF Accept, RejectConn, HandshakeFails, ServeAccepted, ClientLeaves,
     StartConn, LoopHead, ReadError, CloseWriteCh, Drain, EndConn, WriterSelect, WriterWrite,
     closeConn, Leave, connWrite
<1>17. ASSUME AcceptError \/ ServeReturns \/ Close
     PROVE  Drained'
  BY <1>1, <1>17, ZenonT(30) DEF AcceptError, ServeReturns, Close, EndActiveConns
<1> QED
  BY <1>1, <1>2, <1>3, <1>4, <1>5, <1>6, <1>7, <1>8, <1>9, <1>10, <1>11, <1>12, <1>13,
     <1>14, <1>15, <1>16, <1>17, Zenon
  DEF Next, ServeStep, ConnStep, ReqStep, WriterStep, ShutdownStep

\* Who closes the listener and doneChan, and when ServeListener returns.
LEMMA EndsStep == IInv /\ Next => Ends'
<1> SUFFICES ASSUME IInv, Next PROVE Ends'
  BY Zenon
<1>1. ASSUME UNCHANGED <<inShutdown, spc, ln, closed, doneChan, aErr>> PROVE Ends'
  BY <1>1, Zenon DEF IInv, Ends
<1>2. ASSUME NEW c \in Conns, HandshakeFails(c) PROVE Ends'
  BY <1>2, Zenon DEF HandshakeFails, IInv, Ends
<1>3. ASSUME AcceptError PROVE Ends'
  BY <1>3, Zenon DEF AcceptError, IInv, Ends
<1>4. ASSUME ServeReturns PROVE Ends'
  BY <1>4, Zenon DEF ServeReturns, IInv, Ends
<1>5. ASSUME ShutdownBegin PROVE Ends'
  BY <1>5, Zenon DEF ShutdownBegin, IInv, Ends
<1>6. ASSUME ShutdownCloseRead PROVE Ends'
  BY <1>6, Zenon DEF ShutdownCloseRead, IInv, Ends
<1>7. ASSUME ShutdownDrained PROVE Ends'
  BY <1>7, Zenon DEF ShutdownDrained, IInv, Ends
<1>8. ASSUME ShutdownExpires PROVE Ends'
  BY <1>8, Zenon DEF ShutdownExpires, IInv, Ends
<1>9. ASSUME ShutdownGateway PROVE Ends'
  BY <1>9, Zenon DEF ShutdownGateway, IInv, Ends
<1>10. ASSUME ShutdownEnd PROVE Ends'
  BY <1>10, Zenon DEF ShutdownEnd, EndActiveConns, IInv, Ends
<1>11. ASSUME Close PROVE Ends'
  BY <1>11, Zenon DEF Close, EndActiveConns, IInv, Ends
<1>12. ASSUME NEW c \in Conns,
             Accept(c) \/ RejectConn(c) \/ ServeAccepted(c) \/ ClientLeaves(c) \/ StartConn(c)
             \/ LoopHead(c) \/ ReadError(c) \/ handleError(c) \/ CloseWriteCh(c) \/ Drain(c)
             \/ EndConn(c) \/ WriterSelect(c) \/ WriterWrite(c)
     PROVE  Ends'
  BY <1>1, <1>12, ZenonT(30) DEF Accept, RejectConn, ServeAccepted, ClientLeaves, StartConn,
     LoopHead, ReadError, handleError, CloseWriteCh, Drain, EndConn, WriterSelect, WriterWrite,
     closeConn, Leave, connWrite, writeResponse
<1>13. ASSUME NEW r \in Reqs,
             ClientSends(r) \/ ReadRequest(r) \/ RefuseRequest(r) \/ CountRequest(r) \/ HandleRequest(r)
             \/ Respond(r) \/ Finish(r)
     PROVE  Ends'
  BY <1>1, <1>13, ZenonT(30) DEF ClientSends, ReadRequest, RefuseRequest, CountRequest,
     HandleRequest, Respond, Finish, connWrite, writeResponse
<1> QED
  BY <1>1, <1>2, <1>3, <1>4, <1>5, <1>6, <1>7, <1>8, <1>9, <1>10, <1>11, <1>12, <1>13, Zenon
  DEF Next, ServeStep, ConnStep, ReqStep, WriterStep, ShutdownStep

\* What a step leaves as it is of a connection it is not about.
Untouched(d) ==
  /\ cpc'[d] = cpc[d] /\ rdReq'[d] = rdReq[d] /\ (~AsyncWrite => wpc'[d] = wpc[d])
  /\ cpc[d] = "refuse" => rq'[rdReq[d]] = rq[rdReq[d]]
  /\ Unread(d) => Unread(d)'
  /\ d \in accepted' => d \in accepted
  /\ inShutdown => inShutdown'
  /\ d \in leftBefore => d \in leftBefore'
  /\ Over(d) => Over(d)'
  /\ sock'[d] = "closed" => sock[d] = "closed" \/ Over(d)'

LEMMA UntouchedIsKept ==
  ASSUME NEW d \in Conns, KeptConn(d), Untouched(d)
  PROVE  KeptConn(d)'
<1>1. /\ cpc'[d] = cpc[d] /\ rdReq'[d] = rdReq[d] /\ (~AsyncWrite => wpc'[d] = wpc[d])
      /\ cpc[d] = "refuse" => rq'[rdReq[d]] = rq[rdReq[d]]
      /\ d \in accepted' => d \in accepted
  BY Zenon DEF Untouched
<1>2. /\ Unread(d) => Unread(d)'
      /\ inShutdown => inShutdown'
      /\ d \in leftBefore => d \in leftBefore'
      /\ Over(d) => Over(d)'
      /\ sock'[d] = "closed" => sock[d] = "closed" \/ Over(d)'
  BY Zenon DEF Untouched
<1>3. cpc'[d] = "refuse" => rdReq'[d] \in Reqs /\ rq'[rdReq'[d]] = "refused" /\ ConnOf[rdReq'[d]] = d
  BY <1>1, Zenon DEF KeptConn
<1>4. /\ cpc'[d] \in {"none", "accepted", "start"} => Unread(d)'
      /\ d \in accepted' => cpc'[d] = "accepted"
      /\ ~AsyncWrite => wpc'[d] = "none"
  BY <1>1, <1>2, Zenon DEF KeptConn
<1>5. /\ cpc'[d] \in {"leave", "drain"} => inShutdown' \/ d \in leftBefore'
      /\ cpc'[d] = "close" => Over(d)'
      /\ sock'[d] = "closed" => Over(d)' \/ (cpc'[d] = "ended" /\ Unread(d)')
  BY <1>1, <1>2, Zenon DEF KeptConn
<1> QED
  BY <1>3, <1>4, <1>5, Zenon DEF KeptConn

\* A connection, and a request, moves alone.
LEMMA ConnMoves ==
  ASSUME TypeOK, NEW c \in Conns, NEW l, cpc' = [cpc EXCEPT ![c] = l]
  PROVE  cpc'[c] = l /\ \A d \in Conns \ {c} : cpc'[d] = cpc[d]
<1>1. cpc \in [Conns -> {"none", "accepted", "start", "loop", "read", "refuse",
                        "leave", "drain", "await", "close", "ended"}]
  BY Zenon DEF TypeOK
<1> QED
  BY <1>1, Zenon

LEMMA ReqMoves ==
  ASSUME TypeOK, NEW r \in Reqs, NEW l, rq' = [rq EXCEPT ![r] = l]
  PROVE  rq'[r] = l /\ \A q \in Reqs \ {r} : rq'[q] = rq[q]
<1>1. rq \in [Reqs -> {"none", "sent", "spawned", "handling", "respond",
                      "finish", "refused", "end"}]
  BY Zenon DEF TypeOK
<1> QED
  BY <1>1, Zenon

\* A step of connection c that leaves the requests alone.
LEMMA ConnIsKept ==
  ASSUME TypeOK, Kept, NEW c \in Conns, NEW l, cpc' = [cpc EXCEPT ![c] = l],
         UNCHANGED <<rdReq, rq, inShutdown, closed, spc>>,
         \A d \in Conns \ {c} : d \in accepted' => d \in accepted,
         leftBefore \subseteq leftBefore',
         \A d \in Conns \ {c} : sock'[d] = sock[d] /\ (~AsyncWrite => wpc'[d] = wpc[d]),
         l # "refuse", l \in {"accepted", "start"} => Unread(c), c \in accepted' => l = "accepted",
         l \in {"leave", "drain"} => inShutdown \/ c \in leftBefore',
         l = "close" => Over(c)',
         sock'[c] = "closed" => Over(c)' \/ (l = "ended" /\ Unread(c)),
         ~AsyncWrite => wpc'[c] = "none", l # "none"
  PROVE  Kept'
<1>1. cpc'[c] = l /\ \A d \in Conns \ {c} : cpc'[d] = cpc[d]
  BY ConnMoves, Zenon
<1>2. \A d \in Conns : (Unread(d) => Unread(d)') /\ (Over(d) => Over(d)')
  BY Zenon DEF Unread, Over
<1>3. \A d \in Conns \ {c} : Untouched(d)
  BY <1>1, <1>2, Zenon DEF Untouched
<1>4. KeptConn(c)'
  BY <1>1, <1>2, Zenon DEF KeptConn
<1> QED
  BY <1>3, <1>4, UntouchedIsKept, Zenon DEF Kept

\* A step of request r on a connection that has read it, or not yet.
LEMMA ReqIsKept ==
  ASSUME TypeOK, Kept, NEW r \in Reqs, NEW l, rq' = [rq EXCEPT ![r] = l],
         rq[r] \notin {"none", "sent", "refused"} \/ (rq[r] = "none" /\ l = "sent"),
         UNCHANGED <<cpc, rdReq, accepted, inShutdown, leftBefore, closed, spc, sock, wpc>>
  PROVE  Kept'
<1>1. rq'[r] = l /\ \A q \in Reqs \ {r} : rq'[q] = rq[q]
  BY ReqMoves, Zenon
<1>2. \A d \in Conns : Unread(d) => Unread(d)'
  BY <1>1, Zenon DEF Unread
<1>3. \A d \in Conns : cpc[d] = "refuse" => rq'[rdReq[d]] = rq[rdReq[d]]
  <2>1. \A d \in Conns : cpc[d] = "refuse" => rdReq[d] \in Reqs /\ rq[rdReq[d]] = "refused"
    BY Zenon DEF Kept, KeptConn
  <2>2. rq[r] # "refused"
    BY Zenon
  <2> QED
    BY <1>1, <2>1, <2>2, Zenon
<1>4. \A d \in Conns : Over(d) => Over(d)'
  BY Zenon DEF Over
<1>5. \A d \in Conns : Untouched(d)
  BY <1>2, <1>3, <1>4, Zenon DEF Untouched
<1> QED
  BY <1>5, UntouchedIsKept, Zenon DEF Kept

\* A step of the end of the server, and a step that Kept does not see.
LEMMA EndIsKept ==
  ASSUME Kept, UNCHANGED <<cpc, rdReq, rq, accepted, leftBefore, wpc>>,
         inShutdown => inShutdown', closed => closed', spc = "returned" => spc' = "returned",
         \A d \in Conns : sock'[d] = "closed" => sock[d] = "closed" \/ closed' \/ spc' = "returned"
  PROVE  Kept'
<1>1. \A d \in Conns : (Unread(d) => Unread(d)') /\ (Over(d) => Over(d)')
  BY Zenon DEF Unread, Over
<1>2. \A d \in Conns : sock'[d] = "closed" => sock[d] = "closed" \/ Over(d)'
  BY Zenon DEF Over
<1>3. \A d \in Conns : Untouched(d)
  BY <1>1, <1>2, Zenon DEF Untouched
<1> QED
  BY <1>3, UntouchedIsKept, Zenon DEF Kept

\* serveConn takes a request that was sent from its connection.
LEMMA ReadIsKept ==
  ASSUME TypeOK, Kept, NEW r \in Reqs, NEW c \in Conns, c = ConnOf[r], rq[r] = "sent", cpc[c] = "read",
         NEW l, rq' = [rq EXCEPT ![r] = l], NEW k, cpc' = [cpc EXCEPT ![c] = k],
         k = "loop" \/ (k = "refuse" /\ l = "refused" /\ rdReq'[c] = r),
         \A d \in Conns \ {c} : rdReq'[d] = rdReq[d],
         UNCHANGED <<accepted, inShutdown, leftBefore, closed, spc, sock, wpc>>
  PROVE  Kept'
<1>1. rq'[r] = l /\ \A q \in Reqs \ {r} : rq'[q] = rq[q]
  BY ReqMoves, Zenon
<1>2. cpc'[c] = k /\ \A d \in Conns \ {c} : cpc'[d] = cpc[d]
  BY ConnMoves, Zenon
<1>3. \A d \in Conns \ {c} : Unread(d) => Unread(d)'
  BY <1>1, Zenon DEF Unread
<1>4. \A d \in Conns : cpc[d] = "refuse" => rq'[rdReq[d]] = rq[rdReq[d]]
  <2>1. \A d \in Conns : cpc[d] = "refuse" => rdReq[d] \in Reqs /\ rq[rdReq[d]] = "refused"
    BY Zenon DEF Kept, KeptConn
  <2> QED
    BY <1>1, <2>1, Zenon
<1>5. \A d \in Conns : Over(d) => Over(d)'
  BY Zenon DEF Over
<1>6. \A d \in Conns \ {c} : Untouched(d)
  BY <1>2, <1>3, <1>4, <1>5, Zenon DEF Untouched
<1>7. c \notin accepted /\ (sock[c] = "closed" => Over(c)) /\ (~AsyncWrite => wpc[c] = "none")
  BY Zenon DEF Kept, KeptConn
<1>8. KeptConn(c)'
  BY <1>1, <1>2, <1>5, <1>7, Zenon DEF KeptConn
<1> QED
  BY <1>6, <1>8, UntouchedIsKept, Zenon DEF Kept

\* serveConn keeps its connection open while the server drains.
LEMMA KeptStep == IInv /\ Next => Kept'
<1> SUFFICES ASSUME IInv, Next PROVE Kept'
  BY Zenon
<1> TypeOK /\ Kept /\ Ends
  BY Zenon DEF IInv
<1>0. /\ sock \in [Conns -> {"none", "open", "readClosed", "closed"}]
      /\ wpc \in [Conns -> {"none", "select", "write", "ended"}]
      /\ rdReq \in [Conns -> Reqs \cup {NoReq}]
      /\ \A r \in Reqs : ConnOf[r] \in Conns
  BY ServerConstants, Zenon DEF TypeOK
<1>a. \A c \in Conns : KeptConn(c)
  BY Zenon DEF Kept
<1>1. ASSUME UNCHANGED <<cpc, rdReq, rq, accepted, inShutdown, leftBefore, closed, spc, sock, wpc>> PROVE Kept'
  BY <1>1, EndIsKept, Zenon
<1>2. ASSUME NEW c \in Conns, Accept(c) PROVE Kept'
  <2>1. /\ cpc' = [cpc EXCEPT ![c] = "accepted"] /\ cpc[c] = "none" /\ accepted' = {c}
        /\ UNCHANGED <<rdReq, rq, inShutdown, closed, spc, leftBefore, wpc>>
        /\ sock' = [sock EXCEPT ![c] = "open"]
    BY <1>2, Zenon DEF Accept
  <2>2. sock'[c] = "open" /\ \A d \in Conns \ {c} : sock'[d] = sock[d]
    BY <1>0, <2>1, Zenon
  <2>3. Unread(c) /\ (~AsyncWrite => wpc[c] = "none")
    BY <1>a, <2>1, Zenon DEF KeptConn
  <2> QED
    BY <2>1, <2>2, <2>3, ConnIsKept, Zenon
<1>3. ASSUME NEW c \in Conns, RejectConn(c) PROVE Kept'
  <2>1. /\ cpc' = [cpc EXCEPT ![c] = "ended"] /\ c \in accepted /\ accepted' = {}
        /\ UNCHANGED <<rdReq, rq, inShutdown, closed, spc, leftBefore, wpc>>
        /\ sock' = [sock EXCEPT ![c] = "closed"]
    BY <1>3, Zenon DEF RejectConn
  <2>2. \A d \in Conns \ {c} : sock'[d] = sock[d]
    BY <1>0, <2>1, Zenon
  <2>3. Unread(c) /\ (~AsyncWrite => wpc[c] = "none")
    BY <1>a, <2>1, Zenon DEF KeptConn
  <2> QED
    BY <2>1, <2>2, <2>3, ConnIsKept, Zenon
<1>4. ASSUME NEW c \in Conns, HandshakeFails(c) PROVE Kept'
  <2>1. /\ cpc' = [cpc EXCEPT ![c] = "ended"] /\ c \in accepted /\ accepted' = {}
        /\ UNCHANGED <<rdReq, rq, inShutdown, closed, spc, leftBefore, wpc, sock>>
    BY <1>4, Zenon DEF HandshakeFails
  <2>2. Unread(c) /\ (~AsyncWrite => wpc[c] = "none")
    BY <1>a, <2>1, Zenon DEF KeptConn
  <2> QED
    BY <2>1, <2>2, ConnIsKept, Zenon
<1>5. ASSUME NEW c \in Conns, ServeAccepted(c) PROVE Kept'
  <2>1. /\ cpc' = [cpc EXCEPT ![c] = "start"] /\ c \in accepted /\ accepted' = {}
        /\ UNCHANGED <<rdReq, rq, inShutdown, closed, spc, leftBefore, wpc, sock>>
    BY <1>5, Zenon DEF ServeAccepted
  <2>2. cpc[c] = "accepted"
    BY <1>a, <2>1, Zenon DEF KeptConn
  <2>3. /\ Unread(c) /\ (~AsyncWrite => wpc[c] = "none")
        /\ sock[c] = "closed" => Over(c)
    BY <1>a, <2>2, Zenon DEF KeptConn
  <2>4. Over(c) => Over(c)'
    BY <2>1, Zenon DEF Over
  <2> QED
    BY <2>1, <2>3, <2>4, ConnIsKept, Zenon
<1>6. ASSUME NEW c \in Conns, StartConn(c) PROVE Kept'
  <2>1. /\ cpc[c] = "start" /\ UNCHANGED <<rdReq, rq, inShutdown, closed, spc, leftBefore, accepted>>
    BY <1>6, Zenon DEF StartConn
  <2>2. /\ Unread(c) /\ (~AsyncWrite => wpc[c] = "none") /\ c \notin accepted
        /\ sock[c] = "closed" => Over(c)
    BY <1>a, <2>1, Zenon DEF KeptConn
  <2>3. Over(c) => Over(c)'
    BY <2>1, Zenon DEF Over
  <2>4. CASE cpc' = [cpc EXCEPT ![c] = "ended"] /\ sock' = [sock EXCEPT ![c] = "closed"] /\ UNCHANGED wpc
    <3>1. \A d \in Conns \ {c} : sock'[d] = sock[d]
      BY <1>0, <2>4, Zenon
    <3> QED
      BY <2>1, <2>2, <2>4, <3>1, ConnIsKept, Zenon
  <2>5. CASE /\ cpc' = [cpc EXCEPT ![c] = "loop"] /\ UNCHANGED sock
             /\ wpc' = [wpc EXCEPT ![c] = IF AsyncWrite THEN "select" ELSE "none"]
    <3>1. (~AsyncWrite => wpc'[c] = "none") /\ \A d \in Conns \ {c} : wpc'[d] = wpc[d]
      BY <1>0, <2>5, Zenon
    <3> QED
      BY <2>1, <2>2, <2>3, <2>5, <3>1, ConnIsKept, Zenon
  <2> QED
    BY <1>6, <2>4, <2>5, Zenon DEF StartConn, closeConn
\* A step of the loop or of the deferred functions, with the connection as it is.
<1>7. ASSUME NEW c \in Conns, NEW l \in {"read", "leave", "drain", "await", "close", "loop"},
             cpc' = [cpc EXCEPT ![c] = l],
             UNCHANGED <<rdReq, rq, inShutdown, closed, spc, accepted, wpc, sock>>,
             leftBefore \subseteq leftBefore', cpc[c] \notin {"accepted", "ended"},
             l \in {"leave", "drain"} => inShutdown \/ c \in leftBefore', l = "close" => Over(c)'
      PROVE  Kept'
  <2>1. /\ (~AsyncWrite => wpc[c] = "none") /\ c \notin accepted
        /\ sock[c] = "closed" => Over(c)
    BY <1>a, <1>7, Zenon DEF KeptConn
  <2>2. Over(c) => Over(c)'
    BY <1>7, Zenon DEF Over
  <2>3. l \notin {"refuse", "accepted", "start", "ended", "none"}
    BY <1>7, Zenon
  <2> QED
    BY <1>7, <2>1, <2>2, <2>3, ConnIsKept, Zenon
<1>8. ASSUME NEW c \in Conns, LoopHead(c) \/ ReadError(c) PROVE Kept'
  <2>1. /\ cpc[c] \in {"loop", "read"}
        /\ UNCHANGED <<rdReq, rq, inShutdown, closed, spc, accepted, wpc, sock>>
    BY <1>8, Zenon DEF LoopHead, ReadError
  <2>2. CASE Leave(c)
    <3>1. /\ cpc' = [cpc EXCEPT ![c] = "leave"]
          /\ leftBefore \subseteq leftBefore' /\ (inShutdown \/ c \in leftBefore')
      BY <2>2, Zenon DEF Leave
    <3> QED
      BY <1>7, <2>1, <3>1, Zenon
  <2>3. CASE cpc' = [cpc EXCEPT ![c] = "read"] /\ UNCHANGED leftBefore
    BY <1>7, <2>1, <2>3, Zenon
  <2> QED
    BY <1>8, <2>2, <2>3, Zenon DEF LoopHead, ReadError
<1>9. ASSUME NEW c \in Conns, CloseWriteCh(c) PROVE Kept'
  <2>1. /\ cpc[c] = "leave" /\ cpc' = [cpc EXCEPT ![c] = "drain"]
        /\ UNCHANGED <<rdReq, rq, inShutdown, closed, spc, accepted, wpc, sock, leftBefore>>
    BY <1>9, Zenon DEF CloseWriteCh
  <2>2. inShutdown \/ c \in leftBefore
    BY <1>a, <2>1, Zenon DEF KeptConn
  <2> QED
    BY <1>7, <2>1, <2>2, Zenon
<1>10. ASSUME NEW c \in Conns, Drain(c) PROVE Kept'
  <2>1. UNCHANGED <<rdReq, rq, inShutdown, closed, spc, accepted, wpc, sock, leftBefore, doneChan>>
    BY <1>10, Zenon DEF Drain
  <2>2. Over(c) => Over(c)'
    BY <2>1, Zenon DEF Over
  <2>3. CASE cpc[c] = "drain" /\ cpc' = [cpc EXCEPT ![c] = IF inShutdown THEN "await" ELSE "close"]
    <3>1. inShutdown \/ Over(c)
      BY <1>a, <2>3, Zenon DEF KeptConn, Over
    <3> QED
      BY <1>7, <2>1, <2>2, <2>3, <3>1, Zenon
  <2>4. CASE cpc[c] = "await" /\ doneChan /\ cpc' = [cpc EXCEPT ![c] = "close"]
    <3>1. Over(c)
      BY <2>4, Zenon DEF Ends, Over
    <3> QED
      BY <1>7, <2>1, <2>2, <2>4, <3>1, Zenon
  <2> QED
    BY <1>10, <2>3, <2>4, Zenon DEF Drain
<1>11. ASSUME NEW c \in Conns, EndConn(c) PROVE Kept'
  <2>1. /\ cpc[c] = "close" /\ cpc' = [cpc EXCEPT ![c] = "ended"]
        /\ UNCHANGED <<rdReq, rq, inShutdown, closed, spc, accepted, wpc, leftBefore>>
        /\ sock' = [sock EXCEPT ![c] = "closed"]
    BY <1>11, Zenon DEF EndConn, closeConn
  <2>2. \A d \in Conns \ {c} : sock'[d] = sock[d]
    BY <1>0, <2>1, Zenon
  <2>3. Over(c) /\ (~AsyncWrite => wpc[c] = "none") /\ c \notin accepted
    BY <1>a, <2>1, Zenon DEF KeptConn
  <2>4. Over(c)'
    BY <2>1, <2>3, Zenon DEF Over
  <2> QED
    BY <2>1, <2>2, <2>3, <2>4, ConnIsKept, Zenon
<1>12. ASSUME NEW c \in Conns, handleError(c) PROVE Kept'
  <2> DEFINE r == rdReq[c]
  <2>1. /\ cpc[c] = "refuse" /\ rq' = [rq EXCEPT ![r] = "end"]
        /\ rdReq' = [rdReq EXCEPT ![c] = NoReq]
        /\ UNCHANGED <<accepted, inShutdown, closed, spc, sock, wpc>>
    BY <1>12, Zenon DEF handleError
  <2>2. \E l \in {"leave", "loop"} :
          /\ cpc' = [cpc EXCEPT ![c] = l] /\ leftBefore \subseteq leftBefore'
          /\ l = "leave" => inShutdown \/ c \in leftBefore'
    <3>1. CASE rdNext[c] = "leave"
      <4>1. Leave(c)
        BY <1>12, <3>1, Zenon DEF handleError
      <4>2. /\ cpc' = [cpc EXCEPT ![c] = "leave"]
            /\ leftBefore \subseteq leftBefore' /\ (inShutdown \/ c \in leftBefore')
        BY <4>1, Zenon DEF Leave
      <4> QED
        BY <4>2, Zenon
    <3>2. CASE rdNext[c] # "leave"
      <4>1. cpc' = [cpc EXCEPT ![c] = "loop"] /\ UNCHANGED leftBefore
        BY <1>12, <3>2, Zenon DEF handleError
      <4>2. "loop" # "leave"
        BY Zenon
      <4> QED
        BY <4>1, <4>2, Zenon
    <3> QED
      BY <3>1, <3>2, Zenon
  <2>3. PICK l \in {"leave", "loop"} :
          /\ cpc' = [cpc EXCEPT ![c] = l] /\ leftBefore \subseteq leftBefore'
          /\ l = "leave" => inShutdown \/ c \in leftBefore'
    BY <2>2, Zenon
  <2>4. r \in Reqs /\ rq[r] = "refused" /\ ConnOf[r] = c
    BY <1>a, <2>1, Zenon DEF KeptConn
  <2>5. rq'[r] = "end" /\ \A q \in Reqs \ {r} : rq'[q] = rq[q]
    BY <2>1, <2>4, ReqMoves, Zenon
  <2>6. cpc'[c] = l /\ \A d \in Conns \ {c} : cpc'[d] = cpc[d] /\ rdReq'[d] = rdReq[d]
    <3>1. cpc'[c] = l /\ \A d \in Conns \ {c} : cpc'[d] = cpc[d]
      BY <2>3, ConnMoves, Zenon
    <3>2. \A d \in Conns \ {c} : rdReq'[d] = rdReq[d]
      BY <1>0, <2>1, Zenon
    <3> QED
      BY <3>1, <3>2, Zenon
  <2>7. \A d \in Conns \ {c} : Unread(d) => Unread(d)'
    BY <2>4, <2>5, Zenon DEF Unread
  <2>8. \A d \in Conns \ {c} : cpc[d] = "refuse" => rq'[rdReq[d]] = rq[rdReq[d]]
    <3>1. \A d \in Conns \ {c} : cpc[d] = "refuse" => rdReq[d] \in Reqs /\ ConnOf[rdReq[d]] = d
      BY <1>a, Zenon DEF KeptConn
    <3> QED
      BY <2>4, <2>5, <3>1, Zenon
  <2>9. \A d \in Conns : Over(d) => Over(d)'
    BY <2>1, <2>3, Zenon DEF Over
  <2>10. \A d \in Conns \ {c} : Untouched(d)
    <3> HIDE DEF r
    <3> QED
      BY <2>1, <2>3, <2>6, <2>7, <2>8, <2>9, Zenon DEF Untouched
  <2>11. (~AsyncWrite => wpc[c] = "none") /\ c \notin accepted /\ (sock[c] = "closed" => Over(c))
    BY <1>a, <2>1, Zenon DEF KeptConn
  <2>12. l \notin {"refuse", "none", "accepted", "start", "drain", "close", "ended"}
    BY <2>3, Zenon
  <2>13. KeptConn(c)'
    <3> HIDE DEF r
    <3> QED
      BY <2>1, <2>3, <2>6, <2>9, <2>11, <2>12, Zenon DEF KeptConn
  <2> QED
    BY <1>a, <2>10, <2>13, UntouchedIsKept, Zenon DEF Kept
\* The writer runs with AsyncWrite only.
<1>13. ASSUME NEW c \in Conns, WriterSelect(c) \/ WriterWrite(c) PROVE Kept'
  <2>1. /\ wpc[c] # "none"
        /\ UNCHANGED <<cpc, rdReq, rq, accepted, inShutdown, leftBefore, closed, spc, sock>>
    BY <1>13, Zenon DEF WriterSelect, WriterWrite
  <2>2. AsyncWrite
    BY <1>a, <2>1, Zenon DEF KeptConn
  <2>3. \A d \in Conns : (Unread(d) => Unread(d)') /\ (Over(d) => Over(d)')
    BY <2>1, Zenon DEF Unread, Over
  <2>4. \A d \in Conns : Untouched(d)
    BY <2>1, <2>2, <2>3, Zenon DEF Untouched
  <2> QED
    BY <1>a, <2>4, UntouchedIsKept, Zenon DEF Kept
<1>14. ASSUME NEW r \in Reqs, ClientSends(r) PROVE Kept'
  <2>1. /\ rq[r] = "none" /\ rq' = [rq EXCEPT ![r] = "sent"]
        /\ UNCHANGED <<cpc, rdReq, accepted, inShutdown, leftBefore, closed, spc, sock, wpc>>
    BY <1>14, Zenon DEF ClientSends
  <2> QED
    BY <2>1, ReqIsKept, Zenon
<1>15. ASSUME NEW r \in Reqs, CountRequest(r) \/ HandleRequest(r) \/ Respond(r) \/ Finish(r) PROVE Kept'
  <2>1. /\ rq[r] \in {"spawned", "handling", "respond", "finish"}
        /\ \E l \in {"handling", "respond", "finish", "end"} : rq' = [rq EXCEPT ![r] = l]
        /\ UNCHANGED <<cpc, rdReq, accepted, inShutdown, leftBefore, closed, spc, sock, wpc>>
    BY <1>15, Zenon DEF CountRequest, HandleRequest, Respond, Finish
  <2>2. PICK l \in {"handling", "respond", "finish", "end"} : rq' = [rq EXCEPT ![r] = l]
    BY <2>1, Zenon
  <2>3. rq[r] \notin {"none", "sent", "refused"}
    BY <2>1, Zenon
  <2> QED
    BY <2>1, <2>2, <2>3, ReqIsKept, Zenon
<1>16. ASSUME NEW r \in Reqs, ReadRequest(r) \/ RefuseRequest(r) PROVE Kept'
  <2> DEFINE c == ConnOf[r]
  <2>0. c \in Conns
    BY <1>0, Zenon
  <2>1. /\ rq[r] = "sent" /\ cpc[c] = "read"
        /\ UNCHANGED <<accepted, inShutdown, leftBefore, closed, spc, sock, wpc>>
    BY <1>16, Zenon DEF ReadRequest, RefuseRequest
  <2>2. CASE ReadRequest(r)
    <3>1. /\ rq' = [rq EXCEPT ![r] = "spawned"] /\ cpc' = [cpc EXCEPT ![c] = "loop"]
          /\ \A d \in Conns \ {c} : rdReq'[d] = rdReq[d]
      BY <2>2, Zenon DEF ReadRequest
    <3> QED
      BY <2>0, <2>1, <3>1, ReadIsKept, Zenon
  <2>3. CASE RefuseRequest(r)
    <3>1. /\ rq' = [rq EXCEPT ![r] = "refused"] /\ cpc' = [cpc EXCEPT ![c] = "refuse"]
          /\ rdReq' = [rdReq EXCEPT ![c] = r]
      BY <2>3, Zenon DEF RefuseRequest
    <3>2. rdReq'[c] = r /\ \A d \in Conns \ {c} : rdReq'[d] = rdReq[d]
      BY <1>0, <2>0, <3>1, Zenon
    <3> QED
      BY <2>0, <2>1, <3>1, <3>2, ReadIsKept, Zenon
  <2> QED
    BY <1>16, <2>2, <2>3, Zenon
<1>17. ASSUME AcceptError \/ ServeReturns PROVE Kept'
  BY <1>1, <1>17, Zenon DEF AcceptError, ServeReturns
<1>18. ASSUME ShutdownBegin \/ ShutdownDrained \/ ShutdownExpires \/ ShutdownGateway PROVE Kept'
  <2>1. /\ UNCHANGED <<cpc, rdReq, rq, accepted, leftBefore, wpc, closed, sock>>
        /\ (inShutdown => inShutdown') /\ spc \in {"idle", "wait", "gateway"}
    <3>1. CASE ShutdownBegin
      BY <3>1, Zenon DEF ShutdownBegin
    <3>2. CASE ShutdownDrained
      BY <3>2, Zenon DEF ShutdownDrained
    <3>3. CASE ShutdownExpires
      BY <3>3, Zenon DEF ShutdownExpires
    <3>4. CASE ShutdownGateway
      BY <3>4, Zenon DEF ShutdownGateway
    <3> QED
      BY <1>18, <3>1, <3>2, <3>3, <3>4, Zenon
  <2> QED
    BY <2>1, EndIsKept, Zenon
<1>19. ASSUME ShutdownCloseRead PROVE Kept'
  <2>1. /\ UNCHANGED <<cpc, rdReq, rq, accepted, leftBefore, wpc, closed, inShutdown>> /\ spc = "begin"
        /\ sock' = [c \in Conns |-> IF c \in activeConn \cap TCP /\ sock[c] = "open"
                                    THEN "readClosed" ELSE sock[c]]
    BY <1>19, Zenon DEF ShutdownCloseRead
  <2>2. \A d \in Conns : sock'[d] = "closed" => sock[d] = "closed"
    BY <2>1, Zenon
  <2> QED
    BY <2>1, <2>2, EndIsKept, Zenon
<1>20. ASSUME ShutdownEnd \/ Close PROVE Kept'
  <2>1. /\ UNCHANGED <<cpc, rdReq, rq, accepted, leftBefore, wpc, inShutdown>>
        /\ (closed => closed') /\ (spc = "returned" => spc' = "returned")
        /\ (closed' \/ spc' = "returned")
    <3>1. CASE ShutdownEnd
      BY <3>1, Zenon DEF ShutdownEnd
    <3>2. CASE Close
      BY <3>2, Zenon DEF Close
    <3> QED
      BY <1>20, <3>1, <3>2, Zenon
  <2> QED
    BY <2>1, EndIsKept, Zenon
<1>21. ASSUME NEW c \in Conns, ClientLeaves(c)
     PROVE  Kept'
  BY <1>1, <1>21, Zenon DEF ClientLeaves
<1> QED
  BY <1>2, <1>3, <1>4, <1>5, <1>6, <1>8, <1>9, <1>10, <1>11, <1>12, <1>13,
     <1>14, <1>15, <1>16, <1>17, <1>18, <1>19, <1>20, <1>21, Zenon
  DEF Next, ServeStep, ConnStep, ReqStep, WriterStep, ShutdownStep

\* A counted request is only written to a connection that is kept.
LEMMA AnsweredStep == IInv /\ ~AsyncWrite /\ Next => CountedAreAnswered'
<1> SUFFICES ASSUME IInv, ~AsyncWrite, Next PROVE CountedAreAnswered'
  BY Zenon
<1>0. DOMAIN out = Reqs /\ counted \subseteq Reqs
  BY ServerConstants, Zenon DEF IInv, TypeOK
<1>1. ASSUME UNCHANGED <<counted, out, expired, closed, gone, leftBefore>> PROVE CountedAreAnswered'
  BY <1>1, Zenon DEF IInv, CountedAreAnswered
<1>2. ASSUME NEW c \in Conns, ClientLeaves(c) PROVE CountedAreAnswered'
  BY <1>2, <1>0, Zenon DEF ClientLeaves, IInv, Placed, CountedAreAnswered
<1>3. ASSUME NEW c \in Conns, LoopHead(c) PROVE CountedAreAnswered'
  BY <1>3, <1>0, Zenon DEF LoopHead, Leave, IInv, Placed, CountedAreAnswered
<1>4. ASSUME NEW c \in Conns, ReadError(c) PROVE CountedAreAnswered'
  BY <1>4, <1>0, Zenon DEF ReadError, Leave, IInv, Placed, CountedAreAnswered
<1>5. ASSUME NEW c \in Conns, handleError(c) PROVE CountedAreAnswered'
  <2>1. rdReq[c] \in Reqs /\ rdReq[c] \notin counted
    BY <1>5, Zenon DEF IInv, Kept, KeptConn, Placed, handleError
  <2>2. /\ \A r \in counted : r \in Reqs => out'[r] = out[r]
        /\ leftBefore \subseteq leftBefore'
        /\ UNCHANGED <<counted, expired, closed, gone>>
    BY <1>5, <1>0, <2>1, Zenon DEF handleError, Leave, writeResponse, connWrite
  <2> QED BY <1>0, <2>2, Zenon DEF IInv, CountedAreAnswered
<1>6. ASSUME NEW c \in Conns, WriterWrite(c) PROVE CountedAreAnswered'
  BY <1>6, Zenon DEF WriterWrite, IInv, Kept, KeptConn
<1>7. ASSUME NEW r \in Reqs, CountRequest(r) PROVE CountedAreAnswered'
  BY <1>7, <1>0, Zenon DEF CountRequest, IInv, Placed, CountedAreAnswered
<1>8. ASSUME NEW r \in Reqs, Respond(r) PROVE CountedAreAnswered'
  <2>1. out' = [out EXCEPT ![r] = IF sock[ConnOf[r]] = "closed" \/ ConnOf[r] \in gone
                                  THEN "lost" ELSE "written"]
    BY <1>8, Zenon DEF Respond, writeResponse, connWrite
  <2>2. ConnOf[r] \in Conns
    BY ServerConstants, Zenon
  <2>3. sock[ConnOf[r]] = "closed" => Over(ConnOf[r])
    BY <1>8, <2>2, Zenon DEF IInv, Kept, KeptConn, Unread, Respond
  <2>4. r \in counted => expired \/ spc # "returned"
    BY <1>8, Zenon DEF IInv, Drained, Respond
  <2> QED BY <1>8, <1>0, <2>1, <2>3, <2>4, Zenon DEF IInv, CountedAreAnswered, Over, Respond
<1>9. ASSUME ShutdownExpires PROVE CountedAreAnswered'
  BY <1>9, <1>0, Zenon DEF ShutdownExpires, IInv, Placed, CountedAreAnswered
<1>10. ASSUME Close PROVE CountedAreAnswered'
  BY <1>10, <1>0, Zenon DEF Close, EndActiveConns, IInv, Placed, CountedAreAnswered
<1>11. ASSUME NEW c \in Conns,
             Accept(c) \/ RejectConn(c) \/ HandshakeFails(c) \/ ServeAccepted(c) \/ StartConn(c)
             \/ CloseWriteCh(c) \/ Drain(c) \/ EndConn(c) \/ WriterSelect(c)
     PROVE  CountedAreAnswered'
  BY <1>1, <1>11, ZenonT(30) DEF Accept, RejectConn, HandshakeFails, ServeAccepted, StartConn,
     CloseWriteCh, Drain, EndConn, WriterSelect, closeConn
<1>12. ASSUME NEW r \in Reqs,
             ClientSends(r) \/ ReadRequest(r) \/ RefuseRequest(r) \/ HandleRequest(r) \/ Finish(r)
     PROVE  CountedAreAnswered'
  BY <1>1, <1>12, ZenonT(30) DEF ClientSends, ReadRequest, RefuseRequest, HandleRequest, Finish
<1>13. ASSUME
             AcceptError \/ ServeReturns \/ ShutdownBegin \/ ShutdownCloseRead \/ ShutdownDrained
             \/ ShutdownGateway \/ ShutdownEnd
     PROVE  CountedAreAnswered'
  BY <1>1, <1>13, ZenonT(30) DEF AcceptError, ServeReturns, ShutdownBegin, ShutdownCloseRead,
     ShutdownDrained, ShutdownGateway, ShutdownEnd, EndActiveConns
<1> QED
  BY <1>1, <1>2, <1>3, <1>4, <1>5, <1>6, <1>7, <1>8, <1>9, <1>10, <1>11, <1>12, <1>13, Zenon
  DEF Next, ServeStep, ConnStep, ReqStep, WriterStep, ShutdownStep

\* Only a goroutine that counts itself changes who is counted.
LEMMA CountsStep == IInv /\ Next => Counts'
<1> SUFFICES ASSUME IInv, Next PROVE Counts'
  BY Zenon
<1>0. IsFiniteSet(InProcess) /\ DOMAIN rq = Reqs
  BY ServerConstants, FS_Subset, Zenon DEF InProcess, IInv, TypeOK
<1>1. ASSUME UNCHANGED <<rq, handlerMsgNum>> PROVE Counts'
  BY <1>1, Zenon DEF IInv, Counts, InProcess
<1>2. ASSUME NEW r \in Reqs, CountRequest(r) PROVE Counts'
  <2>1. r \notin InProcess /\ InProcess' = InProcess \cup {r}
    BY <1>0, <1>2, Zenon DEF CountRequest, InProcess
  <2> QED BY <1>0, <1>2, <2>1, FS_AddElement, Zenon DEF IInv, Counts, CountRequest
<1>3. ASSUME NEW r \in Reqs, Finish(r) PROVE Counts'
  <2>1. r \in InProcess /\ InProcess' = InProcess \ {r}
    BY <1>0, <1>3, Zenon DEF Finish, InProcess
  <2> QED BY <1>0, <1>3, <2>1, FS_RemoveElement, Zenon DEF IInv, Counts, Finish
<1>4. ASSUME NEW r \in Reqs,
             ClientSends(r) \/ ReadRequest(r) \/ RefuseRequest(r) \/ HandleRequest(r) \/ Respond(r)
      PROVE  Counts'
  <2>1. InProcess' = InProcess /\ handlerMsgNum' = handlerMsgNum
    BY <1>0, <1>4, Zenon DEF InProcess, ClientSends, ReadRequest, RefuseRequest, HandleRequest, Respond
  <2> QED BY <2>1, Zenon DEF IInv, Counts
<1>5. ASSUME NEW c \in Conns, handleError(c) PROVE Counts'
  <2>1. InProcess' = InProcess /\ handlerMsgNum' = handlerMsgNum
    BY <1>0, <1>5, Zenon DEF IInv, Kept, KeptConn, InProcess, handleError
  <2> QED BY <2>1, Zenon DEF IInv, Counts
<1>6. ASSUME NEW c \in Conns,
             Accept(c) \/ RejectConn(c) \/ HandshakeFails(c) \/ ServeAccepted(c) \/ ClientLeaves(c) \/ StartConn(c)
             \/ LoopHead(c) \/ ReadError(c) \/ CloseWriteCh(c) \/ Drain(c) \/ EndConn(c) \/ WriterSelect(c)
             \/ WriterWrite(c)
      PROVE  Counts'
  BY <1>1, <1>6, ZenonT(30) DEF Accept, RejectConn, HandshakeFails, ServeAccepted, ClientLeaves, StartConn, LoopHead,
     ReadError, CloseWriteCh, Drain, EndConn, WriterSelect, WriterWrite
<1>7. ASSUME AcceptError \/ ServeReturns \/ ShutdownBegin \/ ShutdownCloseRead \/ ShutdownDrained
             \/ ShutdownExpires \/ ShutdownGateway \/ ShutdownEnd \/ Close
      PROVE  Counts'
  BY <1>1, <1>7, Zenon DEF AcceptError, ServeReturns, ShutdownBegin, ShutdownCloseRead, ShutdownDrained,
     ShutdownExpires, ShutdownGateway, ShutdownEnd, Close
<1> QED
  BY <1>2, <1>3, <1>4, <1>5, <1>6, <1>7, Zenon
  DEF Next, ServeStep, ConnStep, ReqStep, WriterStep, ShutdownStep

\* A new server has nothing in process.
LEMMA InitIInv == Init => IInv
<1> SUFFICES ASSUME Init PROVE IInv
  BY Zenon
<1>1. TypeOK
  BY Zenon DEF Init, TypeOK
<1>2. Counts
  <2>1. InProcess = {}
    BY Zenon DEF Init, InProcess
  <2> QED BY <2>1, FS_EmptySet, Zenon DEF Init, Counts
<1>3. Placed /\ Drained /\ Ends /\ Kept /\ CountedAreAnswered
  BY Zenon DEF Init, Placed, Drained, Ends, Kept, KeptConn, Unread, CountedAreAnswered
<1> QED BY <1>1, <1>2, <1>3, Zenon DEF IInv

\* IInv is inductive.
LEMMA Invariance == Spec => []IInv
<1>1. IInv /\ [Next]_vars => IInv'
  <2> SUFFICES ASSUME IInv, [Next]_vars PROVE IInv'
    BY Zenon
  <2>1. CASE Next
    BY <2>1, TypeStep, CountsStep, PlacedStep, DrainedStep, EndsStep, KeptStep, AnsweredStep, Zenon DEF IInv
  <2>2. CASE UNCHANGED vars
    <3>1. TypeOK'
      <4>1. /\ UNCHANGED <<inShutdown, activeConn, doneChan, ln, apc, accepted, aErr, cpc, sock>>
            /\ UNCHANGED <<rdReq, rdNext, leftBefore, gone, rq, out, handlerMsgNum, counted>>
            /\ UNCHANGED <<ch, chClosed, wpc, wReq, spc, sErr, closed, expired>>
        BY <2>2, Zenon DEF vars
      <4>2. TypeOK
        BY Zenon DEF IInv
      <4>3. ch' \in [Conns -> SUBSET Reqs] /\ \A c \in Conns : \A r1, r2 \in ch'[c] : r1 = r2
        <5>1. ch \in [Conns -> SUBSET Reqs] /\ \A c \in Conns : \A r1, r2 \in ch[c] : r1 = r2
          BY <4>2, Zenon DEF TypeOK
        <5> QED
          BY <4>1, <5>1, Zenon
      <4> QED
        BY <4>1, <4>2, <4>3 DEF TypeOK
    <3>2. Counts' /\ Placed' /\ Drained' /\ Ends'
      BY <2>2, Zenon DEF vars, IInv, Counts, InProcess, Placed, Drained, Ends
    <3>3. Kept'
      BY <2>2, Zenon DEF vars, IInv, Kept, KeptConn, Unread, Over
    <3>4. ~AsyncWrite => CountedAreAnswered'
      BY <2>2, Zenon DEF vars, IInv, CountedAreAnswered
    <3> QED BY <3>1, <3>2, <3>3, <3>4, Zenon DEF IInv
  <2> QED BY <2>1, <2>2, Zenon
<1> QED BY <1>1, InitIInv, PTL DEF Spec

\* The types, among them that handlerMsgNum is never negative and that writeCh
\* holds at most one response.
THEOREM ServerTypes == Spec => []TypeOK
<1>1. IInv => TypeOK
  BY Zenon DEF IInv
<1> QED BY <1>1, Invariance, PTL

\* Without AsyncWrite, a shutdown loses no response to a request that was
\* counted before Shutdown stopped waiting.
THEOREM ShutdownAnswers == ASSUME ~AsyncWrite PROVE Spec => []CountedAreAnswered
<1>1. IInv => CountedAreAnswered
  BY Zenon DEF IInv
<1> QED BY <1>1, Invariance, PTL

\* When Serve returns because of a shutdown, the requests that were counted are
\* finished.
THEOREM ServeReturnsAfterDrain == Spec => []ServeReturnsDrained
<1>1. IInv => ServeReturnsDrained
  BY Zenon DEF IInv, Ends, Drained, ServeReturnsDrained
<1> QED BY <1>1, Invariance, PTL
=============================================================================
