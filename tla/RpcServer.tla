----------------------------- MODULE RpcServer -----------------------------
(***************************************************************************)
(* The server package's connections and its end (server/server.go,         *)
(* server/server_serve.go, server/server_base.go): the goroutine in        *)
(* ServeListener, a serveConn goroutine for each connection, a goroutine   *)
(* for each request, serveAsyncWrite for each connection when AsyncWrite   *)
(* is set, and the users of Shutdown and Close.                            *)
(*                                                                         *)
(* A critical section of s.mu is one step, and so is each atomic access to *)
(* inShutdown and handlerMsgNum.  What a request asks for and what its     *)
(* response says is not modelled here; whether the response gets onto the  *)
(* connection is.                                                          *)
(***************************************************************************)
EXTENDS Integers, FiniteSets

CONSTANTS
  Conns,        \* the connections clients make
  Reqs,         \* the requests clients send, once each
  ConnOf,       \* the connection of each request
  OneWay,       \* the requests nobody answers
  Refusable,    \* the requests a limiting plugin or AuthFunc may refuse
  TCP,          \* the connections whose type is *net.TCPConn
  TLS,          \* the connections whose type is *tls.Conn
  AsyncWrite,   \* the option of that name
  Mux,          \* the listener is one of cmux (the gateway is on)
  Gateway,      \* gatewayHTTPServer # nil
  CanExpire,    \* the context given to Shutdown may expire
  CanClose,     \* a user may call Close
  CanLeave,     \* the connections whose client may go away
  ReadMayFail,  \* the connections on which readRequest may fail at any time:
                \* readTimeout, an error of a plugin, data that is no message
  NoReq         \* no request

ASSUME ServerConstants ==
  /\ ConnOf \in [Reqs -> Conns]
  /\ OneWay \subseteq Reqs /\ Refusable \subseteq Reqs
  /\ TCP \subseteq Conns /\ TLS \subseteq Conns \ TCP
  /\ CanLeave \subseteq Conns /\ ReadMayFail \subseteq Conns
  /\ NoReq \notin Reqs
  /\ {AsyncWrite, Mux, Gateway, CanExpire, CanClose} \subseteq BOOLEAN
  /\ IsFiniteSet(Reqs)

VARIABLES
  inShutdown, handlerMsgNum,        \* the atomics of Server
  activeConn, doneChan,             \* under s.mu; doneChan: is it closed
  ln,            \* "open" or "closed"
  apc, accepted, \* ServeListener: its place, the connection just accepted
  aErr,          \* what ServeListener returned
  cpc,           \* of each connection: the place of its serveConn
  sock,          \* "none", "open", "readClosed" (CloseRead) or "closed"
  gone,          \* the connections whose client went away
  rq,            \* of each request: where it is
  out,           \* of each response: "none", "written", "lost" or "queued"
  rdReq, rdNext, \* serveConn: the request it refuses, and where it goes then
  ch, chClosed,  \* of each connection: what writeCh holds; is it closed
  wpc, wReq,     \* serveAsyncWrite: its place, the response it took
  spc, sErr,     \* Shutdown: its place, the error it will return
  closed,        \* Close was called
  \* what happened, for the properties:
  expired,       \* the context of Shutdown ended its wait
  counted,       \* the requests counted before that wait ended
  leftBefore     \* the connections whose loop ended before Shutdown began

srvVars  == <<inShutdown, activeConn, doneChan, ln>>
accVars  == <<apc, accepted, aErr>>
connVars == <<cpc, sock, rdReq, rdNext, leftBefore>>
reqVars  == <<rq, out, handlerMsgNum, counted>>
chVars   == <<ch, chClosed>>
wVars    == <<wpc, wReq>>
endVars  == <<spc, sErr, closed, expired>>
vars == <<srvVars, accVars, connVars, gone, reqVars, chVars, wVars, endVars>>

TypeOK ==
  /\ inShutdown \in BOOLEAN /\ doneChan \in BOOLEAN /\ ln \in {"open", "closed"}
  /\ handlerMsgNum \in Nat
  /\ activeConn \subseteq Conns
  /\ apc \in {"accept", "accepted", "wait", "returned"}
  /\ accepted \subseteq Conns
  /\ aErr \in {"none", "ErrServerClosed", "closed", "tls"}
  /\ cpc \in [Conns -> {"none", "accepted", "start", "loop", "read", "refuse",
                        "leave", "drain", "await", "close", "ended"}]
  /\ sock \in [Conns -> {"none", "open", "readClosed", "closed"}]
  /\ gone \subseteq Conns
  /\ rq \in [Reqs -> {"none", "sent", "spawned", "handling", "respond",
                      "finish", "refused", "end"}]
  /\ out \in [Reqs -> {"none", "written", "lost", "queued"}]
  /\ rdReq \in [Conns -> Reqs \cup {NoReq}] /\ rdNext \in [Conns -> {"loop", "leave"}]
  /\ ch \in [Conns -> SUBSET Reqs] /\ \A c \in Conns : \A r1, r2 \in ch[c] : r1 = r2
  /\ chClosed \in [Conns -> BOOLEAN]
  /\ wpc \in [Conns -> {"none", "select", "write", "ended"}]
  /\ wReq \in [Conns -> Reqs \cup {NoReq}]
  /\ spc \in {"idle", "begin", "wait", "gateway", "final", "returned"}
  /\ sErr \in {"nil", "ctx"}
  /\ closed \in BOOLEAN /\ expired \in BOOLEAN
  /\ counted \subseteq Reqs /\ leftBefore \subseteq Conns

\* New, and ServeListener has stored its listener.
Init ==
  /\ inShutdown = FALSE /\ handlerMsgNum = 0 /\ activeConn = {} /\ doneChan = FALSE
  /\ ln = "open" /\ apc = "accept" /\ accepted = {} /\ aErr = "none"
  /\ cpc = [c \in Conns |-> "none"] /\ sock = [c \in Conns |-> "none"] /\ gone = {}
  /\ rq = [r \in Reqs |-> "none"] /\ out = [r \in Reqs |-> "none"]
  /\ rdReq = [c \in Conns |-> NoReq] /\ rdNext = [c \in Conns |-> "loop"]
  /\ ch = [c \in Conns |-> {}] /\ chClosed = [c \in Conns |-> FALSE]
  /\ wpc = [c \in Conns |-> "none"] /\ wReq = [c \in Conns |-> NoReq]
  /\ spc = "idle" /\ sErr = "nil" /\ closed = FALSE
  /\ expired = FALSE /\ counted = {} /\ leftBefore = {}

GotoC(c, l) == cpc' = [cpc EXCEPT ![c] = l]
GotoR(r, l) == rq' = [rq EXCEPT ![r] = l]
-----------------------------------------------------------------------------
(* ServeListener *)

\* ln.Accept returns a connection.
Accept(c) ==
  /\ apc = "accept" /\ ln = "open"
  /\ cpc[c] = "none"
  /\ apc' = "accepted" /\ accepted' = {c}
  /\ GotoC(c, "accepted")
  /\ sock' = [sock EXCEPT ![c] = "open"]
  /\ UNCHANGED <<aErr, rdReq, rdNext, leftBefore, srvVars, gone, reqVars,
                 chVars, wVars, endVars>>

\* DoPostConnAccept returns false.
RejectConn(c) ==
  /\ apc = "accepted" /\ c \in accepted
  /\ apc' = "accept" /\ accepted' = {}
  /\ GotoC(c, "ended")
  /\ sock' = [sock EXCEPT ![c] = "closed"]
  /\ UNCHANGED <<aErr, rdReq, rdNext, leftBefore, srvVars, gone, reqVars,
                 chVars, wVars, endVars>>

\* tlsConn.Handshake fails: ServeListener returns, and nobody closes the
\* connection.
HandshakeFails(c) ==
  /\ apc = "accepted" /\ c \in accepted \cap TLS
  /\ apc' = "returned" /\ accepted' = {} /\ aErr' = "tls"
  /\ GotoC(c, "ended")
  /\ UNCHANGED <<sock, rdReq, rdNext, leftBefore, srvVars, gone, reqVars, chVars,
                 wVars, endVars>>

\* setActiveConn, and the goroutine starts.
ServeAccepted(c) ==
  /\ apc = "accepted" /\ c \in accepted
  /\ apc' = "accept" /\ accepted' = {}
  /\ activeConn' = activeConn \cup {c}
  /\ GotoC(c, "start")
  /\ UNCHANGED <<aErr, inShutdown, doneChan, ln, sock, rdReq, rdNext, leftBefore,
                 gone, reqVars, chVars, wVars, endVars>>

\* ln.Accept fails because the listener is closed.  (After a temporary error
\* the loop sleeps and calls it again.)
AcceptError ==
  /\ apc = "accept" /\ ln = "closed"
  /\ \/ inShutdown /\ apc' = "wait" /\ UNCHANGED aErr
     \/ ~inShutdown /\ apc' = "returned" /\ aErr' = IF Mux THEN "ErrServerClosed" ELSE "closed"
  /\ UNCHANGED <<accepted, srvVars, connVars, gone, reqVars, chVars, wVars, endVars>>

\* Mutant: ServeListener returns as soon as Shutdown has begun.
ServeReturnsUnwaited ==
  /\ apc = "wait"
  /\ apc' = "returned" /\ aErr' = "ErrServerClosed"
  /\ UNCHANGED <<accepted, srvVars, connVars, gone, reqVars, chVars, wVars, endVars>>

\* <-s.doneChan; return ErrServerClosed
ServeReturns ==
  /\ apc = "wait" /\ doneChan
  /\ apc' = "returned" /\ aErr' = "ErrServerClosed"
  /\ UNCHANGED <<accepted, srvVars, connVars, gone, reqVars, chVars, wVars, endVars>>
-----------------------------------------------------------------------------
(* The clients *)

\* A client writes a request to its connection.
ClientSends(r) ==
  /\ rq[r] = "none"
  /\ sock[ConnOf[r]] \in {"open", "readClosed"} /\ ConnOf[r] \notin gone
  /\ GotoR(r, "sent")
  /\ UNCHANGED <<out, handlerMsgNum, counted, srvVars, accVars, connVars, gone,
                 chVars, wVars, endVars>>

\* A client goes away.
ClientLeaves(c) ==
  /\ c \in CanLeave \ gone
  /\ cpc[c] # "none"
  /\ gone' = gone \cup {c}
  /\ UNCHANGED <<srvVars, accVars, connVars, reqVars, chVars, wVars, endVars>>
-----------------------------------------------------------------------------
(* serveConn *)

\* closeConn: deleteActiveConn, then conn.Close.
closeConn(c) ==
  /\ activeConn' = activeConn \ {c}
  /\ sock' = [sock EXCEPT ![c] = "closed"]

\* The check at the head, writeCh and its goroutine.
StartConn(c) ==
  /\ cpc[c] = "start"
  /\ \/ /\ inShutdown
        /\ closeConn(c)
        /\ GotoC(c, "ended")
        /\ UNCHANGED wpc
     \/ /\ ~inShutdown
        /\ GotoC(c, "loop")
        /\ wpc' = [wpc EXCEPT ![c] = IF AsyncWrite THEN "select" ELSE "none"]
        /\ UNCHANGED <<activeConn, sock>>
  /\ UNCHANGED <<inShutdown, doneChan, ln, rdReq, rdNext, leftBefore, accVars,
                 gone, reqVars, chVars, wReq, endVars>>

\* The return statements of the loop.
Leave(c) ==
  /\ GotoC(c, "leave")
  /\ leftBefore' = IF inShutdown THEN leftBefore ELSE leftBefore \cup {c}

\* The head of the loop.
LoopHead(c) ==
  /\ cpc[c] = "loop"
  /\ \/ inShutdown /\ Leave(c)
     \/ ~inShutdown /\ GotoC(c, "read") /\ UNCHANGED leftBefore
  /\ UNCHANGED <<sock, rdReq, rdNext, srvVars, accVars, gone, reqVars, chVars,
                 wVars, endVars>>

\* readRequest returns a request that neither a plugin nor AuthFunc refuses.
\* What arrived before CloseRead can still be read.
ReadRequest(r) ==
  LET c == ConnOf[r] IN
  /\ cpc[c] = "read" /\ rq[r] = "sent" /\ sock[c] # "closed"
  /\ GotoR(r, "spawned")
  /\ GotoC(c, "loop")
  /\ UNCHANGED <<sock, rdReq, rdNext, leftBefore, out, handlerMsgNum, counted,
                 srvVars, accVars, gone, chVars, wVars, endVars>>

\* ErrReqReachLimit, after which the loop goes on, or an error of AuthFunc,
\* which ends it.
RefuseRequest(r) ==
  LET c == ConnOf[r] IN
  /\ r \in Refusable
  /\ cpc[c] = "read" /\ rq[r] = "sent" /\ sock[c] # "closed"
  /\ GotoR(r, "refused")
  /\ GotoC(c, "refuse")
  /\ rdReq' = [rdReq EXCEPT ![c] = r]
  /\ \E l \in {"loop", "leave"} : rdNext' = [rdNext EXCEPT ![c] = l]
  /\ UNCHANGED <<sock, leftBefore, out, handlerMsgNum, counted, srvVars, accVars,
                 gone, chVars, wVars, endVars>>

\* readRequest fails: the client is gone, the connection was closed or its
\* reading side was.
ReadError(c) ==
  /\ cpc[c] = "read"
  /\ c \in gone \cup ReadMayFail \/ sock[c] \in {"readClosed", "closed"}
  /\ Leave(c)
  /\ UNCHANGED <<sock, rdReq, rdNext, srvVars, accVars, gone, reqVars, chVars,
                 wVars, endVars>>

\* conn.Write of the response to r.
connWrite(r) ==
  out' = [out EXCEPT ![r] =
            IF sock[ConnOf[r]] = "closed" \/ ConnOf[r] \in gone THEN "lost" ELSE "written"]

\* writeResponse.  The send to writeCh waits while the channel is full and
\* panics when it is closed.
writeResponse(r) ==
  LET c == ConnOf[r] IN
  IF ~AsyncWrite THEN connWrite(r) /\ UNCHANGED ch
  ELSE \/ /\ ~chClosed[c] /\ ch[c] = {}
          /\ ch' = [ch EXCEPT ![c] = {r}]
          /\ out' = [out EXCEPT ![r] = "queued"]
       \/ /\ chClosed[c]
          /\ out' = [out EXCEPT ![r] = "lost"]
          /\ UNCHANGED ch

\* handleError, by serveConn itself.
handleError(c) ==
  LET r == rdReq[c] IN
  /\ cpc[c] = "refuse"
  /\ IF r \in OneWay THEN UNCHANGED <<out, ch>> ELSE writeResponse(r)
  /\ GotoR(r, "end")
  /\ rdReq' = [rdReq EXCEPT ![c] = NoReq]
  /\ IF rdNext[c] = "leave" THEN Leave(c) ELSE GotoC(c, "loop") /\ UNCHANGED leftBefore
  /\ UNCHANGED <<sock, rdNext, handlerMsgNum, counted, srvVars, accVars, gone,
                 chClosed, wVars, endVars>>

\* Mutant: writeCh is never closed.
WriteChLeftOpen(c) ==
  /\ cpc[c] = "leave"
  /\ GotoC(c, "drain")
  /\ UNCHANGED <<sock, rdReq, rdNext, leftBefore, srvVars, accVars, gone, reqVars,
                 chVars, wVars, endVars>>

\* The deferred functions, last first: close(writeCh),
CloseWriteCh(c) ==
  /\ cpc[c] = "leave"
  /\ chClosed' = [chClosed EXCEPT ![c] = AsyncWrite]
  /\ GotoC(c, "drain")
  /\ UNCHANGED <<ch, sock, rdReq, rdNext, leftBefore, srvVars, accVars, gone,
                 reqVars, wVars, endVars>>

\* Mutant: the connection is closed without a look at inShutdown.
DrainUnchecked(c) ==
  /\ cpc[c] = "drain"
  /\ GotoC(c, "close")
  /\ UNCHANGED <<sock, rdReq, rdNext, leftBefore, srvVars, accVars, gone, reqVars,
                 chVars, wVars, endVars>>

\* then, if Shutdown has begun, <-s.doneChan,
Drain(c) ==
  /\ \/ cpc[c] = "drain" /\ GotoC(c, IF inShutdown THEN "await" ELSE "close")
     \/ cpc[c] = "await" /\ doneChan /\ GotoC(c, "close")
  /\ UNCHANGED <<sock, rdReq, rdNext, leftBefore, srvVars, accVars, gone, reqVars,
                 chVars, wVars, endVars>>

\* then closeConn.
EndConn(c) ==
  /\ cpc[c] = "close"
  /\ closeConn(c)
  /\ GotoC(c, "ended")
  /\ UNCHANGED <<inShutdown, doneChan, ln, rdReq, rdNext, leftBefore, accVars,
                 gone, reqVars, chVars, wVars, endVars>>
-----------------------------------------------------------------------------
(* The goroutine of a request *)

\* atomic.AddInt32(&s.handlerMsgNum, 1): its first step, so the request was
\* not counted from the read until here.
CountRequest(r) ==
  /\ rq[r] = "spawned"
  /\ handlerMsgNum' = handlerMsgNum + 1
  /\ counted' = IF spc \in {"gateway", "final", "returned"} THEN counted
                ELSE counted \cup {r}
  /\ GotoR(r, "handling")
  /\ UNCHANGED <<out, srvVars, accVars, connVars, gone, chVars, wVars, endVars>>

\* The heartbeat, the handler of the router or handleRequest, to the point
\* where the response is ready.  A handler may also return, or panic, without
\* a response.
HandleRequest(r) ==
  /\ rq[r] = "handling"
  /\ \/ r \notin OneWay /\ GotoR(r, "respond")
     \/ GotoR(r, "finish")
  /\ UNCHANGED <<out, handlerMsgNum, counted, srvVars, accVars, connVars, gone,
                 chVars, wVars, endVars>>

\* sendResponse, or Context.Write in a handler.
Respond(r) ==
  /\ rq[r] = "respond"
  /\ writeResponse(r)
  /\ GotoR(r, "finish")
  /\ UNCHANGED <<handlerMsgNum, counted, srvVars, accVars, connVars, gone, chClosed,
                 wVars, endVars>>

\* The deferred atomic.AddInt32(&s.handlerMsgNum, -1).
Finish(r) ==
  /\ rq[r] = "finish"
  /\ handlerMsgNum' = handlerMsgNum - 1
  /\ GotoR(r, "end")
  /\ UNCHANGED <<out, counted, srvVars, accVars, connVars, gone, chVars, wVars,
                 endVars>>
-----------------------------------------------------------------------------
(* serveAsyncWrite *)

\* The select: doneChan is closed, writeCh is closed and empty, or a response
\* is there.
WriterSelect(c) ==
  /\ wpc[c] = "select"
  /\ \/ /\ doneChan \/ (chClosed[c] /\ ch[c] = {})
        /\ wpc' = [wpc EXCEPT ![c] = "ended"]
        /\ UNCHANGED <<wReq, ch>>
     \/ \E r \in ch[c] :
          /\ ch' = [ch EXCEPT ![c] = {}]
          /\ wReq' = [wReq EXCEPT ![c] = r]
          /\ wpc' = [wpc EXCEPT ![c] = "write"]
  /\ UNCHANGED <<chClosed, srvVars, accVars, connVars, gone, reqVars, endVars>>

WriterWrite(c) ==
  /\ wpc[c] = "write"
  /\ connWrite(wReq[c])
  /\ wReq' = [wReq EXCEPT ![c] = NoReq]
  /\ wpc' = [wpc EXCEPT ![c] = "select"]
  /\ UNCHANGED <<rq, handlerMsgNum, counted, srvVars, accVars, connVars, gone,
                 chVars, endVars>>
-----------------------------------------------------------------------------
(* Shutdown and Close *)

\* The compare-and-swap.
ShutdownBegin ==
  /\ spc = "idle"
  /\ inShutdown' = TRUE
  /\ spc' = "begin"
  /\ UNCHANGED <<activeConn, doneChan, ln, sErr, closed, expired, accVars,
                 connVars, gone, reqVars, chVars, wVars>>

\* The first critical section: DoUnregister, ln.Close, CloseRead.
ShutdownCloseRead ==
  /\ spc = "begin"
  /\ spc' = "wait"
  /\ ln' = "closed"
  /\ sock' = [c \in Conns |-> IF c \in activeConn \cap TCP /\ sock[c] = "open"
                              THEN "readClosed" ELSE sock[c]]
  /\ UNCHANGED <<inShutdown, activeConn, doneChan, cpc, rdReq, rdNext, leftBefore,
                 sErr, closed, expired, accVars, gone, reqVars, chVars, wVars>>

\* checkProcessMsg finds nothing in process.
ShutdownDrained ==
  /\ spc = "wait" /\ handlerMsgNum = 0
  /\ spc' = "gateway"
  /\ UNCHANGED <<sErr, closed, expired, srvVars, accVars, connVars, gone, reqVars,
                 chVars, wVars>>

\* It does not, and the context is done.
ShutdownExpires ==
  /\ CanExpire
  /\ spc = "wait" /\ handlerMsgNum # 0
  /\ spc' = "gateway"
  /\ sErr' = "ctx" /\ expired' = TRUE
  /\ UNCHANGED <<closed, srvVars, accVars, connVars, gone, reqVars, chVars, wVars>>

\* closeHTTP1APIGateway replaces the error: http.Server.Shutdown gives up
\* with that of the context only if some connection of the gateway is busy.
ShutdownGateway ==
  /\ spc = "gateway"
  /\ spc' = "final"
  /\ IF Gateway THEN sErr' = "nil" \/ (CanExpire /\ sErr' = "ctx") ELSE UNCHANGED sErr
  /\ UNCHANGED <<closed, expired, srvVars, accVars, connVars, gone, reqVars, chVars,
                 wVars>>

\* Mutant: the connections are left to their serveConn goroutines.
EndActiveConnsOpen ==
  /\ activeConn' = {}
  /\ doneChan' = TRUE
  /\ UNCHANGED sock

\* Every active connection is closed and forgotten; closeDoneChanLocked.
EndActiveConns ==
  /\ sock' = [c \in Conns |-> IF c \in activeConn THEN "closed" ELSE sock[c]]
  /\ activeConn' = {}
  /\ doneChan' = TRUE

\* The second critical section.
ShutdownEnd ==
  /\ spc = "final"
  /\ spc' = "returned"
  /\ EndActiveConns
  /\ UNCHANGED <<inShutdown, ln, cpc, rdReq, rdNext, leftBefore, sErr, closed,
                 expired, accVars, gone, reqVars, chVars, wVars>>

Close ==
  /\ CanClose /\ ~closed
  /\ closed' = TRUE
  /\ ln' = "closed"
  /\ EndActiveConns
  /\ UNCHANGED <<inShutdown, cpc, rdReq, rdNext, leftBefore, spc, sErr, expired,
                 accVars, gone, reqVars, chVars, wVars>>
-----------------------------------------------------------------------------
ServeStep ==
  \/ AcceptError \/ ServeReturns
  \/ \E c \in Conns : RejectConn(c) \/ HandshakeFails(c) \/ ServeAccepted(c)

ConnStep(c) ==
  \/ StartConn(c) \/ LoopHead(c) \/ ReadError(c) \/ handleError(c)
  \/ CloseWriteCh(c) \/ Drain(c) \/ EndConn(c)
  \/ \E r \in Reqs : ConnOf[r] = c /\ (ReadRequest(r) \/ RefuseRequest(r))

ReqStep(r) == CountRequest(r) \/ HandleRequest(r) \/ Respond(r) \/ Finish(r)

WriterStep(c) == WriterSelect(c) \/ WriterWrite(c)

ShutdownStep == ShutdownCloseRead \/ ShutdownDrained \/ ShutdownGateway \/ ShutdownEnd

Next ==
  \/ ServeStep
  \/ \E c \in Conns : Accept(c) \/ ClientLeaves(c) \/ ConnStep(c) \/ WriterStep(c)
  \/ \E r \in Reqs : ClientSends(r) \/ ReqStep(r)
  \/ ShutdownBegin \/ ShutdownStep \/ ShutdownExpires \/ Close

Spec == Init /\ [][Next]_vars

\* Goroutines that can run do run, and services return.  Clients need not
\* connect, send or leave; nobody need call Shutdown or Close.
Fairness ==
  /\ WF_vars(ServeStep) /\ WF_vars(ShutdownStep)
  /\ \A c \in Conns : WF_vars(ConnStep(c)) /\ WF_vars(WriterStep(c))
  /\ \A r \in Reqs : WF_vars(ReqStep(r))

FairSpec == Spec /\ Fairness
-----------------------------------------------------------------------------
(* Properties *)

\* The response to a request that was counted before Shutdown stopped waiting
\* is not lost to the shutdown: serveConn leaves the connection open for it,
\* and Shutdown does not close it before.  (It is lost if the context expired,
\* Close was called, the client is gone, or the connection was given up
\* before.)
CountedAreAnswered ==
  \A r \in counted : out[r] = "lost" =>
    expired \/ closed \/ ConnOf[r] \in gone \/ ConnOf[r] \in leftBefore

\* When ServeListener returns ErrServerClosed because of Shutdown, the
\* requests it counted are finished: a program that exits then cuts off none
\* of them.
ServeReturnsDrained ==
  aErr = "ErrServerClosed" /\ inShutdown /\ ~expired /\ ~closed =>
    \A r \in counted : rq[r] = "end"

\* After Shutdown began, every connection that was accepted is closed in the
\* end, the one that ServeListener accepted meanwhile too, and nothing stays
\* in activeConn.
ShutdownClosesConns ==
  inShutdown ~> [](activeConn = {} /\ \A c \in Conns : sock[c] \in {"none", "closed"})

\* Once a request is being handled its goroutine ends, with AsyncWrite too,
\* where it may wait for room in writeCh while serveAsyncWrite, serveConn and
\* Shutdown come to their ends.
HandlersFinish == \A r \in Reqs : (rq[r] = "handling") ~> (rq[r] = "end")
=============================================================================
