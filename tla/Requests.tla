------------------------------ MODULE Requests ------------------------------
(***************************************************************************)
(* What becomes of a request: registration of services and functions       *)
(* (server/server_register.go, server/service.go), messages from the       *)
(* client's send to its input (protocol/message.go, util/compress.go), and *)
(* on the server serveConn, handleRequest, the handlers of AddHandler with *)
(* their Context, the HTTP gateway and JSON-RPC.                           *)
(*                                                                         *)
(* Requests share one connection and, in each process, the pool of gzip    *)
(* buffers; on the server also the pools of arguments and replies          *)
(* (server/pool.go).  The layout of a message in bytes is left out.        *)
(***************************************************************************)
EXTENDS Header, Sequences, FiniteSets

CONSTANTS
  Flows,         \* requests; a flow's name is its sequence number
  Asks,          \* of each flow, what it may ask for
  Paths, Names,  \* of services, of methods and functions
  Routes,        \* targets that AddHandler may be called with
  Pools,         \* the values of UsePool and of "the types have Reset" considered
  MaxSetup,      \* bound on registrations
  MaxWrites,     \* bound on the answers of a handler
  Slow,          \* flows whose responses the connection may fail to take
  Garbage        \* bytes that Unzip rejects

ASSUME RequestsConstants ==
  /\ IsFiniteSet(Flows) /\ Garbage \notin Flows
  /\ Pools \subseteq [use : BOOLEAN, reset : BOOLEAN]
  /\ MaxSetup \in Nat /\ MaxWrites \in Nat

AskTargets == {<<"", "">>} \cup UNION {{a.target : a \in Asks[f]} : f \in Flows}
AskRecords == [front : {"irpc", "http", "json"}, target : AskTargets, oneway : BOOLEAN,
               codec : BOOLEAN, size : Nat, zip : BOOLEAN]

\* A heartbeat, of Client.heartbeat, is a call that waits for its answer.
ASSUME RequestsAsks ==
  \A f \in Flows : \A a \in Asks[f] : a \in AskRecords /\ (a.target = <<"", "">> => ~a.oneway)

VARIABLES
  serviceMap, router,
  published,     \* what Register and RegisterFunction have reported as published
  setup,         \* number of registrations
  pool,          \* UsePool, and whether arguments and replies are Reset
  argPool, replyPool,  \* the contents of the free objects
  cl, sv,        \* of each flow, its client and its server side
  zip,           \* per process and flow, what became of the buffer Zip has returned
  torn,          \* flows some of whose bytes were copied from a buffer of another Zip
  c2s, s2c,      \* messages written and not yet read
  conn,          \* "up", or "down" after serveConn has returned
  lost,          \* flows with a response whose Write failed on a connection that is up
  up,            \* the server process runs
  answers,       \* number of responses written, per flow
  ran,           \* per flow, whether the service ran: "ok", or the kind of what failed
  freed          \* number of FreeMsg for the request, per flow

setupVars == <<serviceMap, router, published, setup>>
poolVars == <<argPool, replyPool>>
wireVars == <<zip, torn, c2s, s2c, conn, lost>>
histVars == <<answers, ran, freed>>
vars == <<setupVars, pool, poolVars, cl, sv, wireVars, up, histVars>>
-----------------------------------------------------------------------------
(* Data *)

\* A payload: its size (2: above 1024 bytes), and whose data is in it.
NoPayload == [size |-> 0, of |-> {}]
Payload(n, s) == [size |-> n, of |-> s]

NoMsg == [h2 |-> 0, h3 |-> 0, seq |-> Garbage, target |-> <<"", "">>, payload |-> NoPayload]
NoAsk == [front |-> "none", target |-> <<"", "">>, oneway |-> FALSE, codec |-> TRUE,
          size |-> 0, zip |-> FALSE]

NoService == [kind |-> "none", names |-> {}]

Sides == {"client", "server"}

TypeOK ==
  /\ serviceMap \in [Paths -> [kind : {"none", "method", "function"}, names : SUBSET Names]]
  /\ router \subseteq Routes /\ published \subseteq Paths \X Names
  /\ setup \in 0..MaxSetup /\ pool \in Pools
  /\ argPool \subseteq SUBSET Flows /\ replyPool \subseteq SUBSET Flows
  /\ \A f \in Flows :
       /\ cl[f].pc \in {"new", "write", "wait", "done"}
       /\ cl[f].out \in {"none", "nil", "ServiceError", "conn", "200", "error", "401", "500"}
       /\ sv[f].pc \in {"no", "handle", "call", "reply", "write", "routed", "panicked", "done"}
       /\ \A m \in {cl[f].req, sv[f].req, sv[f].res} : m.h2 \in Byte /\ m.h3 \in Byte /\ CompressType(m.h2) \in {None, Gzip}
       /\ sv[f].args \subseteq Flows
  /\ zip \in [Sides -> [Flows -> {"no", "alias", "torn"}]] /\ torn \subseteq Flows
  /\ conn \in {"up", "down"} /\ up \in BOOLEAN /\ lost \subseteq Flows
  /\ answers \in [Flows -> 0..MaxWrites] /\ ran \in [Flows -> {"no", "ok", "method", "function"}]
  /\ freed \in [Flows -> Nat]

Init ==
  /\ serviceMap = [p \in Paths |-> NoService] /\ router = {} /\ published = {} /\ setup = 0
  /\ pool \in Pools /\ argPool = {} /\ replyPool = {}
  /\ cl = [f \in Flows |->
             [pc |-> "new", ask |-> NoAsk, req |-> NoMsg, out |-> "none", got |-> NoPayload]]
  /\ sv = [f \in Flows |->
             [pc |-> "no", req |-> NoMsg, res |-> NoMsg, err |-> FALSE, args |-> {},
              back |-> "done"]]
  /\ zip = [s \in Sides |-> [f \in Flows |-> "no"]] /\ torn = {}
  /\ c2s = <<>> /\ s2c = <<>> /\ conn = "up" /\ up = TRUE /\ lost = {}
  /\ answers = [f \in Flows |-> 0] /\ ran = [f \in Flows |-> "no"]
  /\ freed = [f \in Flows |-> 0]
-----------------------------------------------------------------------------
(* Registration, before the server serves *)

MaySetup ==
  /\ \A f \in Flows : cl[f].pc = "new"
  /\ setup < MaxSetup /\ setup' = setup + 1
  /\ UNCHANGED <<pool, poolVars, cl, sv, wireVars, up, histVars>>

\* A method is published if it is exported, takes a context, arguments and a
\* pointer for the reply, of exported types, and returns an error.
suitableMethods(receiver) == {m \in DOMAIN receiver : receiver[m]}

\* A name of the user's, or of a type, which must be exported.
checkServiceName(p, useName, exported) == p # "" /\ (useName \/ exported)

\* DoRegister and DoRegisterFunction ask every plugin; some may refuse, which the
\* user is told and which does not undo the registration.
DoRegister(p, old, new) ==
  \E refused \in BOOLEAN : published' = old \cup (IF refused THEN {} ELSE {<<p, n>> : n \in new})

\* Register and RegisterName, with a receiver that has these methods
RegisterName(p, receiver, useName, exported) ==
  /\ MaySetup
  /\ LET ms == suitableMethods(receiver) IN
     IF ms = {} \/ ~checkServiceName(p, useName, exported) THEN UNCHANGED <<serviceMap, published>>
     ELSE /\ serviceMap' = [serviceMap EXCEPT ![p] = [kind |-> "method", names |-> ms]]
          /\ DoRegister(p, {t \in published : t[1] # p}, ms)
  /\ UNCHANGED router

\* Mutant: every function gets a service of its own.
WithFunctionOnly(s, name) == [kind |-> "function", names |-> {name}]

\* The service of a path that has functions or is new, with one more.
WithFunction(s, name) == [kind |-> "function", names |-> s.names \cup {name}]

\* RegisterFunctionName.  A service of Register has no map of functions: the
\* assignment panics.  Nor is a function of the wrong type published.
RegisterFunctionName(p, name, suitable) ==
  /\ MaySetup
  /\ IF ~suitable \/ serviceMap[p].kind = "method" THEN UNCHANGED <<serviceMap, published>>
     ELSE /\ serviceMap' = [serviceMap EXCEPT ![p] = WithFunction(@, name)]
          /\ DoRegister(p, published, {name})
  /\ UNCHANGED router

AddHandler(t) ==
  /\ MaySetup
  /\ router' = router \cup {t}
  /\ UNCHANGED <<serviceMap, published>>
-----------------------------------------------------------------------------
(* Messages *)

\* Clone: neither compression nor metadata nor payload.  Metadata are only those
\* of HandleError, which go with the status.
Clone(m) == [m EXCEPT !.h2 = SetCompressType(@, None), !.payload = NoPayload]

\* Mutant: the error goes into the metadata only.
HandleErrorMeta(m) == m
HandleError(m) == [m EXCEPT !.h2 = SetMessageStatusType(@, Error)]

ResponseTo(m) == [Clone(m) EXCEPT !.h2 = SetMessageType(@, Response)]

\* util.Zip returns the bytes of a buffer that it has put back into spBuffer: this
\* call of it may have taken the buffer that another one has just returned.
Zip(side, f) ==
  \E same \in BOOLEAN :
    zip' = [zip EXCEPT ![side] =
              [g \in Flows |-> IF g = f THEN "alias"
                               ELSE IF @[g] = "alias" /\ same THEN "torn" ELSE @[g]]]

\* What EncodeSlicePointer copies as the payload of m: for gzip the bytes that the
\* buffer holds then, another payload of this process, or a mixture.
Copies(side, f, m, others) ==
  IF zip[side][f] = "torn"
  THEN {m, [m EXCEPT !.payload.of = {Garbage}]} \cup {[m EXCEPT !.payload.of = p.of] : p \in others}
  ELSE {m}

Copied(side, f) ==
  /\ zip' = [zip EXCEPT ![side][f] = "no"]
  /\ torn' = IF zip[side][f] = "torn" THEN torn \cup {f} ELSE torn

\* Decode fails in Unzip.
Decodes(m) == CompressType(m.h2) = None \/ m.payload.of # {Garbage}
-----------------------------------------------------------------------------
(* The client *)

\* Client.send up to EncodeSlicePointer.  A heartbeat has neither path nor method.
NewRequest(f, a) ==
  [h2 |-> SetCompressType(SetHeartbeat(SetOneway(SetMessageType(0, Request), a.oneway),
                                       a.target = <<"", "">>),
                          IF a.size = 2 /\ a.zip THEN Gzip ELSE None),
   h3 |-> SetSerializeType(0, IF a.codec THEN 1 ELSE 15),
   seq |-> f, target |-> a.target, payload |-> Payload(a.size, {f})]

Send(f, a) ==
  /\ cl[f].pc = "new" /\ a.front = "irpc"
  /\ LET m == NewRequest(f, a) IN
       /\ cl' = [cl EXCEPT ![f].pc = "write", ![f].ask = a, ![f].req = m]
       /\ IF CompressType(m.h2) # None THEN Zip("client", f) ELSE UNCHANGED zip
  /\ UNCHANGED <<setupVars, pool, poolVars, sv, torn, c2s, s2c, conn, lost, up, histVars>>

\* EncodeSlicePointer copies, and Conn.Write.
WriteRequest(f) ==
  /\ cl[f].pc = "write"
  /\ Copied("client", f)
  /\ \E m \in Copies("client", f, cl[f].req, {cl[g].req.payload : g \in Flows \ {f}}) :
       c2s' = IF conn = "up" THEN Append(c2s, m) ELSE c2s
  /\ cl' = [cl EXCEPT ![f].pc = IF cl[f].ask.oneway THEN "done" ELSE "wait",
                      ![f].out = IF ~cl[f].ask.oneway THEN "none"
                                 ELSE IF conn = "up" THEN "nil" ELSE "conn"]
  /\ UNCHANGED <<setupVars, pool, poolVars, sv, s2c, conn, lost, up, histVars>>

\* What input makes of a response: an error if the status says so or the reply
\* cannot be decoded.
Outcomes(m) ==
  IF MessageStatusType(m.h2) = Error THEN {"ServiceError"}
  ELSE IF m.payload.size = 0 THEN {"nil"} ELSE {"nil", "ServiceError"}

Receive ==
  /\ s2c # <<>> /\ Decodes(Head(s2c))
  /\ LET m == Head(s2c)  f == m.seq IN
       IF cl[f].pc = "wait"
       THEN \E o \in Outcomes(m) :
              cl' = [cl EXCEPT ![f].pc = "done", ![f].out = o, ![f].got = m.payload]
       ELSE UNCHANGED cl
  /\ s2c' = Tail(s2c)
  /\ UNCHANGED <<setupVars, pool, poolVars, sv, zip, torn, c2s, conn, lost, up, histVars>>

\* input ends: the connection does, or a response cannot be decoded.
InputEnds ==
  /\ IF s2c = <<>> THEN conn = "down" \/ ~up ELSE ~Decodes(Head(s2c))
  /\ cl' = [f \in Flows |-> IF cl[f].pc = "wait" /\ cl[f].ask.front = "irpc"
                            THEN [cl[f] EXCEPT !.pc = "done", !.out = "conn"] ELSE cl[f]]
  /\ cl' # cl
  /\ conn' = "down" /\ c2s' = <<>> /\ s2c' = <<>>
  /\ UNCHANGED <<setupVars, pool, poolVars, sv, zip, torn, lost, up, histVars>>
-----------------------------------------------------------------------------
(* serveConn *)

\* writeResponse ignores the error of Write; after a timeout the connection stays up.
Write(f, m) ==
  /\ IF conn = "up" THEN \/ s2c' = Append(s2c, m) /\ UNCHANGED lost
                         \/ f \in Slow /\ lost' = lost \cup {f} /\ UNCHANGED s2c
     ELSE UNCHANGED <<s2c, lost>>
  /\ answers' = [answers EXCEPT ![f] = @ + 1]

Free(f) == freed' = [freed EXCEPT ![f] = @ + 1]

\* Mutant: the request is freed by the caller too.
handleErrorTwice(f, m) ==
  /\ IF IsOneway(m.h2) THEN UNCHANGED <<s2c, lost, answers>> ELSE Write(f, HandleError(ResponseTo(m)))
  /\ freed' = [freed EXCEPT ![f] = @ + 2]

\* Mutant: without an answer.
handleErrorQuiet(f, m) == UNCHANGED <<s2c, lost, answers>> /\ Free(f)

\* handleError: an answer unless the request is one-way.
handleError(f, m) ==
  /\ IF IsOneway(m.h2) THEN UNCHANGED <<s2c, lost, answers>> ELSE Write(f, HandleError(ResponseTo(m)))
  /\ Free(f)

\* One turn of the loop.  Plugins may refuse to read or, with or without
\* ErrReqReachLimit, what was read; AuthFunc may refuse what is not a heartbeat.
Read ==
  /\ up /\ conn = "up" /\ c2s # <<>>
  /\ LET m == Head(c2s)  f == m.seq IN
       \/ \* readRequest fails
          /\ conn' = "down" /\ c2s' = <<>>
          /\ \/ UNCHANGED freed   \* in DoPreReadRequest
             \/ Free(f)           \* in Decode or DoPostReadRequest
          /\ UNCHANGED <<sv, s2c, lost, answers>>
       \/ \* ErrReqReachLimit
          /\ Decodes(m) /\ handleError(f, m) /\ c2s' = Tail(c2s)
          /\ UNCHANGED <<sv, conn>>
       \/ \* auth fails
          /\ Decodes(m) /\ ~IsHeartbeat(m.h2)
          /\ handleError(f, m) /\ conn' = "down" /\ c2s' = <<>>
          /\ UNCHANGED sv
       \/ /\ Decodes(m) /\ c2s' = Tail(c2s)
          /\ sv' = [sv EXCEPT ![f].pc = "handle", ![f].req = m]
          /\ UNCHANGED <<conn, s2c, lost, answers, freed>>
  /\ UNCHANGED <<setupVars, pool, poolVars, cl, zip, torn, up, ran>>

\* The goroutine of a request: a heartbeat is its own response.
Heartbeat(f) ==
  /\ sv[f].pc = "handle" /\ IsHeartbeat(sv[f].req.h2)
  /\ Write(f, [sv[f].req EXCEPT !.h2 = SetMessageType(@, Response)]) /\ Free(f)
  /\ sv' = [sv EXCEPT ![f].pc = "done"]
  /\ UNCHANGED <<setupVars, pool, poolVars, cl, zip, torn, c2s, conn, up, ran>>
-----------------------------------------------------------------------------
(* handleRequest *)

FromGateway(f) == cl[f].ask.front = "http"
Routed(f) == ~FromGateway(f) /\ sv[f].req.target \in router

\* The kind of what handleRequest finds
Lookup(t) ==
  IF t[1] \in Paths /\ t[2] \in serviceMap[t[1]].names THEN serviceMap[t[1]].kind ELSE "none"

\* typePools: an object of the pool, or a new one.
Get(p) == IF pool.use THEN p \cup {{}} ELSE {{}}

\* Mutant: an object is not Reset.
PutUsed(p, x) == IF pool.use THEN p \cup {x} ELSE p
Put(p, x) == IF pool.use THEN p \cup {IF pool.reset THEN {} ELSE x} ELSE p

\* The end of handleRequest.
Handled(f, res, err) == sv' = [sv EXCEPT ![f].pc = "reply", ![f].res = res, ![f].err = err]

\* No service or no method: the status says so, err does not.  No codec: both do.
NotFound(f) ==
  /\ sv[f].pc = "handle" /\ ~IsHeartbeat(sv[f].req.h2) /\ ~Routed(f)
  /\ LET m == sv[f].req  t == m.target
         service == t[1] \in Paths /\ serviceMap[t[1]].kind # "none"
         coder == SerializeType(m.h3) # 15 IN
       /\ ~(service /\ coder /\ Lookup(t) # "none")
       /\ Handled(f, HandleError(ResponseTo(m)), service /\ ~coder)
  /\ UNCHANGED <<setupVars, pool, poolVars, cl, wireVars, up, histVars>>

\* Arguments are decoded into an object whose old fields may remain.  If that or,
\* for a method, DoPreCall fails, err says so and the status does not.
Decode(f) ==
  /\ sv[f].pc = "handle" /\ ~IsHeartbeat(sv[f].req.h2) /\ ~Routed(f)
  /\ LET m == sv[f].req IN
       /\ Lookup(m.target) # "none" /\ SerializeType(m.h3) # 15
       /\ \E x \in Get(argPool) :
            LET args == x \cup (m.payload.of \cap Flows) IN
              \/ /\ argPool' = argPool \ {x}
                 /\ sv' = [sv EXCEPT ![f].pc = "call", ![f].args = args]
              \/ /\ argPool' = Put(argPool \ {x}, args)
                 /\ Handled(f, ResponseTo(m), TRUE)
  /\ UNCHANGED <<setupVars, pool, replyPool, cl, wireVars, up, histVars>>

\* The result of handleRequest: with the reply, without it, or with an error only.
Full(f, reply) ==
  [res |-> [ResponseTo(sv[f].req) EXCEPT !.payload = Payload(cl[f].ask.size, reply)], err |-> FALSE]
Plain(f) == [res |-> ResponseTo(sv[f].req), err |-> FALSE]
Failed(f) == [res |-> ResponseTo(sv[f].req), err |-> TRUE]

\* If a method or DoPostCall fails, the reply is sent if there is one, and the error
\* of Encode, mostly nil, takes the place of err.
MethodResults(f, ok, reply) ==
  IF ok /\ IsOneway(sv[f].req.h2) THEN {Plain(f)} ELSE {Full(f, reply), Failed(f)}

\* If a function fails, err is returned.
FunctionResults(f, ok, reply) ==
  IF ~ok THEN {Failed(f)}
  ELSE IF IsOneway(sv[f].req.h2) THEN {Plain(f)} ELSE {Full(f, reply), Failed(f)}

\* service.call and callForFunction turn a panic into an error.  The service may
\* leave something of the arguments and of the object's past in the reply.
CallService(f) ==
  /\ sv[f].pc = "call"
  /\ LET kind == IF Lookup(sv[f].req.target) = "method" THEN "method" ELSE "function" IN
     \E ok, post \in BOOLEAN, x \in Get(replyPool) :
       LET reply == x \cup sv[f].args IN
         /\ ~post => ok /\ kind = "method"   \* DoPostCall fails
         /\ ran' = [ran EXCEPT ![f] = IF ok THEN "ok" ELSE kind]
         /\ \E r \in IF kind = "method" THEN MethodResults(f, ok /\ post, reply)
                    ELSE FunctionResults(f, ok, reply) : Handled(f, r.res, r.err)
         /\ argPool' = Put(argPool, sv[f].args) /\ replyPool' = Put(replyPool \ {x}, reply)
  /\ UNCHANGED <<setupVars, pool, cl, wireVars, up, answers, freed>>

\* A codec or a plugin panics, which the goroutine of the request recovers from
\* without an answer, and net/http by dropping the connection.
Panics(f) ==
  /\ sv[f].pc \in {"handle", "call"} /\ ~IsHeartbeat(sv[f].req.h2) /\ ~Routed(f)
  /\ Lookup(sv[f].req.target) # "none" /\ SerializeType(sv[f].req.h3) # 15
  /\ sv' = [sv EXCEPT ![f].pc = "panicked"]
  /\ argPool' = IF sv[f].pc = "call" THEN Put(argPool, sv[f].args) ELSE argPool
  /\ IF FromGateway(f)
     THEN cl' = [cl EXCEPT ![f].pc = "done", ![f].out = "conn"] /\ Free(f)
     ELSE UNCHANGED <<cl, freed>>
  /\ UNCHANGED <<setupVars, pool, replyPool, wireVars, up, answers, ran>>

\* Mutant: one-way requests are answered too.
sendResponseAlways(f) ==
  /\ sv[f].pc = "reply" /\ ~FromGateway(f)
  /\ sv' = [sv EXCEPT ![f].pc = "write"]
  /\ UNCHANGED <<setupVars, pool, poolVars, cl, wireVars, up, histVars>>

\* sendResponse and Context.Write: a large payload is compressed if the request's was.
sendResponse(f) ==
  /\ sv[f].pc = "reply" /\ ~FromGateway(f) /\ ~IsOneway(sv[f].req.h2)
  /\ LET ct == CompressType(sv[f].req.h2)
         m == IF sv[f].res.payload.size = 2 /\ ct # None
              THEN [sv[f].res EXCEPT !.h2 = SetCompressType(@, ct)] ELSE sv[f].res IN
       /\ sv' = [sv EXCEPT ![f].pc = "write", ![f].res = m]
       /\ IF CompressType(m.h2) # None THEN Zip("server", f) ELSE UNCHANGED zip
  /\ UNCHANGED <<setupVars, pool, poolVars, cl, torn, c2s, s2c, conn, lost, up, histVars>>

writeResponse(f) ==
  /\ sv[f].pc = "write"
  /\ Copied("server", f)
  /\ \E m \in Copies("server", f, sv[f].res, {sv[g].res.payload : g \in Flows \ {f}}) : Write(f, m)
  /\ sv' = [sv EXCEPT ![f].pc = sv[f].back]
  /\ IF sv[f].back = "done" THEN Free(f) ELSE UNCHANGED freed
  /\ UNCHANGED <<setupVars, pool, poolVars, cl, c2s, conn, up, ran>>

\* A one-way request gets no answer.
NoResponse(f) ==
  /\ sv[f].pc = "reply" /\ ~FromGateway(f) /\ IsOneway(sv[f].req.h2)
  /\ Free(f)
  /\ sv' = [sv EXCEPT ![f].pc = "done"]
  /\ UNCHANGED <<setupVars, pool, poolVars, cl, wireVars, up, answers, ran>>
-----------------------------------------------------------------------------
(* A handler of AddHandler and its Context *)

Handler(f) ==
  /\ sv[f].pc = "handle" /\ ~IsHeartbeat(sv[f].req.h2) /\ Routed(f)
  /\ sv' = [sv EXCEPT ![f].pc = "routed"]
  /\ UNCHANGED <<setupVars, pool, poolVars, cl, wireVars, up, histVars>>

MayAnswer(f) ==
  /\ sv[f].pc = "routed" /\ answers[f] < MaxWrites
  /\ ~IsOneway(sv[f].req.h2) /\ SerializeType(sv[f].req.h3) # 15

\* Context.Write, whose Encode may fail
ContextWrite(f) ==
  /\ MayAnswer(f)
  /\ \E p \in {NoPayload, Payload(cl[f].ask.size, sv[f].req.payload.of)} :
       sv' = [sv EXCEPT ![f].pc = "reply", ![f].back = "routed",
                        ![f].res = [ResponseTo(sv[f].req) EXCEPT !.payload = p]]
  /\ UNCHANGED <<setupVars, pool, poolVars, cl, wireVars, up, histVars>>

WriteError(f) ==
  /\ MayAnswer(f)
  /\ Write(f, HandleError(ResponseTo(sv[f].req)))
  /\ UNCHANGED <<setupVars, pool, poolVars, cl, sv, zip, torn, c2s, conn, up, ran, freed>>

\* The handler returns; its error is only logged.
HandlerReturns(f) ==
  /\ sv[f].pc = "routed"
  /\ Free(f)
  /\ sv' = [sv EXCEPT ![f].pc = "done"]
  /\ UNCHANGED <<setupVars, pool, poolVars, cl, wireVars, up, answers, ran>>
-----------------------------------------------------------------------------
(* The gateways *)

Ended(f, a, out) == cl' = [cl EXCEPT ![f].pc = "done", ![f].ask = a, ![f].out = out]

\* HTTPRequest2IrpcRequest.  X-IRPC-Heartbeat is left out: it sets a flag that
\* handleRequest does not read and the gateway does not send back.
HTTPRequest2IrpcRequest(f, a) ==
  [NewRequest(f, a) EXCEPT !.h2 = SetOneway(SetMessageType(0, Request), a.oneway)]

\* handleGatewayRequest, up to handleRequest.  A header that cannot be converted,
\* when there is no request to free, or is missing yields an error in the headers,
\* plugins and AuthFunc a status.
GatewayRequest(f, a) ==
  /\ cl[f].pc = "new" /\ a.front = "http"
  /\ \/ \E out \in {"500", "error"} : Ended(f, a, out) /\ UNCHANGED <<sv, freed>>
     \/ \E out \in {"error", "500", "401"} : Ended(f, a, out) /\ Free(f) /\ UNCHANGED sv
     \/ /\ a.target # <<"", "">>
        /\ cl' = [cl EXCEPT ![f].pc = "wait", ![f].ask = a]
        /\ sv' = [sv EXCEPT ![f].pc = "handle", ![f].req = HTTPRequest2IrpcRequest(f, a)]
        /\ UNCHANGED freed
  /\ UNCHANGED <<setupVars, pool, poolVars, wireVars, up, answers, ran>>

\* Its rest: an err is a 500, everything else a 200.
GatewayAnswer(f) ==
  /\ sv[f].pc = "reply" /\ FromGateway(f)
  /\ cl' = [cl EXCEPT ![f].pc = "done", ![f].out = IF sv[f].err THEN "500" ELSE "200",
                      ![f].got = IF sv[f].err THEN NoPayload ELSE sv[f].res.payload]
  /\ Free(f) /\ answers' = [answers EXCEPT ![f] = @ + 1]
  /\ sv' = [sv EXCEPT ![f].pc = "done"]
  /\ UNCHANGED <<setupVars, pool, poolVars, wireVars, up, ran>>

\* jsonrpcHandler: what is not JSON is answered.  handleJSONRPCRequest assigns to a
\* field of its nil result: net/http recovers the panic and drops the connection,
\* but a notification is handled in a goroutine of its own and ends the process.
JSONRPC(f, a) ==
  /\ cl[f].pc = "new" /\ a.front = "json"
  /\ \/ Ended(f, a, "error") /\ UNCHANGED up
     \/ ~a.oneway /\ Ended(f, a, "conn") /\ UNCHANGED up
     \/ a.oneway /\ Ended(f, a, "200") /\ up' = FALSE
  /\ UNCHANGED <<setupVars, pool, poolVars, sv, wireVars, histVars>>
-----------------------------------------------------------------------------
Setup ==
  \/ \E p \in Paths \cup {""} : \E receiver \in [Names -> BOOLEAN]  :
       \E useName, exported \in BOOLEAN : RegisterName(p, receiver, useName, exported)
  \/ \E p \in Paths : \E name \in Names : \E b \in BOOLEAN : RegisterFunctionName(p, name, b)
  \/ \E t \in Routes : AddHandler(t)

ServerStep(f) ==
  \/ Heartbeat(f) \/ NotFound(f) \/ Decode(f) \/ CallService(f) \/ Panics(f)
  \/ sendResponse(f) \/ writeResponse(f) \/ NoResponse(f)
  \/ Handler(f) \/ ContextWrite(f) \/ WriteError(f) \/ HandlerReturns(f)
  \/ GatewayAnswer(f)

Next ==
  \/ Setup
  \/ \E f \in Flows : \E a \in Asks[f] :
       Send(f, a) \/ (up /\ (GatewayRequest(f, a) \/ JSONRPC(f, a)))
  \/ \E f \in Flows : WriteRequest(f) \/ (up /\ ServerStep(f))
  \/ Read \/ Receive \/ InputEnds

Spec == Init /\ [][Next]_vars
-----------------------------------------------------------------------------
(* Properties *)

Finished(f) == sv[f].pc = "done" /\ ~Routed(f)

\* A request that handleRequest has dealt with was answered exactly once, and not
\* at all if it was one-way; before that there is no answer.  Only a handler of
\* AddHandler answers as often as it likes.
OneAnswer ==
  \A f \in Flows :
    /\ Finished(f) => answers[f] = IF IsOneway(sv[f].req.h2) /\ ~FromGateway(f) THEN 0 ELSE 1
    /\ sv[f].pc \in {"handle", "call"} => answers[f] = 0

\* Who is told that all is well had the service run for this very request, and an
\* error does not stand for a call that went well, with these exceptions only.  A
\* method that failed may have its reply sent instead of its error.  Over irpc the
\* err that handleRequest returned is not told, since the deferred HandleError has
\* its arguments from before; with the status set from err this holds as well.  A
\* 200 may have an error among the metadata.  The reply may not be encoded or, by
\* the client, decoded.
OutcomeIsReal ==
  \A f \in Flows : ~Routed(f) /\ sv[f].pc = "done" /\ ~IsHeartbeat(sv[f].req.h2) =>
    /\ cl[f].out = "nil" /\ ~IsOneway(sv[f].req.h2) => ran[f] \in {"ok", "method"} \/ sv[f].err
    /\ cl[f].out = "200" =>
         ran[f] \in {"ok", "method"} \/ MessageStatusType(sv[f].res.h2) = Error
    /\ cl[f].out = "ServiceError" => ran[f] # "ok" \/ sv[f].err \/ cl[f].got.size > 0

\* A caller gets nothing of another request's arguments or reply, with two
\* exceptions: bytes copied from a gzip buffer that another Zip had taken, and
\* with UsePool objects whose types do not implement Reset.
NoForeignData ==
  \A f \in Flows :
    cl[f].got.of \subseteq {f} \/ f \in torn \/ (pool.use /\ ~pool.reset)

\* Nobody waits in vain on a connection that is up: a caller's request or its
\* response is on the way, or the server works on it, be it that a limit or a
\* failed lookup answers it.  There are three exceptions: a handler of AddHandler
\* that returned without an answer, a goroutine that a panic outside of the service
\* has ended, and a response whose Write failed.
NobodyForgotten ==
  \A f \in Flows : cl[f].pc = "wait" /\ up /\ conn = "up" =>
    \/ sv[f].pc \notin {"no", "done", "panicked"}
    \/ \E i \in DOMAIN c2s : c2s[i].seq = f
    \/ \E i \in DOMAIN s2c : s2c[i].seq = f
    \/ (Routed(f) /\ answers[f] = 0) \/ sv[f].pc = "panicked" \/ f \in lost

\* What was reported as published is found, also after more registrations, until
\* Register replaces the service of that path.
PublishedIsFound == \A t \in published : Lookup(t) # "none"

\* A request goes back to protocol.msgPool at most once, and not while a
\* goroutine of the server works on it: two users of one message would write
\* each other's header.
FreedOnce ==
  \A f \in Flows :
    /\ freed[f] <= 1
    /\ sv[f].pc \in {"handle", "call", "reply", "write", "routed"} => freed[f] = 0
=============================================================================
