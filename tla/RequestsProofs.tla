--------------------------- MODULE RequestsProofs ---------------------------
(***************************************************************************)
(* Proofs about Header and Requests: the fields of a header are            *)
(* independent, what was published is found, and, from one inductive       *)
(* invariant, the other safety properties of a request.                    *)
(*                                                                         *)
(* The invariant speaks of each request by itself: Fine(f, u, v, ...)      *)
(* relates its caller u, its server side v, what was counted for it and    *)
(* its messages on the connection.  A step changes these for one request,  *)
(* or ends the connection for all of them.                                 *)
(***************************************************************************)
EXTENDS Requests, TLAPS

(* Types *)

Data == SUBSET (Flows \cup {Garbage})
Payloads == [size : Nat, of : Data]
Msgs == [h2 : Byte, h3 : Nat, seq : Flows \cup {Garbage}, target : AskTargets, payload : Payloads]
Callers ==
  [pc : {"new", "write", "wait", "done"}, ask : AskRecords \cup {NoAsk}, req : Msgs,
   out : {"none", "nil", "ServiceError", "conn", "200", "error", "401", "500"}, got : Payloads]
Servers ==
  [pc : {"no", "handle", "call", "reply", "write", "routed", "panicked", "done"}, req : Msgs,
   res : Msgs, err : BOOLEAN, args : SUBSET Flows, back : {"done", "routed"}]

Runs == {"no", "ok", "method", "function"}

\* What a gateway tells its caller.
Replies == {"500", "401", "error", "conn", "200"}

Types ==
  /\ cl \in [Flows -> Callers] /\ sv \in [Flows -> Servers]
  /\ answers \in [Flows -> Nat] /\ freed \in [Flows -> Nat]
  /\ ran \in [Flows -> Runs]
  /\ torn \subseteq Flows /\ pool \in Pools /\ conn \in {"up", "down"}
-----------------------------------------------------------------------------
(* One request f: its caller u, its server side v, its answers a, what ran r, its
   releases d, whose data it may hold M, its messages C and S on the two ways of
   the connection, whether that has let it down, n, and the routes rt. *)

Bounded(u, v, a, r, d, C, S) ==
  /\ u \in Callers /\ v \in Servers /\ a \in Nat /\ d \in Nat
  /\ r \in Runs
  /\ C \subseteq Msgs /\ S \subseteq Msgs

\* The message is the request that the caller asked for.
Own(f, k, m) ==
  /\ m.seq = f /\ m.target = k.target
  /\ IsOneway(m.h2) <=> k.oneway
  /\ IsHeartbeat(m.h2) => ~k.oneway /\ k.front = "irpc"
  /\ MessageStatusType(m.h2) = Normal

\* Such a request goes to a handler of AddHandler.
ByRoute(k, rt) == k.front # "http" /\ k.target \in rt

Early == {"handle", "call"}
Working == {"handle", "call", "reply", "write", "routed"}

\* The caller: what it has before its request is written, and while it waits.
Asking(f, u, v, a, d, C, S, n) ==
  /\ u.pc \in {"new", "write"} => v.pc = "no" /\ a = 0 /\ d = 0 /\ C = {} /\ S = {}
  /\ u.pc # "done" => u.out = "none" /\ u.got = NoPayload
  /\ u.pc = "write" => u.ask.front = "irpc" /\ Own(f, u.ask, u.req)
  /\ u.pc = "wait" /\ u.ask.front = "irpc" =>
       /\ ~u.ask.oneway
       /\ n = "up" => (a > 0 => S # {}) /\ (v.pc = "no" => C # {} \/ a > 0)
  /\ u.pc = "wait" /\ u.ask.front # "irpc" => v.pc \notin {"no", "done"}
  /\ C # {} => v.pc = "no" /\ a = 0 /\ d = 0
  /\ C # {} \/ S # {} => u.ask.front = "irpc"
  /\ S # {} => a > 0
  /\ \A m \in C : Own(f, u.ask, m)

\* The server: how often it has answered and released the request.
Serving(f, k, v, a, d, rt) ==
  /\ d <= 1 /\ (v.pc \in Working => d = 0)
  /\ v.pc \in {"handle", "call", "panicked"} => a = 0
  /\ v.pc \in {"reply", "write"} => v.res.seq = f /\ (v.back = "done" => a = 0)
  /\ v.pc \in {"no", "handle", "call"} => v.back = "done"
  /\ v.pc = "routed" \/ v.back = "routed" => ByRoute(k, rt)
  /\ v.pc = "write" \/ v.back = "routed" => ~k.oneway /\ k.front = "irpc"
  /\ v.pc = "done" /\ ~ByRoute(k, rt) => a = IF k.oneway /\ k.front # "http" THEN 0 ELSE 1
  /\ v.pc # "no" => Own(f, k, v.req) /\ k.front \in {"irpc", "http"}

\* A normal status means that the service ran or that handleRequest returned an
\* err e, an error that the service did not end well or, again, an err.  Neither is
\* so of a handler's answers and of a heartbeat.
Done(e, r) == r \in {"ok", "method"} \/ e = TRUE
Tells(m, e, r) ==
  IF MessageStatusType(m.h2) = Error THEN r # "ok" \/ e = TRUE ELSE Done(e, r)
Special(k, v, rt) == v.pc # "no" /\ (ByRoute(k, rt) \/ IsHeartbeat(v.req.h2))

\* The caller has been told how its call ended.
Told(u) == u.out = "ServiceError" \/ (u.out = "nil" /\ ~u.ask.oneway)

Real(u, v, a, r, S, rt) ==
  /\ v.pc \in {"no", "handle", "call"} => r = "no"
  /\ v.pc \in {"reply", "write"} /\ v.back = "done" => Tells(v.res, v.err, r)
  /\ ~Special(u.ask, v, rt) =>
       /\ \A m \in S : Tells(m, v.err, r)
       /\ u.out = "nil" /\ ~u.ask.oneway => Done(v.err, r)
       /\ u.out = "ServiceError" => r # "ok" \/ v.err = TRUE \/ u.got.size > 0
  /\ Told(u) => a > 0
  /\ u.out = "200" => u.ask.front # "irpc" /\ (v.pc = "done" => Tells(v.res, FALSE, r))

\* Nothing of another request is in it.
Clean(u, v, M, C, S) ==
  /\ u.req.payload.of \subseteq M /\ u.got.of \subseteq M
  /\ v.req.payload.of \subseteq M /\ v.res.payload.of \subseteq M /\ v.args \subseteq M
  /\ \A m \in C \cup S : m.payload.of \subseteq M

Fine(f, u, v, a, r, d, M, C, S, n, rt) ==
  /\ Bounded(u, v, a, r, d, C, S)
  /\ Asking(f, u, v, a, d, C, S, n)
  /\ Serving(f, u.ask, v, a, d, rt)
  /\ Real(u, v, a, r, S, rt)
  /\ Clean(u, v, M, C, S)
-----------------------------------------------------------------------------
(* The invariant *)

\* The messages of f in a queue.
Of(q, f) == {q[i] : i \in {j \in DOMAIN q : q[j].seq = f}}

\* Objects come back from the pools with what the last request left in them.
Leaky(p) == p.use /\ ~p.reset

\* Whose data a request may hold.
Mix(f, t, p) == IF f \in t \/ Leaky(p) THEN Flows \cup {Garbage} ELSE {f}

\* The connection lets a request down by ending or by not taking a response.
Line(f, n, l) == IF f \in l THEN "down" ELSE n

AllFine ==
  \A f \in Flows : Fine(f, cl[f], sv[f], answers[f], ran[f], freed[f], Mix(f, torn, pool),
                         Of(c2s, f), Of(s2c, f), Line(f, conn, lost), router)

\* Every message belongs to a request, which is sent once.
Distinct(q) == \A i, j \in DOMAIN q : q[i].seq = q[j].seq => i = j
Addressed(q) == \A i \in DOMAIN q : q[i].seq \in Flows
Queues ==
  /\ c2s \in Seq(Msgs) /\ Distinct(c2s) /\ Addressed(c2s)
  /\ s2c \in Seq(Msgs) /\ Addressed(s2c)

\* What is in a pool was Reset.
Emptied(o, p) == o \subseteq SUBSET Flows /\ (Leaky(p) \/ o \subseteq {{}})
PoolsClean == Emptied(argPool, pool) /\ Emptied(replyPool, pool)

RequestsInv == Types /\ Queues /\ PoolsClean /\ AllFine
-----------------------------------------------------------------------------
(* Headers *)

\* Writing the compression type leaves every other field of byte 2 alone: Clone
\* and sendResponse change it on a response whose flags are already set.
THEOREM CompressIndependent ==
  ASSUME NEW h \in Byte, NEW ct \in 0..7
  PROVE  LET k == SetCompressType(h, ct) IN
           /\ k \in Byte
           /\ CompressType(k) = ct
           /\ MessageType(k) = MessageType(h)
           /\ IsHeartbeat(k) = IsHeartbeat(h) /\ IsOneway(k) = IsOneway(h)
           /\ MessageStatusType(k) = MessageStatusType(h)
  BY SMTT(60) DEF Byte, SetCompressType, CompressType, MessageType, IsHeartbeat, IsOneway, Flag,
     MessageStatusType

\* So does writing the status: handleError marks a clone of the request.
THEOREM StatusIndependent ==
  ASSUME NEW h \in Byte, NEW st \in 0..3
  PROVE  LET k == SetMessageStatusType(h, st) IN
           /\ k \in Byte
           /\ MessageStatusType(k) = st
           /\ MessageType(k) = MessageType(h)
           /\ IsHeartbeat(k) = IsHeartbeat(h) /\ IsOneway(k) = IsOneway(h)
           /\ CompressType(k) = CompressType(h)
  BY SMTT(60) DEF Byte, SetMessageStatusType, CompressType, MessageType, IsHeartbeat, IsOneway, Flag,
     MessageStatusType

\* And turning a request into a response, whose heartbeat and oneway flags and
\* compression type the client still reads.
THEOREM TypeIndependent ==
  ASSUME NEW h \in Byte, NEW mt \in {Request, Response}
  PROVE  LET k == SetMessageType(h, mt) IN
           /\ k \in Byte
           /\ MessageType(k) = IF mt = Response THEN Response ELSE MessageType(h)
           /\ IsHeartbeat(k) = IsHeartbeat(h) /\ IsOneway(k) = IsOneway(h)
           /\ CompressType(k) = CompressType(h) /\ MessageStatusType(k) = MessageStatusType(h)
  BY SMTT(60) DEF Byte, SetMessageType, SetFlag, Request, Response, CompressType, MessageType, IsHeartbeat,
     IsOneway, Flag, MessageStatusType

\* SetFlag on a flag that is not set.
LEMMA SetFlagValue ==
  ASSUME NEW h \in Nat, NEW m \in Nat, ~Flag(h, m), NEW on \in BOOLEAN
  PROVE  SetFlag(h, m, on) = h + (IF on THEN m ELSE 0)
<1>1. SetFlag(h, m, TRUE) = h + m  BY Zenon DEF SetFlag
<1>2. SetFlag(h, m, FALSE) = h + 0  BY DEF SetFlag
<1>3. CASE on = TRUE  BY <1>1, <1>3, Zenon
<1>4. CASE on = FALSE  BY <1>2, <1>4, Zenon
<1> QED  BY <1>3, <1>4, Zenon

\* The flags of a request before compression.
LEMMA FlagValues ==
  ASSUME NEW o \in BOOLEAN, NEW b \in BOOLEAN
  PROVE  /\ SetOneway(SetMessageType(0, Request), o) = IF o THEN 32 ELSE 0
         /\ SetHeartbeat(SetOneway(SetMessageType(0, Request), o), b)
              = (IF o THEN 32 ELSE 0) + (IF b THEN 64 ELSE 0)
<1> DEFINE h == IF o THEN 32 ELSE 0
<1>1. SetMessageType(0, Request) = 0  BY DEF SetMessageType, Request, Response
<1>2. SetOneway(0, o) = 0 + h
  <2>1. ~Flag(0, 32)  BY DEF Flag
  <2> QED  BY <2>1, SetFlagValue, Zenon DEF SetOneway
<1>3. SetHeartbeat(h, b) = h + (IF b THEN 64 ELSE 0)
  <2>1. h \in Nat /\ ~Flag(h, 64)  BY DEF Flag
  <2> HIDE DEF h
  <2> QED  BY <2>1, SetFlagValue, Zenon DEF SetHeartbeat
<1> QED  BY <1>1, <1>2, <1>3

\* The flags of a new request are those that were asked for, and its status is normal.
LEMMA RequestFlags ==
  ASSUME NEW o \in BOOLEAN, NEW b \in BOOLEAN, NEW z \in {None, Gzip}
  PROVE  LET k == SetCompressType(SetHeartbeat(SetOneway(SetMessageType(0, Request), o), b), z) IN
           /\ k \in Byte /\ MessageStatusType(k) = Normal
           /\ IsOneway(k) <=> o
           /\ IsHeartbeat(k) <=> b
<1> DEFINE h == (IF o THEN 32 ELSE 0) + (IF b THEN 64 ELSE 0)
<1>1. SetHeartbeat(SetOneway(SetMessageType(0, Request), o), b) = h  BY FlagValues, Zenon
<1>2. h \in Byte /\ MessageStatusType(h) = 0 /\ (IsOneway(h) <=> o) /\ (IsHeartbeat(h) <=> b)
  <2>1. CASE o /\ b  BY <2>1 DEF Byte, MessageStatusType, IsOneway, IsHeartbeat, Flag
  <2>2. CASE o /\ ~b  BY <2>2 DEF Byte, MessageStatusType, IsOneway, IsHeartbeat, Flag
  <2>3. CASE ~o /\ b  BY <2>3 DEF Byte, MessageStatusType, IsOneway, IsHeartbeat, Flag
  <2>4. CASE ~o /\ ~b  BY <2>4 DEF Byte, MessageStatusType, IsOneway, IsHeartbeat, Flag
  <2> QED  BY <2>1, <2>2, <2>3, <2>4, Zenon
<1> HIDE DEF h
<1>3. z \in 0..7  BY DEF None, Gzip
<1>4. /\ SetCompressType(h, z) \in Byte
      /\ IsHeartbeat(SetCompressType(h, z)) = IsHeartbeat(h)
      /\ IsOneway(SetCompressType(h, z)) = IsOneway(h)
      /\ MessageStatusType(SetCompressType(h, z)) = MessageStatusType(h)
  BY <1>2, <1>3, CompressIndependent, Zenon
<1> QED  BY <1>1, <1>2, <1>4, Zenon DEF Normal

\* The same without compression, as the gateway sets them.
LEMMA GatewayFlags ==
  ASSUME NEW o \in BOOLEAN
  PROVE  LET k == SetOneway(SetMessageType(0, Request), o) IN
           /\ k \in Byte /\ MessageStatusType(k) = Normal
           /\ IsOneway(k) <=> o
           /\ ~IsHeartbeat(k)
<1> DEFINE k == SetOneway(SetMessageType(0, Request), o)
<1>1. k = IF o THEN 32 ELSE 0  BY FlagValues, Zenon
<1> SUFFICES k \in Byte /\ MessageStatusType(k) = Normal /\ (IsOneway(k) <=> o) /\ ~IsHeartbeat(k)
  BY Zenon
<1> HIDE DEF k
<1>2. CASE o
  <2>1. k = 32  BY <1>1, <1>2, Zenon
  <2> QED  BY <2>1, <1>2 DEF Byte, MessageStatusType, Normal, IsOneway, IsHeartbeat, Flag
<1>3. CASE ~o
  <2>1. k = 0  BY <1>1, <1>3, Zenon
  <2> QED  BY <2>1, <1>3 DEF Byte, MessageStatusType, Normal, IsOneway, IsHeartbeat, Flag
<1> QED  BY <1>2, <1>3, Zenon
-----------------------------------------------------------------------------
(* Messages *)

LEMMA NothingTyped == NoPayload \in Payloads /\ NoMsg \in Msgs
<1>1. NoPayload \in Payloads  BY Zenon DEF NoPayload, Payloads, Data
<1>2. 0 \in Byte /\ 0 \in Nat /\ <<"", "">> \in AskTargets  BY DEF Byte, AskTargets
<1> QED  BY <1>1, <1>2, Zenon DEF NoMsg, Msgs

\* ResponseTo keeps the number and the status and drops the payload.
LEMMA ResponseFacts ==
  ASSUME NEW m \in Msgs, NEW w, w = ResponseTo(m)
  PROVE  /\ w \in Msgs /\ w.seq = m.seq /\ w.payload = NoPayload
         /\ MessageStatusType(w.h2) = MessageStatusType(m.h2)
<1>1. m.h2 \in Byte  BY Zenon DEF Msgs
<1>2. PICK c : c = SetCompressType(m.h2, None)  BY Zenon
<1>3. c \in Byte /\ MessageStatusType(c) = MessageStatusType(m.h2)
  BY <1>1, <1>2, CompressIndependent, None \in 0..7, Zenon DEF None
<1>4. PICK h : h = SetMessageType(c, Response)  BY Zenon
<1>5. h \in Byte /\ MessageStatusType(h) = MessageStatusType(c)
  BY <1>3, <1>4, TypeIndependent, Zenon
<1>6. PICK z : z = [m EXCEPT !.h2 = c, !.payload = NoPayload]  BY Zenon
<1>7. z = Clone(m) /\ z.h2 = c  BY <1>2, <1>6, Zenon DEF Clone, Msgs
<1>8. z \in Msgs /\ z.seq = m.seq /\ z.payload = NoPayload
  BY <1>3, <1>6, NothingTyped, Zenon DEF Msgs
<1>9. w = [z EXCEPT !.h2 = h]  BY <1>4, <1>7, Zenon DEF ResponseTo
<1>10. w \in Msgs /\ w.h2 = h /\ w.seq = z.seq /\ w.payload = z.payload
  BY <1>5, <1>8, <1>9, Zenon DEF Msgs
<1> QED  BY <1>3, <1>5, <1>8, <1>10, Zenon

\* An answer of handleError or WriteError, and of a failed lookup.
LEMMA ErrorFacts ==
  ASSUME NEW m \in Msgs, NEW w, w = HandleError(ResponseTo(m))
  PROVE  /\ w \in Msgs /\ w.seq = m.seq /\ w.payload = NoPayload
         /\ MessageStatusType(w.h2) = Error
<1>1. PICK z : z = ResponseTo(m)  BY Zenon
<1>2. z \in Msgs /\ z.seq = m.seq /\ z.payload = NoPayload  BY <1>1, ResponseFacts, Zenon
<1>3. z.h2 \in Byte  BY <1>2, Zenon DEF Msgs
<1>4. PICK h : h = SetMessageStatusType(z.h2, Error)  BY Zenon
<1>5. h \in Byte /\ MessageStatusType(h) = Error
  BY <1>3, <1>4, StatusIndependent, Error \in 0..3, Zenon DEF Error
<1>6. w = [z EXCEPT !.h2 = h]  BY <1>1, <1>4, Zenon DEF HandleError
<1>7. w \in Msgs /\ w.h2 = h /\ w.seq = z.seq /\ w.payload = z.payload
  BY <1>2, <1>5, <1>6, Zenon DEF Msgs
<1> QED  BY <1>2, <1>5, <1>7, Zenon

\* A reply put into a response.
LEMMA FullFacts ==
  ASSUME NEW z \in Msgs, NEW p \in Payloads, NEW w, w = [z EXCEPT !.payload = p]
  PROVE  /\ w \in Msgs /\ w.seq = z.seq /\ w.payload = p /\ w.h2 = z.h2
  BY Zenon DEF Msgs

\* A heartbeat as its own response.
LEMMA BeatFacts ==
  ASSUME NEW m \in Msgs, NEW w, w = [m EXCEPT !.h2 = SetMessageType(@, Response)]
  PROVE  w \in Msgs /\ w.seq = m.seq /\ w.payload = m.payload
<1>1. m.h2 \in Byte  BY Zenon DEF Msgs
<1>2. PICK h : h = SetMessageType(m.h2, Response)  BY Zenon
<1>3. h \in Byte  BY <1>1, <1>2, TypeIndependent, Zenon
<1>4. w = [m EXCEPT !.h2 = h]  BY <1>2, Zenon
<1> QED  BY <1>3, <1>4, Zenon DEF Msgs

\* A response marked as compressed.
LEMMA ZippedFacts ==
  ASSUME NEW m \in Msgs, NEW q \in Msgs, NEW w,
         w = [m EXCEPT !.h2 = SetCompressType(@, CompressType(q.h2))]
  PROVE  /\ w \in Msgs /\ w.seq = m.seq /\ w.payload = m.payload
         /\ MessageStatusType(w.h2) = MessageStatusType(m.h2)
<1>1. m.h2 \in Byte /\ q.h2 \in Byte  BY Zenon DEF Msgs
<1>2. CompressType(q.h2) \in 0..7  BY <1>1 DEF Byte, CompressType
<1>3. PICK h : h = SetCompressType(m.h2, CompressType(q.h2))  BY Zenon
<1>4. h \in Byte /\ MessageStatusType(h) = MessageStatusType(m.h2)
  BY <1>1, <1>2, <1>3, CompressIndependent, Zenon
<1>5. w = [m EXCEPT !.h2 = h]  BY <1>3, Zenon
<1>6. w \in Msgs /\ w.h2 = h /\ w.seq = m.seq /\ w.payload = m.payload  BY <1>4, <1>5, Zenon DEF Msgs
<1> QED  BY <1>4, <1>6, Zenon

\* What EncodeSlicePointer copies differs only in whose data it is.
LEMMA CopyFacts ==
  ASSUME NEW m \in Msgs, NEW s \in Data, NEW w, w = [m EXCEPT !.payload.of = s]
  PROVE  /\ w \in Msgs /\ w.h2 = m.h2 /\ w.seq = m.seq /\ w.target = m.target
         /\ w.payload.size = m.payload.size /\ w.payload.of = s
<1>1. m.payload \in Payloads  BY Zenon DEF Msgs
<1>2. PICK p : p = [m.payload EXCEPT !.of = s]  BY Zenon
<1>3. p \in Payloads /\ p.size = m.payload.size /\ p.of = s  BY <1>1, <1>2, Zenon DEF Payloads
<1>4. w = [m EXCEPT !.payload = p]  BY <1>2, Zenon
<1> QED  BY <1>3, <1>4, Zenon DEF Msgs

LEMMA AskFacts ==
  ASSUME NEW f \in Flows, NEW k \in Asks[f]
  PROVE  k \in AskRecords /\ (k.target = <<"", "">> => ~k.oneway)
  BY RequestsAsks, Zenon

\* A new request is what was asked for, with the caller's data.
LEMMA RequestFacts ==
  ASSUME NEW f \in Flows, NEW k \in Asks[f], k.front = "irpc", NEW m, m = NewRequest(f, k)
  PROVE  m \in Msgs /\ Own(f, k, m) /\ m.payload.of = {f}
<1>1. k \in AskRecords /\ (k.target = <<"", "">> => ~k.oneway)  BY AskFacts, Zenon
<1>2. k.oneway \in BOOLEAN /\ k.target \in AskTargets /\ k.size \in Nat  BY <1>1, Zenon DEF AskRecords
<1>3. PICK b \in BOOLEAN : b = (k.target = <<"", "">>)  BY Zenon
<1>4. PICK z \in {None, Gzip} : z = IF k.size = 2 /\ k.zip THEN Gzip ELSE None  BY Zenon
<1>5. PICK h : h = SetCompressType(SetHeartbeat(SetOneway(SetMessageType(0, Request), k.oneway), b), z)
  BY Zenon
<1>6. h \in Byte /\ MessageStatusType(h) = Normal /\ (IsOneway(h) <=> k.oneway) /\ (IsHeartbeat(h) <=> b)
  BY <1>2, <1>3, <1>4, <1>5, RequestFlags, Zenon
<1>7. PICK e \in Nat : e = SetSerializeType(0, IF k.codec THEN 1 ELSE 15)
  BY DEF SetSerializeType
<1>8. PICK p : p = Payload(k.size, {f})  BY Zenon
<1>9. p \in Payloads /\ p.of = {f}  BY <1>2, <1>8, Zenon DEF Payload, Payloads, Data
<1>10. m = [h2 |-> h, h3 |-> e, seq |-> f, target |-> k.target, payload |-> p]
  BY <1>3, <1>4, <1>5, <1>7, <1>8, Zenon DEF NewRequest
<1>11. m \in Msgs /\ m.h2 = h /\ m.seq = f /\ m.target = k.target /\ m.payload = p
  BY <1>2, <1>6, <1>9, <1>10 DEF Msgs
<1> QED  BY <1>1, <1>3, <1>6, <1>9, <1>11, Zenon DEF Own

\* So is what the gateway makes of an HTTP request, which is no heartbeat.
LEMMA HTTPRequestFacts ==
  ASSUME NEW f \in Flows, NEW k \in Asks[f], NEW m, m = HTTPRequest2IrpcRequest(f, k)
  PROVE  m \in Msgs /\ Own(f, k, m) /\ ~IsHeartbeat(m.h2) /\ m.payload.of = {f}
<1>1. k \in AskRecords  BY AskFacts, Zenon
<1>2. k.oneway \in BOOLEAN /\ k.target \in AskTargets /\ k.size \in Nat  BY <1>1, Zenon DEF AskRecords
<1>5. PICK h : h = SetOneway(SetMessageType(0, Request), k.oneway)  BY Zenon
<1>6. h \in Byte /\ MessageStatusType(h) = Normal /\ (IsOneway(h) <=> k.oneway) /\ ~IsHeartbeat(h)
  BY <1>2, <1>5, GatewayFlags, Zenon
<1>7. PICK e \in Nat : e = SetSerializeType(0, IF k.codec THEN 1 ELSE 15)
  BY DEF SetSerializeType
<1>8. PICK p : p = Payload(k.size, {f})  BY Zenon
<1>9. p \in Payloads /\ p.of = {f}  BY <1>2, <1>8, Zenon DEF Payload, Payloads, Data
<1>10. m = [h2 |-> h, h3 |-> e, seq |-> f, target |-> k.target, payload |-> p]
  BY <1>5, <1>7, <1>8, Zenon DEF HTTPRequest2IrpcRequest, NewRequest
<1>11. m \in Msgs /\ m.h2 = h /\ m.seq = f /\ m.target = k.target /\ m.payload = p
  BY <1>2, <1>6, <1>9, <1>10 DEF Msgs
<1> QED  BY <1>6, <1>9, <1>11, Zenon DEF Own
-----------------------------------------------------------------------------
(* One request: each step leaves it fine *)

\* The routes matter only once the server has the request.
LEMMA SetupFine ==
  ASSUME NEW f, NEW u, NEW v, NEW a, NEW r, NEW d, NEW M, NEW C, NEW S, NEW n, NEW rt, NEW rs,
         Fine(f, u, v, a, r, d, M, C, S, n, rt), u.pc = "new"
  PROVE  Fine(f, u, v, a, r, d, M, C, S, n, rs)
<1> USE DEF Fine
<1>1. v.pc = "no" /\ S = {} /\ u.out = "none"  BY Zenon DEF Asking
<1>2. Serving(f, u.ask, v, a, d, rs)  BY <1>1, Zenon DEF Serving, Working
<1>3. Real(u, v, a, r, S, rs)  BY <1>1, Zenon DEF Real, Told
<1> QED  BY <1>2, <1>3, Zenon

\* The connection may end for everyone.
LEMMA DownFine ==
  ASSUME NEW f, NEW u, NEW v, NEW a, NEW r, NEW d, NEW M, NEW C, NEW S, NEW n, NEW rt,
         Fine(f, u, v, a, r, d, M, C, S, n, rt)
  PROVE  Fine(f, u, v, a, r, d, M, {}, S, "down", rt)
<1> USE DEF Fine
<1>1. Bounded(u, v, a, r, d, {}, S)  BY Zenon DEF Bounded
<1>2. Asking(f, u, v, a, d, {}, S, "down")  BY Zenon DEF Asking
<1>3. Clean(u, v, M, {}, S)  BY Zenon DEF Clean
<1> QED  BY <1>1, <1>2, <1>3, Zenon

\* Responses are lost or dropped, of a caller who does not wait on this connection.
LEMMA DropFine ==
  ASSUME NEW f, NEW u, NEW v, NEW a, NEW r, NEW d, NEW M, NEW C, NEW S, NEW n, NEW rt, NEW T,
         Fine(f, u, v, a, r, d, M, C, S, n, rt), T \subseteq S,
         n = "down" \/ ~(u.pc = "wait" /\ u.ask.front = "irpc")
  PROVE  Fine(f, u, v, a, r, d, M, C, T, n, rt)
<1> USE DEF Fine
<1>1. Bounded(u, v, a, r, d, C, T)  BY Zenon DEF Bounded
<1>2. Asking(f, u, v, a, d, C, T, n)  BY Zenon DEF Asking
<1>3. Real(u, v, a, r, T, rt)  BY Zenon DEF Real
<1>4. Clean(u, v, M, C, T)  BY Zenon DEF Clean
<1> QED  BY <1>1, <1>2, <1>3, <1>4, Zenon

LEMMA SendFine ==
  ASSUME NEW f \in Flows, NEW u, NEW v, NEW a, NEW r, NEW d, NEW M, NEW C, NEW S, NEW n, NEW rt,
         Fine(f, u, v, a, r, d, M, C, S, n, rt), u.pc = "new", f \in M,
         NEW k \in Asks[f], k.front = "irpc", NEW x,
         x = [u EXCEPT !.pc = "write", !.ask = k, !.req = NewRequest(f, k)]
  PROVE  Fine(f, x, v, a, r, d, M, C, S, n, rt)
<1> USE DEF Fine
<1>1. PICK m : m = NewRequest(f, k)  BY Zenon
<1>2. m \in Msgs /\ Own(f, k, m) /\ m.payload.of = {f}  BY <1>1, RequestFacts, Zenon
<1>3. u \in Callers /\ k \in AskRecords  BY AskFacts, Zenon DEF Bounded
<1>4. x \in Callers  BY <1>1, <1>2, <1>3, Zenon DEF Callers
<1>5. x.pc = "write" /\ x.ask = k /\ x.req = m /\ x.out = u.out /\ x.got = u.got
  BY <1>1, <1>3, Zenon DEF Callers
<1> HIDE DEF Fine
<1>6. /\ v.pc = "no" /\ S = {} /\ C = {} /\ a = 0 /\ d = 0 /\ v.back = "done"
      /\ u.out = "none" /\ u.got = NoPayload
  BY Zenon DEF Fine, Asking, Serving
<1>7. Bounded(x, v, a, r, d, C, S)  BY <1>4, Zenon DEF Bounded, Fine
<1>8. Asking(f, x, v, a, d, C, S, n)  BY <1>2, <1>5, <1>6, Zenon DEF Asking
<1>9. Serving(f, x.ask, v, a, d, rt)  BY <1>6 DEF Serving, Working
<1>10. Real(x, v, a, r, S, rt)  BY <1>5, <1>6, Zenon DEF Real, Told, Fine
<1>11. Clean(x, v, M, C, S)  BY <1>2, <1>5, Zenon DEF Clean, Fine
<1> QED  BY <1>7, <1>8, <1>9, <1>10, <1>11, Zenon DEF Fine

\* The caller and its requests on the connection c after the write of m.
Wrote(u, c) ==
  [u EXCEPT !.pc = IF u.ask.oneway THEN "done" ELSE "wait",
            !.out = IF ~u.ask.oneway THEN "none" ELSE IF c = "up" THEN "nil" ELSE "conn"]
OnWire(C, m, c) == IF c = "up" THEN C \cup {m} ELSE C

LEMMA WriteFine ==
  ASSUME NEW f, NEW u, NEW v, NEW a, NEW r, NEW d, NEW M, NEW C, NEW S, NEW n, NEW rt,
         Fine(f, u, v, a, r, d, M, C, S, n, rt), u.pc = "write", NEW N, M \subseteq N,
         NEW m \in Msgs, m.h2 = u.req.h2, m.seq = u.req.seq, m.target = u.req.target,
         m.payload.of \subseteq N, NEW c, n = "up" => c = "up",
         NEW D, D = OnWire(C, m, c), NEW x, x = Wrote(u, c)
  PROVE  Fine(f, x, v, a, r, d, N, D, S, n, rt)
<1>1. u \in Callers  BY Zenon DEF Fine, Bounded
<1>2. x \in Callers  BY <1>1, Zenon DEF Callers, Wrote
<1>3. /\ x.pc = IF u.ask.oneway THEN "done" ELSE "wait"
      /\ x.out = IF ~u.ask.oneway THEN "none" ELSE IF c = "up" THEN "nil" ELSE "conn"
      /\ x.ask = u.ask /\ x.req = u.req /\ x.got = u.got
  BY <1>1, Zenon DEF Callers, Wrote
<1>4. /\ v.pc = "no" /\ S = {} /\ C = {} /\ a = 0 /\ d = 0 /\ u.got = NoPayload
      /\ u.ask.front = "irpc" /\ Own(f, u.ask, u.req)
  BY Zenon DEF Fine, Asking
<1>5. Own(f, u.ask, m)  BY <1>4, Zenon DEF Own
<1>6. D \subseteq Msgs /\ (\A w \in D : w = m) /\ (n = "up" => D # {})
  BY <1>4, Zenon DEF OnWire
<1>7. Bounded(x, v, a, r, d, D, S)  BY <1>2, <1>6, Zenon DEF Bounded, Fine
<1>8. Asking(f, x, v, a, d, D, S, n)
  <2>1. CASE u.ask.oneway  BY <2>1, <1>3, <1>4, <1>5, <1>6 DEF Asking
  <2>2. CASE ~u.ask.oneway  BY <2>2, <1>3, <1>4, <1>5, <1>6 DEF Asking
  <2> QED  BY <2>1, <2>2, Zenon
<1>9. Serving(f, x.ask, v, a, d, rt)  BY <1>3, Zenon DEF Fine
<1>10. Real(x, v, a, r, S, rt)
  <2>1. ~Told(x) /\ x.out # "200"
    <3>1. CASE u.ask.oneway
      <4>1. x.ask.oneway /\ x.out \in {"nil", "conn"}  BY <3>1, <1>3, Zenon
      <4> QED  BY <4>1, Zenon DEF Told
    <3>2. CASE ~u.ask.oneway
      <4>1. x.out = "none"  BY <3>2, <1>3, Zenon
      <4> QED  BY <4>1, Zenon DEF Told
    <3> QED  BY <3>1, <3>2, Zenon
  <2> QED  BY <2>1, <1>3, <1>4, Zenon DEF Real, Fine, Told
<1>11. Clean(x, v, N, D, S)  BY <1>3, <1>4, <1>6, Zenon DEF Clean, Fine
<1> QED  BY <1>7, <1>8, <1>9, <1>10, <1>11, Zenon DEF Fine

LEMMA ReceiveFine ==
  ASSUME NEW f, NEW u, NEW v, NEW a, NEW r, NEW d, NEW M, NEW C, NEW S, NEW n, NEW rt,
         Fine(f, u, v, a, r, d, M, C, S, n, rt), u.pc = "wait", NEW T, T \subseteq S,
         NEW m \in S, NEW o \in Outcomes(m), NEW x,
         x = [u EXCEPT !.pc = "done", !.out = o, !.got = m.payload]
  PROVE  Fine(f, x, v, a, r, d, M, C, T, n, rt)
<1>1. u \in Callers /\ m \in Msgs  BY Zenon DEF Fine, Bounded
<1>2. m.payload \in Payloads  BY <1>1, Zenon DEF Msgs
<1>3. /\ o \in {"nil", "ServiceError"}
      /\ o = "nil" => MessageStatusType(m.h2) # Error
      /\ o = "ServiceError" => MessageStatusType(m.h2) = Error \/ m.payload.size > 0
  <2>1. m.payload.size \in Nat  BY <1>2, Zenon DEF Payloads
  <2> QED  BY <2>1 DEF Outcomes
<1>4. x \in Callers  BY <1>1, <1>2, <1>3, Zenon DEF Callers
<1>5. x.pc = "done" /\ x.out = o /\ x.ask = u.ask /\ x.req = u.req /\ x.got = m.payload
  BY <1>1, Zenon DEF Callers
<1>6. a > 0  BY Zenon DEF Fine, Asking
<1>7. Bounded(x, v, a, r, d, C, T)  BY <1>4, Zenon DEF Bounded, Fine
<1>8. Asking(f, x, v, a, d, C, T, n)  BY <1>5, Zenon DEF Asking, Fine
<1>9. Serving(f, x.ask, v, a, d, rt)  BY <1>5, Zenon DEF Fine
<1>10. Real(x, v, a, r, T, rt)
  <2>1. ~Special(u.ask, v, rt) => Tells(m, v.err, r)  BY Zenon DEF Fine, Real
  <2> QED  BY <2>1, <1>3, <1>5, <1>6, Zenon DEF Real, Fine, Tells
<1>11. Clean(x, v, M, C, T)  BY <1>5, Zenon DEF Clean, Fine
<1> QED  BY <1>7, <1>8, <1>9, <1>10, <1>11, Zenon DEF Fine

\* The caller is told that the connection has ended.
LEMMA EndFine ==
  ASSUME NEW f, NEW u, NEW v, NEW a, NEW r, NEW d, NEW M, NEW C, NEW S, NEW n, NEW rt,
         Fine(f, u, v, a, r, d, M, C, S, n, rt), u.pc = "wait", u.ask.front = "irpc", NEW x,
         x = [u EXCEPT !.pc = "done", !.out = "conn"]
  PROVE  Fine(f, x, v, a, r, d, M, C, S, n, rt)
<1>1. u \in Callers  BY Zenon DEF Fine, Bounded
<1>2. x \in Callers  BY <1>1, Zenon DEF Callers
<1>3. x.pc = "done" /\ x.out = "conn" /\ x.ask = u.ask /\ x.req = u.req /\ x.got = u.got
  BY <1>1, Zenon DEF Callers
<1>4. Bounded(x, v, a, r, d, C, S)  BY <1>2, Zenon DEF Bounded, Fine
<1>5. Asking(f, x, v, a, d, C, S, n)  BY <1>3, Zenon DEF Asking, Fine
<1>6. Serving(f, x.ask, v, a, d, rt)  BY <1>3, Zenon DEF Fine
<1>7. Real(x, v, a, r, S, rt)  BY <1>3, Zenon DEF Real, Told, Fine
<1>8. Clean(x, v, M, C, S)  BY <1>3, Zenon DEF Clean, Fine
<1> QED  BY <1>4, <1>5, <1>6, <1>7, <1>8, Zenon DEF Fine

\* A request that cannot be read is released at most once; the connection ends.
LEMMA ReadFails ==
  ASSUME NEW f, NEW u, NEW v, NEW a, NEW r, NEW d, NEW M, NEW C, NEW S, NEW n, NEW rt,
         Fine(f, u, v, a, r, d, M, C, S, n, rt),
         C # {}, NEW e \in {d, d + 1}
  PROVE  Fine(f, u, v, a, r, e, M, {}, S, "down", rt)
<1>1. v.pc = "no" /\ d = 0 /\ a = 0  BY Zenon DEF Fine, Asking
<1>2. e \in {0, 1}  BY <1>1
<1>3. Bounded(u, v, a, r, e, {}, S)  BY <1>2 DEF Bounded, Fine
<1>4. Asking(f, u, v, a, e, {}, S, "down")  BY <1>1, Zenon DEF Asking, Fine
<1>5. Serving(f, u.ask, v, a, e, rt)  BY <1>1, <1>2 DEF Serving, Fine, Working
<1>6. Clean(u, v, M, {}, S)  BY Zenon DEF Clean, Fine
<1> QED  BY <1>3, <1>4, <1>5, <1>6, Zenon DEF Fine

\* handleError answers a request that was read, unless it is one-way, and releases it.
LEMMA ErrorFine ==
  ASSUME NEW f, NEW u, NEW v, NEW a, NEW r, NEW d, NEW M, NEW C, NEW S, NEW n, NEW rt,
         Fine(f, u, v, a, r, d, M, C, S, n, rt),
         NEW m \in C, NEW b, NEW T, NEW o,
         \/ IsOneway(m.h2) /\ b = a /\ T = S
         \/ /\ ~IsOneway(m.h2) /\ b = a + 1 /\ T \subseteq S \cup {HandleError(ResponseTo(m))}
            /\ o = "up" => T # {}
  PROVE  Fine(f, u, v, b, r, d + 1, M, {}, T, o, rt)
<1>1. /\ v.pc = "no" /\ d = 0 /\ a = 0 /\ S = {} /\ u.pc \in {"wait", "done"}
      /\ u.ask.front = "irpc" /\ Own(f, u.ask, m) /\ m \in Msgs
  <2>1. u.pc \in {"new", "write", "wait", "done"} /\ m \in Msgs  BY Zenon DEF Fine, Bounded, Callers
  <2> QED  BY <2>1 DEF Fine, Asking
<1>2. PICK w : w = HandleError(ResponseTo(m))  BY Zenon
<1>3. w \in Msgs /\ w.payload = NoPayload /\ MessageStatusType(w.h2) = Error
  BY <1>1, <1>2, ErrorFacts, Zenon
<1>4. r = "no" /\ ~Told(u)  BY <1>1 DEF Fine, Real
<1>5. \A z \in T : z = w  BY <1>1, <1>2, Zenon
<1>6. w.payload.size = 0 /\ w.payload.of = {}  BY <1>3 DEF NoPayload
<1>7. Bounded(u, v, b, r, d + 1, {}, T)
  <2>1. T \subseteq Msgs  BY <1>3, <1>5, Zenon
  <2> QED  BY <1>1, <2>1 DEF Bounded, Fine
<1>8. Asking(f, u, v, b, d + 1, {}, T, o)
  <2>1. IsOneway(m.h2) <=> u.ask.oneway  BY <1>1, Zenon DEF Own
  <2>2. T # {} => b > 0  BY <1>1
  <2>3. ~u.ask.oneway => b > 0 /\ (o = "up" => T # {})  BY <1>1, <2>1
  <2> QED  BY <1>1, <2>2, <2>3, Zenon DEF Asking, Fine
<1>9. Serving(f, u.ask, v, b, d + 1, rt)  BY <1>1 DEF Serving, Fine, Working
<1>10. Real(u, v, b, r, T, rt)
  <2>1. \A z \in T : Tells(z, v.err, r)  BY <1>3, <1>4, <1>5, Zenon DEF Tells
  <2>2. v.pc = "no" /\ u.out # "200"  BY <1>1, Zenon DEF Fine, Real
  <2> QED  BY ONLY <1>4, <2>1, <2>2, Zenon DEF Real, Told
<1>11. Clean(u, v, M, {}, T)  BY <1>5, <1>6, Zenon DEF Clean, Fine
<1> QED  BY <1>7, <1>8, <1>9, <1>10, <1>11, Zenon DEF Fine

\* The server starts to work on a request it has read.
LEMMA TakeFine ==
  ASSUME NEW f, NEW u, NEW v, NEW a, NEW r, NEW d, NEW M, NEW C, NEW S, NEW n, NEW rt,
         Fine(f, u, v, a, r, d, M, C, S, n, rt),
         NEW m \in C, NEW y, y = [v EXCEPT !.pc = "handle", !.req = m]
  PROVE  Fine(f, u, y, a, r, d, M, {}, S, n, rt)
<1>1. /\ v.pc = "no" /\ d = 0 /\ a = 0 /\ S = {} /\ u.ask.front = "irpc" /\ Own(f, u.ask, m)
      /\ m \in Msgs /\ v \in Servers /\ v.back = "done" /\ r = "no"
      /\ u.pc \notin {"new", "write"}
  BY DEF Fine, Asking, Bounded, Serving, Real
<1>2. y \in Servers  BY <1>1, Zenon DEF Servers
<1>3. /\ y.pc = "handle" /\ y.req = m /\ y.res = v.res /\ y.args = v.args /\ y.back = "done"
  BY <1>1, Zenon DEF Servers
<1>4. Bounded(u, y, a, r, d, {}, S)  BY <1>2, Zenon DEF Bounded, Fine
<1>5. Asking(f, u, y, a, d, {}, S, n)  BY <1>1, <1>3, Zenon DEF Asking, Fine
<1>6. Serving(f, u.ask, y, a, d, rt)  BY <1>1, <1>3 DEF Serving, Working
<1>7. Real(u, y, a, r, S, rt)
  <2>1. ~Told(u) /\ u.out # "200"  BY <1>1 DEF Fine, Real
  <2> QED  BY <1>1, <1>3, <2>1, Zenon DEF Real, Told
<1>8. Clean(u, y, M, {}, S)  BY <1>3, Zenon DEF Clean, Fine
<1> QED  BY <1>4, <1>5, <1>6, <1>7, <1>8, Zenon DEF Fine

\* A heartbeat is answered and released.
LEMMA HeartbeatFine ==
  ASSUME NEW f, NEW u, NEW v, NEW a, NEW r, NEW d, NEW M, NEW C, NEW S, NEW n, NEW rt,
         Fine(f, u, v, a, r, d, M, C, S, n, rt),
         v.pc = "handle", IsHeartbeat(v.req.h2), NEW w, w = [v.req EXCEPT !.h2 = SetMessageType(@, Response)],
         NEW T, T \subseteq S \cup {w}, NEW o, o = "up" => T # {}, NEW y, y = [v EXCEPT !.pc = "done"]
  PROVE  Fine(f, u, y, a + 1, r, d + 1, M, C, T, o, rt)
<1>1. /\ d = 0 /\ a = 0 /\ S = {} /\ C = {} /\ v \in Servers /\ v.back = "done"
      /\ Own(f, u.ask, v.req) /\ u.pc \notin {"new", "write"}
  BY DEF Fine, Asking, Bounded, Serving, Working
<1>2. u.ask.front = "irpc" /\ ~u.ask.oneway  BY <1>1, Zenon DEF Own
<1>3. v.req \in Msgs  BY <1>1, Zenon DEF Servers
<1>4. w \in Msgs /\ w.payload = v.req.payload  BY <1>3, BeatFacts, Zenon
<1>5. y \in Servers /\ y.pc = "done" /\ y.req = v.req /\ y.res = v.res /\ y.args = v.args /\ y.back = "done"
  BY <1>1, Zenon DEF Servers
<1>6. \A z \in T : z = w  BY <1>1, Zenon
<1>7. Bounded(u, y, a + 1, r, d + 1, C, T)
  <2>1. T \subseteq Msgs  BY <1>4, <1>6, Zenon
  <2> QED  BY <1>1, <1>5, <2>1 DEF Bounded, Fine
<1>8. Asking(f, u, y, a + 1, d + 1, C, T, o)  BY <1>1, <1>2, <1>5, <1>6 DEF Asking, Fine
<1>9. Serving(f, u.ask, y, a + 1, d + 1, rt)  BY <1>1, <1>2, <1>5 DEF Serving, Working
<1>10. Real(u, y, a + 1, r, T, rt)
  <2>1. u.out # "200"  BY <1>2, Zenon DEF Fine, Real
  <2>2. Special(u.ask, y, rt)  BY <1>5, Zenon DEF Special
  <2>3. a + 1 > 0  BY <1>1
  <2> QED  BY ONLY <2>1, <2>2, <2>3, <1>5, Zenon DEF Real
<1>11. Clean(u, y, M, C, T)  BY <1>4, <1>5, <1>6, Zenon DEF Clean, Fine
<1> QED  BY <1>7, <1>8, <1>9, <1>10, <1>11, Zenon DEF Fine

\* What handleRequest may return for f, with the err e, if q is how the service ended.
Result(f, w, e, q, M) ==
  w \in Msgs /\ w.seq = f /\ w.payload.of \subseteq M /\ q \in Runs /\ Tells(w, e, q)

\* handleRequest ends: what it returns says whether the service ran.
LEMMA HandledFine ==
  ASSUME NEW f, NEW u, NEW v, NEW a, NEW r, NEW d, NEW M, NEW C, NEW S, NEW n, NEW rt,
         Fine(f, u, v, a, r, d, M, C, S, n, rt),
         v.pc \in Early,
         NEW w, NEW q, NEW e \in BOOLEAN, Result(f, w, e, q, M), NEW y, y = [v EXCEPT !.pc = "reply", !.res = w, !.err = e]
  PROVE  Fine(f, u, y, a, q, d, M, C, S, n, rt)
<1>0. w \in Msgs /\ w.seq = f /\ w.payload.of \subseteq M /\ q \in Runs /\ Tells(w, e, q)
  BY Zenon DEF Result
<1>1. /\ d = 0 /\ a = 0 /\ S = {} /\ C = {} /\ v \in Servers /\ v.back = "done"
      /\ Own(f, u.ask, v.req) /\ u.pc \notin {"new", "write"} /\ u.ask.front \in {"irpc", "http"}
  BY DEF Fine, Asking, Bounded, Serving, Working, Early
<1>2. y \in Servers  BY <1>0, <1>1, Zenon DEF Servers
<1>3. /\ y.pc = "reply" /\ y.req = v.req /\ y.res = w /\ y.args = v.args /\ y.back = "done"
      /\ y.err = e
  BY <1>1, Zenon DEF Servers
<1>4. Bounded(u, y, a, q, d, C, S)  BY <1>0, <1>2, Zenon DEF Bounded, Fine
<1>5. Asking(f, u, y, a, d, C, S, n)  BY <1>1, <1>3, Zenon DEF Asking, Fine
<1>6. Serving(f, u.ask, y, a, d, rt)  BY <1>0, <1>1, <1>3 DEF Serving, Working
<1>7. Real(u, y, a, q, S, rt)
  <2>0. ~(a > 0)  BY <1>1
  <2>1. ~Told(u) /\ (u.out = "200" => u.ask.front # "irpc")  BY <2>0, Zenon DEF Fine, Real
  <2> QED  BY <1>0, <1>1, <1>3, <2>1, Zenon DEF Real, Told
<1>8. Clean(u, y, M, C, S)  BY <1>0, <1>3, Zenon DEF Clean, Fine
<1> QED  BY <1>4, <1>5, <1>6, <1>7, <1>8, Zenon DEF Fine

\* The arguments are decoded.
LEMMA DecodeFine ==
  ASSUME NEW f, NEW u, NEW v, NEW a, NEW r, NEW d, NEW M, NEW C, NEW S, NEW n, NEW rt,
         Fine(f, u, v, a, r, d, M, C, S, n, rt),
         v.pc = "handle", NEW s \in SUBSET Flows, s \subseteq M,
         NEW y, y = [v EXCEPT !.pc = "call", !.args = s]
  PROVE  Fine(f, u, y, a, r, d, M, C, S, n, rt)
<1>1. /\ d = 0 /\ a = 0 /\ S = {} /\ C = {} /\ v \in Servers /\ v.back = "done" /\ r = "no"
      /\ Own(f, u.ask, v.req) /\ u.pc \notin {"new", "write"} /\ u.ask.front \in {"irpc", "http"}
  BY DEF Fine, Asking, Bounded, Serving, Working, Real
<1>2. y \in Servers  BY <1>1, Zenon DEF Servers
<1>3. y.pc = "call" /\ y.req = v.req /\ y.res = v.res /\ y.args = s /\ y.back = "done"
  BY <1>1, Zenon DEF Servers
<1>4. Bounded(u, y, a, r, d, C, S)  BY <1>2, Zenon DEF Bounded, Fine
<1>5. Asking(f, u, y, a, d, C, S, n)  BY <1>1, <1>3, Zenon DEF Asking, Fine
<1>6. Serving(f, u.ask, y, a, d, rt)  BY <1>1, <1>3 DEF Serving, Working
<1>7. Real(u, y, a, r, S, rt)
  <2>0. ~(a > 0)  BY <1>1
  <2>1. ~Told(u) /\ (u.out = "200" => u.ask.front # "irpc")  BY <2>0, Zenon DEF Fine, Real
  <2> QED  BY <1>1, <1>3, <2>1, Zenon DEF Real, Told
<1>8. Clean(u, y, M, C, S)  BY <1>3, Zenon DEF Clean, Fine
<1> QED  BY <1>4, <1>5, <1>6, <1>7, <1>8, Zenon DEF Fine

\* A panic: nobody is answered, and the gateway releases the request and drops the connection.
LEMMA PanicFine ==
  ASSUME NEW f, NEW u, NEW v, NEW a, NEW r, NEW d, NEW M, NEW C, NEW S, NEW n, NEW rt,
         Fine(f, u, v, a, r, d, M, C, S, n, rt),
         v.pc \in Early, NEW y, y = [v EXCEPT !.pc = "panicked"], NEW x, NEW e,
         \/ u.ask.front = "http" /\ x = [u EXCEPT !.pc = "done", !.out = "conn"] /\ e = d + 1
         \/ u.ask.front # "http" /\ x = u /\ e = d
  PROVE  Fine(f, x, y, a, r, e, M, C, S, n, rt)
<1>1. /\ d = 0 /\ a = 0 /\ S = {} /\ C = {} /\ u \in Callers /\ v \in Servers /\ v.back = "done" /\ r = "no"
      /\ Own(f, u.ask, v.req) /\ u.pc \notin {"new", "write"} /\ u.ask.front \in {"irpc", "http"}
  BY DEF Fine, Asking, Bounded, Serving, Working, Real, Early
<1>2. y \in Servers  BY <1>1, Zenon DEF Servers
<1>3. y.pc = "panicked" /\ y.req = v.req /\ y.res = v.res /\ y.args = v.args /\ y.back = "done"
  BY <1>1, Zenon DEF Servers
<1>4. x \in Callers  BY <1>1, Zenon DEF Callers
<1>5. /\ x.ask = u.ask /\ x.req = u.req /\ x.got = u.got /\ x.out \in {u.out, "conn"}
      /\ x.pc \in {u.pc, "done"} /\ (x.pc # "done" => x.out = u.out)
  BY <1>1, Zenon DEF Callers
<1>6. e \in {0, 1}  BY <1>1
<1>7. Bounded(x, y, a, r, e, C, S)  BY <1>2, <1>4, <1>6 DEF Bounded, Fine
<1>8. Asking(f, x, y, a, e, C, S, n)
  <2>1. CASE x.pc = "done"  BY <2>1, <1>1, <1>3, Zenon DEF Asking
  <2>2. CASE x.pc # "done"  BY <2>2, <1>1, <1>3, <1>5, Zenon DEF Asking, Fine
  <2> QED  BY <2>1, <2>2, Zenon
<1>9. Serving(f, x.ask, y, a, e, rt)  BY <1>1, <1>3, <1>5, <1>6 DEF Serving, Working
<1>10. Real(x, y, a, r, S, rt)
  <2>0. ~(a > 0)  BY <1>1
  <2>1. ~Told(u) /\ (u.out = "200" => u.ask.front # "irpc")  BY <2>0, Zenon DEF Fine, Real
  <2> QED  BY <1>1, <1>3, <1>5, <2>1, Zenon DEF Real, Told
<1>11. Clean(x, y, M, C, S)  BY <1>3, <1>5, Zenon DEF Clean, Fine
<1> QED  BY <1>7, <1>8, <1>9, <1>10, <1>11, Zenon DEF Fine

\* sendResponse may mark the response as compressed.
LEMMA SendResponseFine ==
  ASSUME NEW f, NEW u, NEW v, NEW a, NEW r, NEW d, NEW M, NEW C, NEW S, NEW n, NEW rt,
         Fine(f, u, v, a, r, d, M, C, S, n, rt),
         v.pc = "reply", u.ask.front # "http", ~IsOneway(v.req.h2), NEW w \in Msgs, w.seq = v.res.seq,
         w.payload = v.res.payload, MessageStatusType(w.h2) = MessageStatusType(v.res.h2),
         NEW y, y = [v EXCEPT !.pc = "write", !.res = w]
  PROVE  Fine(f, u, y, a, r, d, M, C, S, n, rt)
<1>1. /\ d = 0 /\ C = {} /\ v \in Servers /\ Own(f, u.ask, v.req) /\ u.pc \notin {"new", "write"}
      /\ u.ask.front = "irpc"
  BY Zenon DEF Fine, Asking, Bounded, Serving, Working
<1>2. y \in Servers  BY <1>1, Zenon DEF Servers
<1>3. /\ y.pc = "write" /\ y.req = v.req /\ y.res = w /\ y.args = v.args /\ y.back = v.back
      /\ y.err = v.err
  BY <1>1, Zenon DEF Servers
<1>4. Bounded(u, y, a, r, d, C, S)  BY <1>2, Zenon DEF Bounded, Fine
<1>5. Asking(f, u, y, a, d, C, S, n)  BY <1>1, <1>3, Zenon DEF Asking, Fine
<1>6. Serving(f, u.ask, y, a, d, rt)
  <2>1. ~u.ask.oneway  BY <1>1, Zenon DEF Own
  <2> QED  BY <1>1, <1>3, <2>1, Zenon DEF Serving, Working, Fine
<1>7. Real(u, y, a, r, S, rt)
  <2>1. Tells(v.res, v.err, r) => Tells(w, y.err, r)  BY <1>3, Zenon DEF Tells
  <2> QED  BY <1>3, <2>1, Zenon DEF Real, Fine, Special
<1>8. Clean(u, y, M, C, S)  BY <1>3, Zenon DEF Clean, Fine
<1> QED  BY <1>4, <1>5, <1>6, <1>7, <1>8, Zenon DEF Fine

\* The response is written; for a handler of AddHandler that is not the end.
LEMMA WriteResponseFine ==
  ASSUME NEW f, NEW u, NEW v, NEW a, NEW r, NEW d, NEW M, NEW C, NEW S, NEW n, NEW rt,
         Fine(f, u, v, a, r, d, M, C, S, n, rt),
         v.pc = "write", NEW N, M \subseteq N, NEW m \in Msgs, m.h2 = v.res.h2,
         m.payload.size = v.res.payload.size, m.payload.of \subseteq N,
         NEW T, T \subseteq S \cup {m}, NEW o, o = "up" => T # {}, NEW y, y = [v EXCEPT !.pc = v.back],
         NEW e, e = IF v.back = "done" THEN d + 1 ELSE d
  PROVE  Fine(f, u, y, a + 1, r, e, N, C, T, o, rt)
<1>1. /\ d = 0 /\ C = {} /\ v \in Servers /\ Own(f, u.ask, v.req) /\ u.pc \notin {"new", "write"}
      /\ u.ask.front = "irpc" /\ ~u.ask.oneway /\ a \in Nat /\ S \subseteq Msgs
      /\ (v.back = "done" => a = 0) /\ (v.back = "routed" => ByRoute(u.ask, rt))
  BY Zenon DEF Fine, Asking, Bounded, Serving, Working
<1>2. v.back \in {"done", "routed"} /\ y \in Servers  BY <1>1, Zenon DEF Servers
<1>3. /\ y.pc = v.back /\ y.req = v.req /\ y.res = v.res /\ y.args = v.args /\ y.back = v.back
      /\ y.err = v.err
  BY <1>1, Zenon DEF Servers
<1>4. T \subseteq S \cup {m} /\ (o = "up" => T # {}) /\ e \in {0, 1} /\ (v.back = "routed" => e = 0)
  BY <1>1
<1>5. a + 1 \in Nat /\ a + 1 > 0 /\ (v.back = "done" => a + 1 = 1)  BY <1>1
<1>6. PICK b : b = a + 1  BY Zenon
<1>7. Bounded(u, y, b, r, e, C, T)
  <2>1. T \subseteq Msgs  BY <1>1, <1>4, Zenon
  <2> QED  BY <1>2, <1>4, <1>5, <1>6, <2>1 DEF Bounded, Fine
<1>8. Asking(f, u, y, b, e, C, T, o)
  <2>1. y.pc # "no"  BY <1>2, <1>3, Zenon
  <2>2. /\ u.pc # "done" => u.out = "none" /\ u.got = NoPayload
        /\ \A z \in C : Own(f, u.ask, z)
    BY Zenon DEF Asking, Fine
  <2> QED  BY <1>1, <1>4, <1>5, <1>6, <2>1, <2>2, Zenon DEF Asking
<1>9. Serving(f, u.ask, y, b, e, rt)
  <2>1. CASE v.back = "done"  BY <2>1, <1>1, <1>3, <1>4, <1>5, <1>6 DEF Serving, Working
  <2>2. CASE v.back = "routed"  BY <2>2, <1>1, <1>3, <1>4, <1>5, <1>6 DEF Serving, Working
  <2> QED  BY <1>2, <2>1, <2>2, Zenon
<1>10. Real(u, y, b, r, T, rt)
  <2>1. CASE v.back = "done"
    <3>1. S = {} /\ ~Told(u) /\ u.out # "200"  BY <2>1, <1>1 DEF Fine, Real, Asking
    <3>2. Tells(v.res, v.err, r)  BY <2>1, Zenon DEF Fine, Real
    <3>3. \A z \in T : Tells(z, y.err, r)  BY <1>3, <1>4, <3>1, <3>2, Zenon DEF Tells
    <3> QED  BY <2>1, <1>3, <3>1, <3>3, Zenon DEF Real, Told
  <2>2. CASE v.back = "routed"
    <3>1. u.out # "200"  BY <1>1, Zenon DEF Fine, Real
    <3> QED  BY <2>2, <3>1, <1>1, <1>3, <1>5, <1>6, Zenon DEF Real, Special
  <2> QED  BY <1>2, <2>1, <2>2, Zenon
<1>11. Clean(u, y, N, C, T)  BY <1>3, <1>4, Zenon DEF Clean, Fine
<1> QED  BY <1>6, <1>7, <1>8, <1>9, <1>10, <1>11, Zenon DEF Fine

\* A one-way request is released without an answer, and every request once its handler returns.
LEMMA ReleaseFine ==
  ASSUME NEW f, NEW u, NEW v, NEW a, NEW r, NEW d, NEW M, NEW C, NEW S, NEW n, NEW rt,
         Fine(f, u, v, a, r, d, M, C, S, n, rt),
         \/ v.pc = "reply" /\ IsOneway(v.req.h2) /\ u.ask.front # "http"
         \/ v.pc = "routed",
         NEW y, y = [v EXCEPT !.pc = "done"]
  PROVE  Fine(f, u, y, a, r, d + 1, M, C, S, n, rt)
<1>1. /\ d = 0 /\ C = {} /\ v \in Servers /\ Own(f, u.ask, v.req) /\ u.pc \notin {"new", "write"}
      /\ u.ask.front = "irpc"
  BY Zenon DEF Fine, Asking, Bounded, Serving, Working, ByRoute
<1>2. y \in Servers  BY <1>1, Zenon DEF Servers
<1>3. /\ y.pc = "done" /\ y.req = v.req /\ y.res = v.res /\ y.args = v.args /\ y.back = v.back
      /\ y.err = v.err
  BY <1>1, Zenon DEF Servers
<1>4. Bounded(u, y, a, r, d + 1, C, S)  BY <1>1, <1>2 DEF Bounded, Fine
<1>5. Asking(f, u, y, a, d + 1, C, S, n)  BY <1>1, <1>3, Zenon DEF Asking, Fine
<1>6. v.pc = "reply" => u.ask.oneway /\ v.back = "done" /\ a = 0
  <2>1. v.back \in {"done", "routed"}  BY <1>1, Zenon DEF Servers
  <2> QED  BY <1>1, <2>1, Zenon DEF Own, Fine, Serving
<1>7. Serving(f, u.ask, y, a, d + 1, rt)  BY <1>1, <1>3, <1>6 DEF Serving, Working, Fine
<1>8. Real(u, y, a, r, S, rt)  BY <1>1, <1>3, Zenon DEF Real, Fine, Special
<1>9. Clean(u, y, M, C, S)  BY <1>3, Zenon DEF Clean, Fine
<1> QED  BY <1>4, <1>5, <1>7, <1>8, <1>9, Zenon DEF Fine

\* A handler of AddHandler gets the request.
LEMMA HandlerFine ==
  ASSUME NEW f, NEW u, NEW v, NEW a, NEW r, NEW d, NEW M, NEW C, NEW S, NEW n, NEW rt,
         Fine(f, u, v, a, r, d, M, C, S, n, rt),
         v.pc = "handle", ByRoute(u.ask, rt), NEW y, y = [v EXCEPT !.pc = "routed"]
  PROVE  Fine(f, u, y, a, r, d, M, C, S, n, rt)
<1>1. /\ d = 0 /\ a = 0 /\ S = {} /\ C = {} /\ v \in Servers /\ v.back = "done" /\ r = "no"
      /\ Own(f, u.ask, v.req) /\ u.pc \notin {"new", "write"} /\ u.ask.front \in {"irpc", "http"}
  BY DEF Fine, Asking, Bounded, Serving, Working, Real
<1>2. y \in Servers  BY <1>1, Zenon DEF Servers
<1>3. /\ y.pc = "routed" /\ y.req = v.req /\ y.res = v.res /\ y.args = v.args /\ y.back = "done"
      /\ y.err = v.err
  BY <1>1, Zenon DEF Servers
<1>4. Bounded(u, y, a, r, d, C, S)  BY <1>2, Zenon DEF Bounded, Fine
<1>5. Asking(f, u, y, a, d, C, S, n)  BY <1>1, <1>3, Zenon DEF Asking, Fine
<1>6. Serving(f, u.ask, y, a, d, rt)  BY <1>1, <1>3 DEF Serving, Working
<1>7. Real(u, y, a, r, S, rt)  BY <1>3, Zenon DEF Real, Special, Fine
<1>8. Clean(u, y, M, C, S)  BY <1>3, Zenon DEF Clean, Fine
<1> QED  BY <1>4, <1>5, <1>6, <1>7, <1>8, Zenon DEF Fine

\* Its Context prepares an answer.
LEMMA ContextWriteFine ==
  ASSUME NEW f, NEW u, NEW v, NEW a, NEW r, NEW d, NEW M, NEW C, NEW S, NEW n, NEW rt,
         Fine(f, u, v, a, r, d, M, C, S, n, rt),
         v.pc = "routed", ~IsOneway(v.req.h2), NEW w \in Msgs, w.seq = f, w.payload.of \subseteq M,
         NEW y, y = [v EXCEPT !.pc = "reply", !.back = "routed", !.res = w]
  PROVE  Fine(f, u, y, a, r, d, M, C, S, n, rt)
<1>1. /\ d = 0 /\ C = {} /\ v \in Servers /\ Own(f, u.ask, v.req) /\ u.pc \notin {"new", "write"}
      /\ ByRoute(u.ask, rt) /\ u.ask.front = "irpc"
  BY Zenon DEF Fine, Asking, Bounded, Serving, Working, ByRoute
<1>2. y \in Servers  BY <1>1, Zenon DEF Servers
<1>3. /\ y.pc = "reply" /\ y.req = v.req /\ y.res = w /\ y.args = v.args /\ y.back = "routed"
      /\ y.err = v.err
  BY <1>1, Zenon DEF Servers
<1>4. Bounded(u, y, a, r, d, C, S)  BY <1>2, Zenon DEF Bounded, Fine
<1>5. Asking(f, u, y, a, d, C, S, n)  BY <1>1, <1>3, Zenon DEF Asking, Fine
<1>6. Serving(f, u.ask, y, a, d, rt)
  <2>1. ~u.ask.oneway  BY <1>1, Zenon DEF Own
  <2> QED  BY <1>1, <1>3, <2>1 DEF Serving, Working
<1>7. Real(u, y, a, r, S, rt)  BY <1>1, <1>3, Zenon DEF Real, Special, Fine
<1>8. Clean(u, y, M, C, S)  BY <1>3, Zenon DEF Clean, Fine
<1> QED  BY <1>4, <1>5, <1>6, <1>7, <1>8, Zenon DEF Fine

\* WriteError answers at once.
LEMMA WriteErrorFine ==
  ASSUME NEW f, NEW u, NEW v, NEW a, NEW r, NEW d, NEW M, NEW C, NEW S, NEW n, NEW rt,
         Fine(f, u, v, a, r, d, M, C, S, n, rt),
         v.pc = "routed", NEW w \in Msgs, w.payload = NoPayload,
         NEW T, T \subseteq S \cup {w}, NEW o, o = "up" => T # {}
  PROVE  Fine(f, u, v, a + 1, r, d, M, C, T, o, rt)
<1>1. /\ d = 0 /\ C = {} /\ ByRoute(u.ask, rt) /\ u.ask.front = "irpc" /\ a \in Nat /\ S \subseteq Msgs
      /\ u.pc \notin {"new", "write"}
  BY Zenon DEF Fine, Asking, Bounded, Serving, Working, ByRoute
<1>2. T \subseteq S \cup {w} /\ (o = "up" => T # {})  BY Zenon
<1>3. PICK b \in Nat : b = a + 1 /\ b > 0  BY <1>1
<1>4. Bounded(u, v, b, r, d, C, T)
  <2>1. T \subseteq Msgs  BY <1>1, <1>2, Zenon
  <2> QED  BY <2>1, Zenon DEF Bounded, Fine
<1>5. Asking(f, u, v, b, d, C, T, o)  BY <1>1, <1>2, <1>3, Zenon DEF Asking, Fine
<1>6. Serving(f, u.ask, v, b, d, rt)  BY <1>1, <1>3, Zenon DEF Serving, Fine
<1>7. Real(u, v, b, r, T, rt)  BY <1>1, <1>3, Zenon DEF Real, Special, Fine
<1>8. Clean(u, v, M, C, T)  BY <1>2 DEF Clean, Fine, NoPayload
<1> QED  BY <1>3, <1>4, <1>5, <1>6, <1>7, <1>8, Zenon DEF Fine

\* A gateway ends a request that it does not pass on.
LEMMA EndedFine ==
  ASSUME NEW f, NEW u, NEW v, NEW a, NEW r, NEW d, NEW M, NEW C, NEW S, NEW n, NEW rt,
         Fine(f, u, v, a, r, d, M, C, S, n, rt),
         u.pc = "new", NEW k \in AskRecords, k.front # "irpc", NEW o \in Replies,
         NEW e, e = d \/ e = d + 1, NEW x, x = [u EXCEPT !.pc = "done", !.ask = k, !.out = o]
  PROVE  Fine(f, x, v, a, r, e, M, C, S, n, rt)
<1>1. /\ v.pc = "no" /\ S = {} /\ C = {} /\ a = 0 /\ d = 0 /\ u.got = NoPayload /\ u \in Callers
      /\ v.back = "done" /\ r = "no"
  BY Zenon DEF Fine, Asking, Bounded, Serving, Real
<1>2. x \in Callers  BY <1>1, Zenon DEF Callers, Replies
<1>3. x.pc = "done" /\ x.ask = k /\ x.req = u.req /\ x.out = o /\ x.got = NoPayload
  BY <1>1, Zenon DEF Callers
<1>4. e \in {0, 1}  BY <1>1
<1>5. Bounded(x, v, a, r, e, C, S)  BY <1>2, <1>4 DEF Bounded, Fine
<1>6. Asking(f, x, v, a, e, C, S, n)  BY <1>1, <1>3, Zenon DEF Asking
<1>7. Serving(f, x.ask, v, a, e, rt)  BY <1>1, <1>4 DEF Serving, Working
<1>8. Real(x, v, a, r, S, rt)  BY <1>1, <1>3 DEF Real, Told, Replies
<1>9. Clean(x, v, M, C, S)  BY <1>1, <1>3, Zenon DEF Clean, Fine
<1> QED  BY <1>5, <1>6, <1>7, <1>8, <1>9, Zenon DEF Fine

\* The gateway passes a request on to handleRequest.
LEMMA GatewayFine ==
  ASSUME NEW f \in Flows, NEW u, NEW v, NEW a, NEW r, NEW d, NEW M, NEW C, NEW S, NEW n, NEW rt,
         Fine(f, u, v, a, r, d, M, C, S, n, rt),
         u.pc = "new", f \in M, NEW k \in Asks[f], k.front = "http", NEW x, x = [u EXCEPT !.pc = "wait", !.ask = k],
         NEW y, y = [v EXCEPT !.pc = "handle", !.req = HTTPRequest2IrpcRequest(f, k)]
  PROVE  Fine(f, x, y, a, r, d, M, C, S, n, rt)
<1>1. /\ v.pc = "no" /\ S = {} /\ C = {} /\ a = 0 /\ d = 0 /\ u.got = NoPayload /\ u \in Callers
      /\ v.back = "done" /\ r = "no" /\ v \in Servers /\ u.out = "none"
  BY Zenon DEF Fine, Asking, Bounded, Serving, Real
<1>2. PICK m : m = HTTPRequest2IrpcRequest(f, k)  BY Zenon
<1>3. m \in Msgs /\ Own(f, k, m) /\ m.payload.of = {f}  BY <1>2, HTTPRequestFacts, Zenon
<1>4. x \in Callers  BY <1>1, AskFacts, Zenon DEF Callers
<1>5. x.pc = "wait" /\ x.ask = k /\ x.req = u.req /\ x.out = "none" /\ x.got = NoPayload
  BY <1>1, Zenon DEF Callers
<1>6. y \in Servers  BY <1>1, <1>2, <1>3, Zenon DEF Servers
<1>7. y.pc = "handle" /\ y.req = m /\ y.res = v.res /\ y.args = v.args /\ y.back = "done"
  BY <1>1, <1>2, Zenon DEF Servers
<1>8. Bounded(x, y, a, r, d, C, S)  BY <1>4, <1>6, Zenon DEF Bounded, Fine
<1>9. Asking(f, x, y, a, d, C, S, n)  BY <1>1, <1>5, <1>7, Zenon DEF Asking
<1>10. Serving(f, x.ask, y, a, d, rt)  BY <1>1, <1>3, <1>5, <1>7 DEF Serving, Working
<1>11. Real(x, y, a, r, S, rt)  BY <1>1, <1>5, <1>7, Zenon DEF Real, Told
<1>12. Clean(x, y, M, C, S)  BY <1>1, <1>3, <1>5, <1>7, Zenon DEF Clean, Fine
<1> QED  BY <1>8, <1>9, <1>10, <1>11, <1>12, Zenon DEF Fine

\* The gateway answers what it has passed on.
LEMMA GatewayAnswerFine ==
  ASSUME NEW f, NEW u, NEW v, NEW a, NEW r, NEW d, NEW M, NEW C, NEW S, NEW n, NEW rt,
         Fine(f, u, v, a, r, d, M, C, S, n, rt),
         v.pc = "reply", u.ask.front = "http", NEW y, y = [v EXCEPT !.pc = "done"], NEW p,
         p = NoPayload \/ p = v.res.payload, NEW o \in Replies, o = "200" => v.err # TRUE,
         NEW x, x = [u EXCEPT !.pc = "done", !.out = o, !.got = p]
  PROVE  Fine(f, x, y, a + 1, r, d + 1, M, C, S, n, rt)
<1>1. /\ d = 0 /\ C = {} /\ S = {} /\ u \in Callers /\ v \in Servers /\ Own(f, u.ask, v.req)
      /\ v.back # "routed" /\ (v.back = "done" => a = 0)
  BY Zenon DEF Fine, Asking, Bounded, Serving, Working, ByRoute
<1>2. v.back = "done" /\ a = 0 /\ p \in Payloads
  <2>1. v.back \in {"done", "routed"} /\ v.res \in Msgs  BY <1>1, Zenon DEF Servers
  <2> QED  BY <1>1, <2>1, NothingTyped, Zenon DEF Msgs
<1>3. x \in Callers  BY <1>1, <1>2, Zenon DEF Callers, Replies
<1>4. x.pc = "done" /\ x.ask = u.ask /\ x.req = u.req /\ x.out = o /\ x.got = p
  BY <1>1, Zenon DEF Callers
<1>5. y \in Servers  BY <1>1, Zenon DEF Servers
<1>6. y.pc = "done" /\ y.req = v.req /\ y.res = v.res /\ y.args = v.args /\ y.back = "done"
  BY <1>1, <1>2, Zenon DEF Servers
<1>7. Bounded(x, y, a + 1, r, d + 1, C, S)  BY <1>1, <1>2, <1>3, <1>5 DEF Bounded, Fine
<1>8. Asking(f, x, y, a + 1, d + 1, C, S, n)  BY <1>1, <1>4, <1>6, Zenon DEF Asking
<1>9. Serving(f, x.ask, y, a + 1, d + 1, rt)  BY <1>1, <1>2, <1>4, <1>6 DEF Serving, Working
<1>10. Real(x, y, a + 1, r, S, rt)
  <2>1. Tells(v.res, v.err, r)  BY <1>2, Zenon DEF Fine, Real
  <2>2. o = "200" => Tells(v.res, FALSE, r)  BY <2>1, Zenon DEF Tells, Done
  <2> QED  BY <2>2, <1>1, <1>2, <1>4, <1>6 DEF Real, Told, Replies
<1>11. Clean(x, y, M, C, S)
  <2>1. p.of \subseteq M  BY DEF Fine, Clean, NoPayload
  <2> QED  BY <2>1, <1>1, <1>4, <1>6, Zenon DEF Clean, Fine
<1> QED  BY <1>7, <1>8, <1>9, <1>10, <1>11, Zenon DEF Fine
-----------------------------------------------------------------------------
(* The queues *)

LEMMA OfEmpty ==
  ASSUME NEW f
  PROVE  Of(<<>>, f) = {}
  BY DEF Of

LEMMA OfTyped ==
  ASSUME NEW q \in Seq(Msgs), NEW f
  PROVE  Of(q, f) \subseteq Msgs /\ \A m \in Of(q, f) : m.seq = f
  BY DEF Of

\* A message more: of its request, and of no other.
LEMMA OfOwn ==
  ASSUME NEW q \in Seq(Msgs), NEW m \in Msgs, NEW p, p = Append(q, m)
  PROVE  Of(p, m.seq) = Of(q, m.seq) \cup {m}
<1>1. /\ DOMAIN q = 1..Len(q) /\ Len(q) \in Nat /\ DOMAIN p = 1..(Len(q) + 1)
      /\ p[Len(q) + 1] = m /\ \A i \in 1..Len(q) : p[i] = q[i]
  OBVIOUS
<1>2. Of(q, m.seq) \subseteq Of(p, m.seq)  BY <1>1 DEF Of
<1>3. Of(p, m.seq) \subseteq Of(q, m.seq) \cup {m}
  <2> SUFFICES ASSUME NEW w \in Of(p, m.seq), w # m  PROVE w \in Of(q, m.seq)
    BY Zenon
  <2>1. PICK i \in DOMAIN p : p[i].seq = m.seq /\ w = p[i]  BY Zenon DEF Of
  <2>2. i \in 1..Len(q)  BY <1>1, <2>1
  <2> QED  BY <1>1, <2>1, <2>2, Zenon DEF Of
<1>4. m \in Of(p, m.seq)
  <2>1. Len(q) + 1 \in DOMAIN p  BY <1>1
  <2> QED  BY <1>1, <2>1, Zenon DEF Of
<1> QED  BY <1>2, <1>3, <1>4, Zenon

LEMMA OfOther ==
  ASSUME NEW q \in Seq(Msgs), NEW m \in Msgs, NEW p, p = Append(q, m), NEW g, m.seq # g
  PROVE  Of(p, g) = Of(q, g)
<1>1. /\ DOMAIN q = 1..Len(q) /\ Len(q) \in Nat /\ DOMAIN p = 1..(Len(q) + 1)
      /\ p[Len(q) + 1] = m /\ \A i \in 1..Len(q) : p[i] = q[i]
  OBVIOUS
<1>2. Of(q, g) \subseteq Of(p, g)  BY <1>1 DEF Of
<1>3. ASSUME NEW w \in Of(p, g)  PROVE w \in Of(q, g)
  <2>1. PICK i \in DOMAIN p : p[i].seq = g /\ w = p[i]  BY Zenon DEF Of
  <2>2. i \in 1..Len(q)  BY <1>1, <2>1
  <2> QED  BY <1>1, <2>1, <2>2, Zenon DEF Of
<1> QED  BY <1>2, <1>3, Zenon

\* A message less: the first one.
LEMMA OfTail ==
  ASSUME NEW q \in Seq(Msgs), q # <<>>, NEW p, p = Tail(q), NEW f
  PROVE  /\ Head(q) \in Msgs
         /\ Head(q).seq = f => Head(q) \in Of(q, f)
         /\ Of(p, f) \subseteq Of(q, f)
         /\ Head(q).seq # f => Of(p, f) = Of(q, f)
<1>1. /\ DOMAIN q = 1..Len(q) /\ Len(q) \in Nat /\ Len(q) > 0 /\ DOMAIN p = 1..(Len(q) - 1)
      /\ Head(q) = q[1] /\ \A i \in 1..(Len(q) - 1) : p[i] = q[i + 1]
  OBVIOUS
<1>2. 1 \in DOMAIN q /\ q[1] \in Msgs  BY <1>1
<1>3. Of(p, f) \subseteq Of(q, f)
  <2> SUFFICES ASSUME NEW w \in Of(p, f)  PROVE w \in Of(q, f)
    BY Zenon
  <2>1. PICK i \in DOMAIN p : p[i].seq = f /\ w = p[i]  BY Zenon DEF Of
  <2>2. i + 1 \in DOMAIN q /\ q[i + 1] = p[i]  BY <1>1
  <2> QED  BY <2>1, <2>2, Zenon DEF Of
<1>4. ASSUME NEW w \in Of(q, f), Head(q).seq # f  PROVE w \in Of(p, f)
  <2>1. PICK i \in DOMAIN q : q[i].seq = f /\ w = q[i]  BY Zenon DEF Of
  <2>2. i - 1 \in DOMAIN p /\ p[i - 1] = q[i]  BY <1>1, <2>1, <1>4
  <2> QED  BY <2>1, <2>2, Zenon DEF Of
<1> QED  BY <1>1, <1>2, <1>3, <1>4, ZenonT(30) DEF Of

\* Each request is sent once: nothing else of it follows.
LEMMA OfTailOnce ==
  ASSUME NEW q \in Seq(Msgs), q # <<>>, NEW p, p = Tail(q), NEW f, Head(q).seq = f,
         Distinct(q)
  PROVE  Of(p, f) = {}
<1>1. /\ DOMAIN q = 1..Len(q) /\ Len(q) \in Nat /\ Len(q) > 0 /\ DOMAIN p = 1..(Len(q) - 1)
      /\ Head(q) = q[1] /\ \A i \in 1..(Len(q) - 1) : p[i] = q[i + 1]
  OBVIOUS
<1> SUFFICES ASSUME NEW w \in Of(p, f)  PROVE FALSE
  BY Zenon
<1>2. PICK i \in DOMAIN p : p[i].seq = f /\ w = p[i]  BY Zenon DEF Of
<1>3. i + 1 \in DOMAIN q /\ q[i + 1] = p[i] /\ i + 1 # 1 /\ 1 \in DOMAIN q  BY <1>1, <1>2
<1> QED  BY <1>1, <1>2, <1>3, Zenon DEF Distinct

LEMMA DistinctAppend ==
  ASSUME NEW q \in Seq(Msgs), NEW m \in Msgs, NEW p, p = Append(q, m), Distinct(q),
         Of(q, m.seq) = {}
  PROVE  Distinct(p)
<1>1. /\ DOMAIN q = 1..Len(q) /\ Len(q) \in Nat /\ DOMAIN p = 1..(Len(q) + 1)
      /\ p[Len(q) + 1] = m /\ \A i \in 1..Len(q) : p[i] = q[i]
  OBVIOUS
<1>2. \A i \in 1..Len(q) : q[i].seq # m.seq  BY <1>1, Zenon DEF Of
<1> SUFFICES ASSUME NEW i \in DOMAIN p, NEW j \in DOMAIN p, p[i].seq = p[j].seq  PROVE i = j
  BY Zenon DEF Distinct
<1>3. CASE i \in 1..Len(q) /\ j \in 1..Len(q)  BY <1>1, <1>3, Zenon DEF Distinct
<1>4. CASE i \in 1..Len(q) /\ j = Len(q) + 1  BY <1>1, <1>2, <1>4, Zenon
<1>5. CASE i = Len(q) + 1 /\ j \in 1..Len(q)  BY <1>1, <1>2, <1>5, Zenon
<1>6. CASE i = Len(q) + 1 /\ j = Len(q) + 1  BY <1>6, Zenon
<1> QED  BY <1>1, <1>3, <1>4, <1>5, <1>6

LEMMA DistinctTail ==
  ASSUME NEW q \in Seq(Msgs), q # <<>>, NEW p, p = Tail(q), Distinct(q)
  PROVE  Distinct(p)
<1>1. /\ DOMAIN q = 1..Len(q) /\ Len(q) \in Nat /\ Len(q) > 0 /\ DOMAIN p = 1..(Len(q) - 1)
      /\ \A i \in 1..(Len(q) - 1) : p[i] = q[i + 1]
  OBVIOUS
<1> SUFFICES ASSUME NEW i \in DOMAIN p, NEW j \in DOMAIN p, p[i].seq = p[j].seq  PROVE i = j
  BY Zenon DEF Distinct
<1>2. i + 1 \in DOMAIN q /\ j + 1 \in DOMAIN q /\ q[i + 1].seq = q[j + 1].seq  BY <1>1
<1>3. i + 1 = j + 1  BY <1>2, Zenon DEF Distinct
<1> QED  BY <1>1, <1>3

LEMMA AddressedAppend ==
  ASSUME NEW q \in Seq(Msgs), NEW m \in Msgs, NEW p, p = Append(q, m), Addressed(q), m.seq \in Flows
  PROVE  Addressed(p)
<1>1. /\ DOMAIN q = 1..Len(q) /\ Len(q) \in Nat /\ DOMAIN p = 1..(Len(q) + 1)
      /\ p[Len(q) + 1] = m /\ \A i \in 1..Len(q) : p[i] = q[i]
  OBVIOUS
<1> SUFFICES ASSUME NEW i \in DOMAIN p  PROVE p[i].seq \in Flows
  BY Zenon DEF Addressed
<1> QED  BY <1>1 DEF Addressed

LEMMA AddressedTail ==
  ASSUME NEW q \in Seq(Msgs), q # <<>>, NEW p, p = Tail(q), Addressed(q)
  PROVE  Addressed(p) /\ Head(q).seq \in Flows
<1>1. /\ DOMAIN q = 1..Len(q) /\ Len(q) \in Nat /\ Len(q) > 0 /\ DOMAIN p = 1..(Len(q) - 1)
      /\ Head(q) = q[1] /\ \A i \in 1..(Len(q) - 1) : p[i] = q[i + 1]
  OBVIOUS
<1>2. ASSUME NEW i \in DOMAIN p  PROVE p[i].seq \in Flows
  <2>1. i + 1 \in DOMAIN q /\ q[i + 1] = p[i]  BY <1>1
  <2> QED  BY <2>1, Zenon DEF Addressed
<1>3. 1 \in DOMAIN q  BY <1>1
<1> QED  BY <1>1, <1>2, <1>3, Zenon DEF Addressed
-----------------------------------------------------------------------------
(* Steps *)

\* A step of one request.
Touches(f) ==
  /\ cl' = [cl EXCEPT ![f] = cl'[f]] /\ sv' = [sv EXCEPT ![f] = sv'[f]]
  /\ answers' = [answers EXCEPT ![f] = answers'[f]] /\ ran' = [ran EXCEPT ![f] = ran'[f]]
  /\ freed' = [freed EXCEPT ![f] = freed'[f]]
  /\ torn' \in {torn, torn \cup {f}}
  /\ \A g \in Flows \ {f} : Of(c2s', g) = Of(c2s, g) /\ Of(s2c', g) = Of(s2c, g)
  /\ lost' \in {lost, lost \cup {f}} /\ conn' = conn /\ router' = router /\ pool' = pool

\* After it, it is fine.
Ends(f) ==
  Fine(f, cl'[f], sv'[f], answers'[f], ran'[f], freed'[f], Mix(f, torn', pool'),
       Of(c2s', f), Of(s2c', f), Line(f, conn', lost'), router')

LEMMA TouchStep ==
  ASSUME Types, AllFine, NEW f \in Flows, Touches(f), Ends(f)
  PROVE  Types' /\ AllFine'
<1>1. /\ cl'[f] \in Callers /\ sv'[f] \in Servers /\ answers'[f] \in Nat /\ freed'[f] \in Nat
      /\ ran'[f] \in Runs
  BY Zenon DEF Ends, Fine, Bounded
<1>2. Types'  BY <1>1, Zenon DEF Types, Touches
<1>3. ASSUME NEW g \in Flows
      PROVE  Fine(g, cl'[g], sv'[g], answers'[g], ran'[g], freed'[g], Mix(g, torn', pool'),
                  Of(c2s', g), Of(s2c', g), Line(g, conn', lost'), router')
  <2>1. CASE g = f  BY <2>1, Zenon DEF Ends
  <2>2. CASE g # f
    <3>1. /\ cl'[g] = cl[g] /\ sv'[g] = sv[g] /\ answers'[g] = answers[g] /\ ran'[g] = ran[g]
          /\ freed'[g] = freed[g]
      BY <2>2, Zenon DEF Touches, Types
    <3>2. Mix(g, torn', pool') = Mix(g, torn, pool)  BY <2>2, Zenon DEF Touches, Mix
    <3>3. Of(c2s', g) = Of(c2s, g) /\ Of(s2c', g) = Of(s2c, g) /\ router' = router
      BY <2>2, Zenon DEF Touches
    <3>5. Line(g, conn', lost') = Line(g, conn, lost)  BY <2>2, Zenon DEF Touches, Line
    <3>4. Fine(g, cl[g], sv[g], answers[g], ran[g], freed[g], Mix(g, torn, pool),
               Of(c2s, g), Of(s2c, g), Line(g, conn, lost), router)
      BY Zenon DEF AllFine
    <3> QED  BY <3>1, <3>2, <3>3, <3>4, <3>5, Zenon
  <2> QED  BY <2>1, <2>2, Zenon
<1> QED  BY <1>2, <1>3, Zenon DEF AllFine

\* What is known of a request before its step.
LEMMA Before ==
  ASSUME RequestsInv, NEW f \in Flows
  PROVE  /\ Fine(f, cl[f], sv[f], answers[f], ran[f], freed[f], Mix(f, torn, pool),
                 Of(c2s, f), Of(s2c, f), Line(f, conn, lost), router)
         /\ cl[f] \in Callers /\ sv[f] \in Servers /\ answers[f] \in Nat /\ freed[f] \in Nat
         /\ ran[f] \in Runs
         /\ f \in Mix(f, torn, pool)
  BY Zenon DEF RequestsInv, Types, AllFine, Mix

\* A step that leaves the connection and the pools alone.
LEMMA QuietStep ==
  ASSUME RequestsInv, NEW f \in Flows,
         UNCHANGED <<c2s, s2c, torn, conn, lost, router, pool, argPool, replyPool>>,
         cl' = [cl EXCEPT ![f] = cl'[f]], sv' = [sv EXCEPT ![f] = sv'[f]],
         answers' = [answers EXCEPT ![f] = answers'[f]], ran' = [ran EXCEPT ![f] = ran'[f]],
         freed' = [freed EXCEPT ![f] = freed'[f]],
         Fine(f, cl'[f], sv'[f], answers'[f], ran'[f], freed'[f], Mix(f, torn, pool),
              Of(c2s, f), Of(s2c, f), Line(f, conn, lost), router)
  PROVE  RequestsInv'
<1>1. Touches(f) /\ Ends(f)  BY Zenon DEF Touches, Ends
<1>2. Types' /\ AllFine'  BY <1>1, TouchStep, Zenon DEF RequestsInv
<1>3. Queues' /\ PoolsClean'  BY Zenon DEF RequestsInv, Queues, PoolsClean
<1> QED  BY <1>2, <1>3, Zenon DEF RequestsInv

\* Functions that a step leaves alone, and the result of one that it does not.
LEMMA Same ==
  ASSUME Types, NEW f \in Flows
  PROVE  /\ UNCHANGED cl => cl' = [cl EXCEPT ![f] = cl'[f]] /\ cl'[f] = cl[f]
         /\ UNCHANGED sv => sv' = [sv EXCEPT ![f] = sv'[f]] /\ sv'[f] = sv[f]
         /\ UNCHANGED answers => answers' = [answers EXCEPT ![f] = answers'[f]] /\ answers'[f] = answers[f]
         /\ UNCHANGED ran => ran' = [ran EXCEPT ![f] = ran'[f]] /\ ran'[f] = ran[f]
         /\ UNCHANGED freed => freed' = [freed EXCEPT ![f] = freed'[f]] /\ freed'[f] = freed[f]
         /\ Free(f) => freed' = [freed EXCEPT ![f] = freed'[f]] /\ freed'[f] = freed[f] + 1
         /\ answers' = [answers EXCEPT ![f] = @ + 1] =>
              answers' = [answers EXCEPT ![f] = answers'[f]] /\ answers'[f] = answers[f] + 1
  BY Zenon DEF Types, Free

LEMMA SendStep ==
  ASSUME RequestsInv, NEW f \in Flows, NEW k \in Asks[f], Send(f, k)
  PROVE  RequestsInv'
<1>1. PICK x : x = [cl[f] EXCEPT !.pc = "write", !.ask = k, !.req = NewRequest(f, k)]  BY Zenon
<1>2. cl' = [cl EXCEPT ![f] = x] /\ cl'[f] = x  BY <1>1, Zenon DEF Send, RequestsInv, Types
<1>3. Fine(f, x, sv[f], answers[f], ran[f], freed[f], Mix(f, torn, pool),
           Of(c2s, f), Of(s2c, f), Line(f, conn, lost), router)
  <2>1. cl[f].pc = "new" /\ k.front = "irpc"  BY Zenon DEF Send
  <2> QED  BY <1>1, <2>1, Before, SendFine, Zenon
<1>4. UNCHANGED <<sv, answers, ran, freed, c2s, s2c, torn, conn, lost, router, pool, argPool, replyPool>>
  BY Zenon DEF Send, setupVars, poolVars, histVars
<1> QED  BY <1>2, <1>3, <1>4, Same, QuietStep, Zenon DEF RequestsInv

\* The request that the server has is the caller's.
LEMMA Requested ==
  ASSUME RequestsInv, NEW f \in Flows, sv[f].pc # "no"
  PROVE  /\ sv[f].req \in Msgs /\ sv[f].req.seq = f /\ MessageStatusType(sv[f].req.h2) = Normal
         /\ sv[f].req.payload.of \subseteq Mix(f, torn, pool)
         /\ IsOneway(sv[f].req.h2) <=> cl[f].ask.oneway
         /\ Routed(f) <=> ByRoute(cl[f].ask, router)
         /\ cl[f].ask.front \in {"irpc", "http"}
<1>1. Own(f, cl[f].ask, sv[f].req) /\ cl[f].ask.front \in {"irpc", "http"}
  BY Before, Zenon DEF Fine, Serving
<1>2. sv[f].req \in Msgs  BY Before, Zenon DEF Servers
<1>3. sv[f].req.payload.of \subseteq Mix(f, torn, pool)  BY Before, Zenon DEF Fine, Clean
<1> QED  BY <1>1, <1>2, <1>3, Zenon DEF Own, Routed, FromGateway, ByRoute

\* The response to a request that the server has read.
LEMMA Responding ==
  ASSUME RequestsInv, NEW f \in Flows, sv[f].pc # "no", NEW w, w = ResponseTo(sv[f].req)
  PROVE  w \in Msgs /\ w.seq = f /\ w.payload = NoPayload /\ MessageStatusType(w.h2) = Normal
<1>1. PICK m : m = sv[f].req  BY Zenon
<1>2. m \in Msgs /\ m.seq = f /\ MessageStatusType(m.h2) = Normal  BY <1>1, Requested, Zenon
<1>3. w = ResponseTo(m)  BY <1>1, Zenon
<1>4. /\ w \in Msgs /\ w.seq = m.seq /\ w.payload = NoPayload
      /\ MessageStatusType(w.h2) = MessageStatusType(m.h2)
  BY ONLY <1>2, <1>3, ResponseFacts, Zenon
<1> QED  BY <1>2, <1>4, Zenon

\* The same with the error status.
LEMMA Refusing ==
  ASSUME RequestsInv, NEW f \in Flows, sv[f].pc # "no", NEW w, w = HandleError(ResponseTo(sv[f].req))
  PROVE  w \in Msgs /\ w.seq = f /\ w.payload = NoPayload /\ MessageStatusType(w.h2) = Error
<1>1. PICK m : m = sv[f].req  BY Zenon
<1>2. m \in Msgs /\ m.seq = f  BY <1>1, Requested, Zenon
<1>3. w = HandleError(ResponseTo(m))  BY <1>1, Zenon
<1>4. w \in Msgs /\ w.seq = m.seq /\ w.payload = NoPayload /\ MessageStatusType(w.h2) = Error
  BY ONLY <1>2, <1>3, ErrorFacts, Zenon
<1> QED  BY <1>2, <1>4, Zenon

\* A response, with or without the error status, has no data.
LEMMA Empty ==
  ASSUME NEW w, w.payload = NoPayload, NEW M
  PROVE  w.payload.of \subseteq M /\ w.payload.size = 0
  BY DEF NoPayload

LEMMA NotFoundStep ==
  ASSUME RequestsInv, NEW f \in Flows, NotFound(f)
  PROVE  RequestsInv'
<1>1. PICK w : w = HandleError(ResponseTo(sv[f].req))  BY Zenon
<1>2. PICK e \in BOOLEAN : Handled(f, w, e)
  BY <1>1, Zenon DEF NotFound
<1>3. PICK y : y = [sv[f] EXCEPT !.pc = "reply", !.res = w, !.err = e]  BY Zenon
<1>4. sv' = [sv EXCEPT ![f] = y] /\ sv'[f] = y  BY <1>2, <1>3, Zenon DEF Handled, RequestsInv, Types
<1>5. sv[f].pc = "handle"  BY Zenon DEF NotFound
<1>6. w \in Msgs /\ w.seq = f /\ w.payload = NoPayload /\ MessageStatusType(w.h2) = Error
  BY <1>1, <1>5, Refusing, Zenon
<1>7. w.payload.of \subseteq Mix(f, torn, pool) /\ Tells(w, e, "no") /\ ran[f] = "no"
  <2>1. ran[f] = "no"  BY <1>5, Before, Zenon DEF Fine, Real
  <2>2. Tells(w, e, "no")  BY <1>6, Zenon DEF Tells
  <2> QED  BY <2>1, <2>2, <1>6, Empty, Zenon
<1>8. Fine(f, cl[f], y, answers[f], ran[f], freed[f], Mix(f, torn, pool),
           Of(c2s, f), Of(s2c, f), Line(f, conn, lost), router)
  <2>1. sv[f].pc \in Early  BY <1>5, Zenon DEF Early
  <2>2. Fine(f, cl[f], sv[f], answers[f], ran[f], freed[f], Mix(f, torn, pool),
             Of(c2s, f), Of(s2c, f), Line(f, conn, lost), router)
    BY Before, Zenon
  <2>3. Result(f, w, e, ran[f], Mix(f, torn, pool)) /\ e \in BOOLEAN
    BY <1>2, <1>6, <1>7, Zenon DEF Result, Runs
  <2> QED  BY <1>3, <2>1, <2>2, <2>3, HandledFine, Zenon
<1>9. UNCHANGED <<cl, answers, ran, freed, c2s, s2c, torn, conn, lost, router, pool, argPool, replyPool>>
  BY Zenon DEF NotFound, setupVars, poolVars, histVars, wireVars
<1> QED  BY <1>4, <1>8, <1>9, Same, QuietStep, Zenon DEF RequestsInv

LEMMA NoResponseStep ==
  ASSUME RequestsInv, NEW f \in Flows, NoResponse(f) \/ HandlerReturns(f)
  PROVE  RequestsInv'
<1>1. PICK y : y = [sv[f] EXCEPT !.pc = "done"]  BY Zenon
<1>2. sv' = [sv EXCEPT ![f] = y] /\ sv'[f] = y
  BY <1>1, Zenon DEF NoResponse, HandlerReturns, RequestsInv, Types
<1>3. \/ sv[f].pc = "reply" /\ IsOneway(sv[f].req.h2) /\ cl[f].ask.front # "http"
      \/ sv[f].pc = "routed"
  BY Zenon DEF NoResponse, HandlerReturns, FromGateway
<1>4. Fine(f, cl[f], y, answers[f], ran[f], freed[f] + 1, Mix(f, torn, pool),
           Of(c2s, f), Of(s2c, f), Line(f, conn, lost), router)
  BY <1>1, <1>3, Before, ReleaseFine, Zenon
<1>5. /\ UNCHANGED <<cl, answers, ran, c2s, s2c, torn, conn, lost, router, pool, argPool, replyPool>>
      /\ Free(f)
  BY Zenon DEF NoResponse, HandlerReturns, setupVars, poolVars, wireVars
<1> QED  BY <1>2, <1>4, <1>5, Same, QuietStep, Zenon DEF RequestsInv

LEMMA HandlerStep ==
  ASSUME RequestsInv, NEW f \in Flows, Handler(f)
  PROVE  RequestsInv'
<1>1. PICK y : y = [sv[f] EXCEPT !.pc = "routed"]  BY Zenon
<1>2. sv' = [sv EXCEPT ![f] = y] /\ sv'[f] = y  BY <1>1, Zenon DEF Handler, RequestsInv, Types
<1>3. sv[f].pc = "handle" /\ ByRoute(cl[f].ask, router)  BY Requested, Zenon DEF Handler
<1>4. Fine(f, cl[f], y, answers[f], ran[f], freed[f], Mix(f, torn, pool),
           Of(c2s, f), Of(s2c, f), Line(f, conn, lost), router)
  BY <1>1, <1>3, Before, HandlerFine, Zenon
<1>5. UNCHANGED <<cl, answers, ran, freed, c2s, s2c, torn, conn, lost, router, pool, argPool, replyPool>>
  BY Zenon DEF Handler, setupVars, poolVars, histVars, wireVars
<1> QED  BY <1>2, <1>4, <1>5, Same, QuietStep, Zenon DEF RequestsInv

LEMMA ContextWriteStep ==
  ASSUME RequestsInv, NEW f \in Flows, ContextWrite(f)
  PROVE  RequestsInv'
<1>1. sv[f].pc = "routed" /\ ~IsOneway(sv[f].req.h2)  BY Zenon DEF ContextWrite, MayAnswer
<1>2. PICK p \in {NoPayload, Payload(cl[f].ask.size, sv[f].req.payload.of)} :
        sv' = [sv EXCEPT ![f].pc = "reply", ![f].back = "routed",
                         ![f].res = [ResponseTo(sv[f].req) EXCEPT !.payload = p]]
  BY Zenon DEF ContextWrite
<1>3. p \in Payloads /\ p.of \subseteq Mix(f, torn, pool)
  <2>1. cl[f].ask.size \in Nat  
    <3>1. cl[f].ask \in AskRecords \cup {NoAsk}  BY Before, Zenon DEF Callers
    <3>2. \A k \in AskRecords : k.size \in Nat  BY Zenon DEF AskRecords
    <3>3. NoAsk.size = 0  BY Zenon DEF NoAsk
    <3> QED  BY <3>1, <3>2, <3>3
  <2>2. sv[f].req.payload.of \in Data /\ sv[f].req.payload.of \subseteq Mix(f, torn, pool)
    BY <1>1, Requested, Zenon DEF Msgs, Payloads
  <2> QED  BY <2>1, <2>2, NothingTyped DEF Payload, Payloads, NoPayload
<1>4. PICK z : z = ResponseTo(sv[f].req)  BY Zenon
<1>5. z \in Msgs /\ z.seq = f  BY <1>1, <1>4, Responding, Zenon
<1>6. PICK w : w = [z EXCEPT !.payload = p]  BY Zenon
<1>7. w \in Msgs /\ w.seq = f /\ w.payload = p  BY <1>3, <1>5, <1>6, FullFacts
<1>8. PICK y : y = [sv[f] EXCEPT !.pc = "reply", !.back = "routed", !.res = w]  BY Zenon
<1>9. sv' = [sv EXCEPT ![f] = y] /\ sv'[f] = y
  BY <1>2, <1>4, <1>6, <1>8, Zenon DEF RequestsInv, Types
<1>10. Fine(f, cl[f], y, answers[f], ran[f], freed[f], Mix(f, torn, pool),
            Of(c2s, f), Of(s2c, f), Line(f, conn, lost), router)
  <2>1. PICK M, n : M = Mix(f, torn, pool) /\ n = Line(f, conn, lost)  BY Zenon
  <2>2. w \in Msgs /\ w.seq = f /\ w.payload.of \subseteq M  BY <1>3, <1>7, <2>1, Zenon
  <2>3. Fine(f, cl[f], sv[f], answers[f], ran[f], freed[f], M, Of(c2s, f), Of(s2c, f), n, router)
    BY <2>1, Before, Zenon
  <2>4. Fine(f, cl[f], y, answers[f], ran[f], freed[f], M, Of(c2s, f), Of(s2c, f), n, router)
    BY ONLY <1>1, <1>8, <2>2, <2>3, ContextWriteFine, Zenon
  <2> QED  BY <2>1, <2>4, Zenon
<1>11. UNCHANGED <<cl, answers, ran, freed, c2s, s2c, torn, conn, lost, router, pool, argPool, replyPool>>
  BY Zenon DEF ContextWrite, setupVars, poolVars, histVars, wireVars
<1> QED  BY <1>9, <1>10, <1>11, Same, QuietStep, Zenon DEF RequestsInv

LEMMA SendResponseStep ==
  ASSUME RequestsInv, NEW f \in Flows, sendResponse(f)
  PROVE  RequestsInv'
<1>1. sv[f].pc = "reply" /\ cl[f].ask.front # "http" /\ ~IsOneway(sv[f].req.h2)
  BY Zenon DEF sendResponse, FromGateway
<1>2. sv[f].req \in Msgs /\ sv[f].res \in Msgs  BY Before, Zenon DEF Servers
<1>3. PICK z : z = [sv[f].res EXCEPT !.h2 = SetCompressType(@, CompressType(sv[f].req.h2))]  BY Zenon
<1>4. /\ z \in Msgs /\ z.seq = sv[f].res.seq /\ z.payload = sv[f].res.payload
      /\ MessageStatusType(z.h2) = MessageStatusType(sv[f].res.h2)
  BY <1>2, <1>3, ZippedFacts, ZenonT(30)
<1>5. PICK w \in {z, sv[f].res} : sv' = [sv EXCEPT ![f].pc = "write", ![f].res = w]
  BY <1>3, Zenon DEF sendResponse
<1>6. /\ w \in Msgs /\ w.seq = sv[f].res.seq /\ w.payload = sv[f].res.payload
      /\ MessageStatusType(w.h2) = MessageStatusType(sv[f].res.h2)
  BY <1>2, <1>4, Zenon
<1>7. PICK y : y = [sv[f] EXCEPT !.pc = "write", !.res = w]  BY Zenon
<1>8. sv' = [sv EXCEPT ![f] = y] /\ sv'[f] = y  BY <1>5, <1>7, Zenon DEF RequestsInv, Types
<1>9. Fine(f, cl[f], y, answers[f], ran[f], freed[f], Mix(f, torn, pool),
           Of(c2s, f), Of(s2c, f), Line(f, conn, lost), router)
  BY <1>1, <1>6, <1>7, Before, SendResponseFine, Zenon
<1>10. UNCHANGED <<cl, answers, ran, freed, c2s, s2c, torn, conn, lost, router, pool, argPool, replyPool>>
  BY Zenon DEF sendResponse, setupVars, poolVars, histVars
<1> QED  BY <1>8, <1>9, <1>10, Same, QuietStep, Zenon DEF RequestsInv

LEMMA EndedStep ==
  ASSUME RequestsInv, NEW f \in Flows, NEW k \in Asks[f], cl[f].pc = "new",
         k.front # "irpc", NEW o \in Replies, Ended(f, k, o), Free(f) \/ UNCHANGED freed,
         UNCHANGED <<sv, answers, ran, c2s, s2c, torn, conn, lost, router, pool, argPool, replyPool>>
  PROVE  RequestsInv'
<1>1. PICK x : x = [cl[f] EXCEPT !.pc = "done", !.ask = k, !.out = o]  BY Zenon
<1>2. cl' = [cl EXCEPT ![f] = x] /\ cl'[f] = x  BY <1>1, Zenon DEF Ended, RequestsInv, Types
<1>3. (freed'[f] = freed[f] \/ freed'[f] = freed[f] + 1) /\ freed' = [freed EXCEPT ![f] = freed'[f]]
  BY Same, Zenon DEF RequestsInv
<1>4. Fine(f, x, sv[f], answers[f], ran[f], freed'[f], Mix(f, torn, pool),
           Of(c2s, f), Of(s2c, f), Line(f, conn, lost), router)
  <2>1. Fine(f, cl[f], sv[f], answers[f], ran[f], freed[f], Mix(f, torn, pool),
                Of(c2s, f), Of(s2c, f), Line(f, conn, lost), router)
    BY Before, Zenon
  <2>2. k \in AskRecords  BY AskFacts, Zenon
  <2>3. PICK e : e = freed'[f]  BY Zenon
  <2>4. e = freed[f] \/ e = freed[f] + 1  BY <1>3, <2>3, Zenon
  <2>5. Fine(f, x, sv[f], answers[f], ran[f], e, Mix(f, torn, pool),
             Of(c2s, f), Of(s2c, f), Line(f, conn, lost), router)
    BY ONLY cl[f].pc = "new", k.front # "irpc", o \in Replies, <1>1, <2>1, <2>2, <2>4, EndedFine, Zenon
  <2> QED  BY <2>3, <2>5, Zenon
<1> QED  BY <1>2, <1>3, <1>4, Same, QuietStep, Zenon DEF RequestsInv

LEMMA GatewayRequestStep ==
  ASSUME RequestsInv, NEW f \in Flows, NEW k \in Asks[f], GatewayRequest(f, k)
  PROVE  RequestsInv'
<1>0. UNCHANGED <<answers, ran, c2s, s2c, torn, conn, lost, router, pool, argPool, replyPool>>
  BY Zenon DEF GatewayRequest, setupVars, poolVars, wireVars
<1>1. cl[f].pc = "new" /\ k.front = "http"  BY Zenon DEF GatewayRequest
<1>2. ASSUME NEW o \in {"500", "401", "error"}, Ended(f, k, o), Free(f) \/ UNCHANGED freed, UNCHANGED sv
      PROVE  RequestsInv'
  BY <1>0, <1>1, <1>2, EndedStep, Zenon DEF Replies
<1>3. CASE /\ cl' = [cl EXCEPT ![f].pc = "wait", ![f].ask = k]
           /\ sv' = [sv EXCEPT ![f].pc = "handle", ![f].req = HTTPRequest2IrpcRequest(f, k)]
           /\ UNCHANGED freed
  <2>1. PICK x : x = [cl[f] EXCEPT !.pc = "wait", !.ask = k]  BY Zenon
  <2>2. PICK y : y = [sv[f] EXCEPT !.pc = "handle", !.req = HTTPRequest2IrpcRequest(f, k)]  BY Zenon
  <2>3. cl' = [cl EXCEPT ![f] = x] /\ cl'[f] = x  BY <1>3, <2>1, Zenon DEF RequestsInv, Types
  <2>4. sv' = [sv EXCEPT ![f] = y] /\ sv'[f] = y  BY <1>3, <2>2, Zenon DEF RequestsInv, Types
  <2>5. Fine(f, x, y, answers[f], ran[f], freed[f], Mix(f, torn, pool),
             Of(c2s, f), Of(s2c, f), Line(f, conn, lost), router)
    <3>1. Fine(f, cl[f], sv[f], answers[f], ran[f], freed[f], Mix(f, torn, pool),
                Of(c2s, f), Of(s2c, f), Line(f, conn, lost), router)
      BY Before, Zenon
    <3>2. f \in Mix(f, torn, pool)  BY Before, Zenon
    <3> QED  BY <1>1, <2>1, <2>2, <3>1, <3>2, GatewayFine, Zenon
  <2> QED  BY <1>0, <1>3, <2>3, <2>4, <2>5, Same, QuietStep, Zenon DEF RequestsInv
<1> QED  BY <1>2, <1>3, Zenon DEF GatewayRequest

LEMMA JSONRPCStep ==
  ASSUME RequestsInv, NEW f \in Flows, NEW k \in Asks[f], JSONRPC(f, k)
  PROVE  RequestsInv'
<1>1. UNCHANGED <<sv, answers, ran, freed, c2s, s2c, torn, conn, lost, router, pool, argPool, replyPool>>
  BY Zenon DEF JSONRPC, setupVars, poolVars, wireVars, histVars
<1>2. cl[f].pc = "new" /\ k.front = "json" /\ \E o \in {"error", "conn", "200"} : Ended(f, k, o)
  BY Zenon DEF JSONRPC
<1> QED  BY <1>1, <1>2, EndedStep, Zenon DEF Replies

LEMMA GatewayAnswerStep ==
  ASSUME RequestsInv, NEW f \in Flows, GatewayAnswer(f)
  PROVE  RequestsInv'
<1>1. sv[f].pc = "reply" /\ cl[f].ask.front = "http"  BY Zenon DEF GatewayAnswer, FromGateway
<1>2. PICK o \in Replies : o = IF sv[f].err THEN "500" ELSE "200"  BY Zenon DEF Replies
<1>3. PICK p : p = IF sv[f].err THEN NoPayload ELSE sv[f].res.payload  BY Zenon
<1>4. PICK x : x = [cl[f] EXCEPT !.pc = "done", !.out = o, !.got = p]  BY Zenon
<1>5. PICK y : y = [sv[f] EXCEPT !.pc = "done"]  BY Zenon
<1>6. cl' = [cl EXCEPT ![f] = x] /\ cl'[f] = x
  BY <1>2, <1>3, <1>4, Zenon DEF GatewayAnswer, RequestsInv, Types
<1>7. sv' = [sv EXCEPT ![f] = y] /\ sv'[f] = y  BY <1>5, Zenon DEF GatewayAnswer, RequestsInv, Types
<1>8. Fine(f, x, y, answers[f] + 1, ran[f], freed[f] + 1, Mix(f, torn, pool),
           Of(c2s, f), Of(s2c, f), Line(f, conn, lost), router)
  <2>1. Fine(f, cl[f], sv[f], answers[f], ran[f], freed[f], Mix(f, torn, pool),
                Of(c2s, f), Of(s2c, f), Line(f, conn, lost), router)
    BY Before, Zenon
  <2>2. (p = NoPayload \/ p = sv[f].res.payload) /\ (o = "200" => sv[f].err # TRUE)  BY <1>2, <1>3, Zenon
  <2> QED  BY <1>1, <1>2, <1>4, <1>5, <2>1, <2>2, GatewayAnswerFine, Zenon
<1>9. /\ UNCHANGED <<ran, c2s, s2c, torn, conn, lost, router, pool, argPool, replyPool>>
      /\ Free(f) /\ answers' = [answers EXCEPT ![f] = @ + 1]
  BY Zenon DEF GatewayAnswer, setupVars, poolVars, wireVars
<1> QED  BY <1>6, <1>7, <1>8, <1>9, Same, QuietStep, Zenon DEF RequestsInv

\* A response is written, or is not and then lost.
LEMMA WriteQueue ==
  ASSUME RequestsInv, NEW f \in Flows, NEW m \in Msgs, m.seq = f, Write(f, m)
  PROVE  /\ s2c' \in Seq(Msgs) /\ Addressed(s2c')
         /\ Of(s2c', f) \subseteq Of(s2c, f) \cup {m}
         /\ Line(f, conn, lost') = "up" => Of(s2c', f) # {}
         /\ \A g \in Flows \ {f} : Of(s2c', g) = Of(s2c, g)
         /\ lost' \in {lost, lost \cup {f}}
         /\ answers' = [answers EXCEPT ![f] = answers'[f]] /\ answers'[f] = answers[f] + 1
<1>1. s2c \in Seq(Msgs) /\ Addressed(s2c)  BY Zenon DEF RequestsInv, Queues
<1>2. \/ conn = "up" /\ s2c' = Append(s2c, m) /\ lost' = lost
      \/ s2c' = s2c /\ lost' \in {lost, lost \cup {f}} /\ (conn = "up" => f \in lost')
  BY Zenon DEF Write
<1>3. answers' = [answers EXCEPT ![f] = answers'[f]] /\ answers'[f] = answers[f] + 1
  BY Same, Zenon DEF Write, RequestsInv
<1>4. PICK p : p = s2c'  BY Zenon
<1>5. CASE conn = "up" /\ s2c' = Append(s2c, m) /\ lost' = lost
  <2>1. p = Append(s2c, m)  BY <1>4, <1>5, Zenon
  <2>2. p \in Seq(Msgs)  BY <1>1, <2>1
  <2>3. Addressed(p)  BY <1>1, <2>1, AddressedAppend, Zenon
  <2>4. Of(p, f) = Of(s2c, f) \cup {m}
    <3>1. Of(p, m.seq) = Of(s2c, m.seq) \cup {m}  BY ONLY m \in Msgs, <1>1, <2>1, OfOwn, Zenon
    <3> QED  BY <3>1, Zenon
  <2>5. ASSUME NEW g \in Flows, g # f  PROVE Of(p, g) = Of(s2c, g)
    <3>1. m.seq # g  BY <2>5, Zenon
    <3> QED  BY ONLY m \in Msgs, <1>1, <2>1, <3>1, OfOther, ZenonT(30)
  <2> QED  BY <1>3, <1>4, <1>5, <2>2, <2>3, <2>4, <2>5, Zenon
<1>6. CASE s2c' = s2c /\ lost' \in {lost, lost \cup {f}} /\ (conn = "up" => f \in lost')
  <2>1. Line(f, conn, lost') # "up"
    <3>1. "down" # "up"  OBVIOUS
    <3> QED  BY <1>6, <3>1, Zenon DEF Line
  <2> QED  BY <1>1, <1>3, <1>6, <2>1, Zenon
<1> QED  BY <1>2, <1>5, <1>6, Zenon

\* A step that writes a response, with the bytes torn or not.
LEMMA WriteStep ==
  ASSUME RequestsInv, NEW f \in Flows, NEW m \in Msgs, m.seq = f, Write(f, m),
         UNCHANGED <<cl, ran, c2s, conn, router, pool, argPool, replyPool>>,
         torn' \in {torn, torn \cup {f}}, sv' = [sv EXCEPT ![f] = sv'[f]],
         freed' = [freed EXCEPT ![f] = freed'[f]],
         Fine(f, cl[f], sv'[f], answers[f] + 1, ran[f], freed'[f], Mix(f, torn', pool), Of(c2s, f),
              Of(s2c', f), Line(f, conn, lost'), router)
  PROVE  RequestsInv'
<1>1. Touches(f) /\ Ends(f)  BY Same, WriteQueue, Zenon DEF Touches, Ends, RequestsInv
<1>2. Types' /\ AllFine'  BY <1>1, TouchStep, Zenon DEF RequestsInv
<1>3. Queues'  BY WriteQueue, Zenon DEF RequestsInv, Queues
<1>4. PoolsClean'  BY Zenon DEF RequestsInv, PoolsClean
<1> QED  BY <1>2, <1>3, <1>4, Zenon DEF RequestsInv

LEMMA HeartbeatStep ==
  ASSUME RequestsInv, NEW f \in Flows, Heartbeat(f)
  PROVE  RequestsInv'
<1>1. sv[f].pc = "handle" /\ IsHeartbeat(sv[f].req.h2)  BY Zenon DEF Heartbeat
<1>2. PICK w : w = [sv[f].req EXCEPT !.h2 = SetMessageType(@, Response)]  BY Zenon
<1>3. w \in Msgs /\ w.seq = f /\ Write(f, w)  BY <1>1, <1>2, Requested, BeatFacts DEF Heartbeat
<1>4. PICK y : y = [sv[f] EXCEPT !.pc = "done"]  BY Zenon
<1>5. sv' = [sv EXCEPT ![f] = y] /\ sv'[f] = y  BY <1>4, Zenon DEF Heartbeat, RequestsInv, Types
<1>6a. PICK T : T = Of(s2c', f)  BY Zenon
<1>6b. PICK o : o = Line(f, conn, lost')  BY Zenon
<1>6. T \subseteq Of(s2c, f) \cup {w} /\ (o = "up" => T # {})
  BY <1>3, <1>6a, <1>6b, WriteQueue, Zenon
<1>7. Fine(f, cl[f], y, answers[f] + 1, ran[f], freed[f] + 1, Mix(f, torn, pool), Of(c2s, f), T,
           o, router)
  <2>1. Fine(f, cl[f], sv[f], answers[f], ran[f], freed[f], Mix(f, torn, pool),
             Of(c2s, f), Of(s2c, f), Line(f, conn, lost), router)
    BY Before, Zenon
  <2> QED  BY <1>1, <1>2, <1>4, <1>6, <2>1, HeartbeatFine, Zenon
<1>8. /\ UNCHANGED <<cl, ran, c2s, torn, conn, router, pool, argPool, replyPool>>
      /\ Free(f)
  BY Zenon DEF Heartbeat, setupVars, poolVars
<1>9. freed' = [freed EXCEPT ![f] = freed'[f]] /\ freed'[f] = freed[f] + 1
  BY <1>8, Same, Zenon DEF RequestsInv
<1> QED  BY <1>3, <1>5, <1>6a, <1>6b, <1>7, <1>8, <1>9, WriteStep, Zenon

LEMMA WriteErrorStep ==
  ASSUME RequestsInv, NEW f \in Flows, WriteError(f)
  PROVE  RequestsInv'
<1>1. sv[f].pc = "routed"  BY Zenon DEF WriteError, MayAnswer
<1>2. PICK w : w = HandleError(ResponseTo(sv[f].req))  BY Zenon
<1>3. w \in Msgs /\ w.seq = f /\ w.payload = NoPayload /\ Write(f, w)
  <2>1. Write(f, w)  BY <1>2, Zenon DEF WriteError
  <2> QED  BY <1>1, <1>2, <2>1, Refusing, Zenon
<1>4a. PICK T : T = Of(s2c', f)  BY Zenon
<1>4b. PICK o : o = Line(f, conn, lost')  BY Zenon
<1>4. T \subseteq Of(s2c, f) \cup {w} /\ (o = "up" => T # {})
  BY <1>3, <1>4a, <1>4b, WriteQueue, Zenon
<1>5. Fine(f, cl[f], sv[f], answers[f] + 1, ran[f], freed[f], Mix(f, torn, pool), Of(c2s, f), T,
           o, router)
  <2>1. Fine(f, cl[f], sv[f], answers[f], ran[f], freed[f], Mix(f, torn, pool),
             Of(c2s, f), Of(s2c, f), Line(f, conn, lost), router)
    BY Before, Zenon
  <2> QED  BY <1>1, <1>3, <1>4, <2>1, WriteErrorFine, Zenon
<1>6. UNCHANGED <<cl, sv, ran, freed, c2s, torn, conn, router, pool, argPool, replyPool>>
  BY Zenon DEF WriteError, setupVars, poolVars
<1>7. /\ sv' = [sv EXCEPT ![f] = sv'[f]] /\ sv'[f] = sv[f]
      /\ freed' = [freed EXCEPT ![f] = freed'[f]] /\ freed'[f] = freed[f]
  BY <1>6, Same, Zenon DEF RequestsInv
<1> QED  BY <1>3, <1>4a, <1>4b, <1>5, <1>6, <1>7, WriteStep, Zenon

\* What is copied from a buffer: the message, or if another Zip had the buffer
\* something else, of which torn keeps record.
LEMMA CopiedFacts ==
  ASSUME NEW side, NEW f \in Flows, NEW m \in Msgs, NEW ps, ps \subseteq Payloads,
         NEW w \in Copies(side, f, m, ps), Copied(side, f), NEW p,
         m.payload.of \subseteq Mix(f, torn, p)
  PROVE  /\ w \in Msgs /\ w.h2 = m.h2 /\ w.seq = m.seq /\ w.target = m.target
         /\ w.payload.size = m.payload.size /\ w.payload.of \subseteq Mix(f, torn', p)
         /\ Mix(f, torn, p) \subseteq Mix(f, torn', p)
         /\ torn' \in {torn, torn \cup {f}}
<1>1. CASE zip[side][f] = "torn"
  <2>1. f \in torn' /\ torn' = torn \cup {f}  BY <1>1, Zenon DEF Copied
  <2>2. Mix(f, torn', p) = Flows \cup {Garbage}  BY <2>1, Zenon DEF Mix
  <2>3. \/ w = m
        \/ \E s \in Data : w = [m EXCEPT !.payload.of = s]
    <3>1. {Garbage} \in Data /\ \A q \in ps : q.of \in Data  BY Zenon DEF Data, Payloads
    <3> QED  BY <1>1, <3>1, Zenon DEF Copies
  <2>4. /\ w \in Msgs /\ w.h2 = m.h2 /\ w.seq = m.seq /\ w.target = m.target
        /\ w.payload.size = m.payload.size
    BY <2>3, CopyFacts
  <2>5. w.payload.of \in Data  BY <2>4, Zenon DEF Msgs, Payloads
  <2>6. Mix(f, torn, p) \subseteq Flows \cup {Garbage}  BY Zenon DEF Mix
  <2> QED  BY <2>1, <2>2, <2>4, <2>5, <2>6, Zenon DEF Data
<1>2. CASE zip[side][f] # "torn"
  <2>1. w = m /\ torn' = torn  BY <1>2, Zenon DEF Copies, Copied
  <2> QED  BY <2>1, Zenon
<1> QED  BY <1>1, <1>2, Zenon

LEMMA WriteResponseStep ==
  ASSUME RequestsInv, NEW f \in Flows, writeResponse(f)
  PROVE  RequestsInv'
<1>1. sv[f].pc = "write"  BY Zenon DEF writeResponse
<1>2. PICK ps : ps = {sv[g].res.payload : g \in Flows \ {f}}  BY Zenon
<1>3. ps \subseteq Payloads
  <2>1. \A g \in Flows : sv[g].res \in Msgs  BY Zenon DEF RequestsInv, Types, Servers
  <2> QED  BY <1>2, <2>1, Zenon DEF Msgs
<1>4. PICK w \in Copies("server", f, sv[f].res, ps) : Write(f, w)  BY <1>2, Zenon DEF writeResponse
<1>5. /\ Fine(f, cl[f], sv[f], answers[f], ran[f], freed[f], Mix(f, torn, pool),
              Of(c2s, f), Of(s2c, f), Line(f, conn, lost), router)
      /\ sv[f].res \in Msgs
  BY Before, Zenon DEF Servers
<1>6. sv[f].res.payload.of \subseteq Mix(f, torn, pool) /\ sv[f].res.seq = f
  BY <1>1, <1>5, Zenon DEF Fine, Clean, Serving
<1>7. Copied("server", f)  BY Zenon DEF writeResponse
<1>8. /\ w \in Msgs /\ w.h2 = sv[f].res.h2 /\ w.seq = f
      /\ w.payload.size = sv[f].res.payload.size /\ w.payload.of \subseteq Mix(f, torn', pool)
      /\ Mix(f, torn, pool) \subseteq Mix(f, torn', pool)
      /\ torn' \in {torn, torn \cup {f}}
  <2>1. PICK m : m = sv[f].res  BY Zenon
  <2>2. /\ m \in Msgs /\ w \in Copies("server", f, m, ps) /\ ps \subseteq Payloads
        /\ m.payload.of \subseteq Mix(f, torn, pool)
    BY <1>3, <1>4, <1>5, <1>6, <2>1, Zenon
  <2>3. /\ w \in Msgs /\ w.h2 = m.h2 /\ w.seq = m.seq /\ w.target = m.target
        /\ w.payload.size = m.payload.size /\ w.payload.of \subseteq Mix(f, torn', pool)
        /\ Mix(f, torn, pool) \subseteq Mix(f, torn', pool)
        /\ torn' \in {torn, torn \cup {f}}
    BY ONLY f \in Flows, <1>7, <2>2, CopiedFacts, Zenon
  <2> QED  BY <1>6, <2>1, <2>3, Zenon
<1>9. PICK y : y = [sv[f] EXCEPT !.pc = sv[f].back]  BY Zenon
<1>10. sv' = [sv EXCEPT ![f] = y] /\ sv'[f] = y  BY <1>9, Zenon DEF writeResponse, RequestsInv, Types
<1>11a. PICK T : T = Of(s2c', f)  BY Zenon
<1>11b. PICK o : o = Line(f, conn, lost')  BY Zenon
<1>11. T \subseteq Of(s2c, f) \cup {w} /\ (o = "up" => T # {})
  BY <1>4, <1>8, <1>11a, <1>11b, WriteQueue, Zenon
<1>12. PICK e : e = IF sv[f].back = "done" THEN freed[f] + 1 ELSE freed[f]  BY Zenon
<1>13. PICK N : N = Mix(f, torn', pool)  BY Zenon
<1>14. Fine(f, cl[f], y, answers[f] + 1, ran[f], e, N, Of(c2s, f), T, o, router)
  <2>1. /\ w \in Msgs /\ w.h2 = sv[f].res.h2 /\ w.payload.size = sv[f].res.payload.size
        /\ w.payload.of \subseteq N /\ Mix(f, torn, pool) \subseteq N
        /\ Fine(f, cl[f], sv[f], answers[f], ran[f], freed[f], Mix(f, torn, pool),
                Of(c2s, f), Of(s2c, f), Line(f, conn, lost), router)
    BY <1>5, <1>8, <1>13, Zenon
  <2> QED  BY ONLY <1>1, <1>9, <1>11, <1>12, <2>1, WriteResponseFine, Zenon
<1>15. UNCHANGED <<cl, ran, c2s, conn, router, pool, argPool, replyPool>>
  BY Zenon DEF writeResponse, setupVars, poolVars
<1>16. freed' = [freed EXCEPT ![f] = freed'[f]] /\ freed'[f] = e
  BY <1>12, Same, Zenon DEF writeResponse, RequestsInv
<1> QED  BY <1>4, <1>8, <1>10, <1>11a, <1>11b, <1>13, <1>14, <1>15, <1>16, WriteStep, Zenon

\* An object of a pool, and its way back.
LEMMA PoolFacts ==
  ASSUME Types, NEW o, Emptied(o, pool)
  PROVE  /\ \A x \in Get(o) : x \subseteq Flows /\ (Leaky(pool) \/ x = {})
         /\ \A x : Emptied(o \ {x}, pool)
         /\ \A x \in SUBSET Flows : Emptied(Put(o, x), pool)
<1>1. pool.use \in BOOLEAN /\ pool.reset \in BOOLEAN  BY RequestsConstants, Zenon DEF Types
<1>2. \A x \in Get(o) : x \subseteq Flows /\ (Leaky(pool) \/ x = {})  BY Zenon DEF Get, Emptied
<1>3. \A x : Emptied(o \ {x}, pool)  BY Zenon DEF Emptied
<1>4. ASSUME NEW x \in SUBSET Flows  PROVE Emptied(Put(o, x), pool)
  <2>1. CASE pool.use /\ pool.reset  BY <2>1, Zenon DEF Put, Emptied
  <2>2. CASE pool.use /\ ~pool.reset  BY <2>2, Zenon DEF Put, Emptied, Leaky
  <2>3. CASE ~pool.use  BY <2>3, Zenon DEF Put, Emptied
  <2> QED  BY <1>1, <2>1, <2>2, <2>3, Zenon
<1> QED  BY <1>2, <1>3, <1>4, Zenon

\* A step that leaves the connection alone.
LEMMA PoolStep ==
  ASSUME RequestsInv, NEW f \in Flows, UNCHANGED <<c2s, s2c, torn, conn, lost, router, pool>>, PoolsClean',
         cl' = [cl EXCEPT ![f] = cl'[f]], sv' = [sv EXCEPT ![f] = sv'[f]],
         answers' = [answers EXCEPT ![f] = answers'[f]], ran' = [ran EXCEPT ![f] = ran'[f]],
         freed' = [freed EXCEPT ![f] = freed'[f]],
         Fine(f, cl'[f], sv'[f], answers'[f], ran'[f], freed'[f], Mix(f, torn, pool),
              Of(c2s, f), Of(s2c, f), Line(f, conn, lost), router)
  PROVE  RequestsInv'
<1>1. Touches(f) /\ Ends(f)  BY Zenon DEF Touches, Ends
<1>2. Types' /\ AllFine'  BY <1>1, TouchStep, Zenon DEF RequestsInv
<1>3. Queues'  BY Zenon DEF RequestsInv, Queues
<1> QED  BY <1>2, <1>3, Zenon DEF RequestsInv

LEMMA DecodeStep ==
  ASSUME RequestsInv, NEW f \in Flows, Decode(f)
  PROVE  RequestsInv'
<1>1. sv[f].pc = "handle"  BY Zenon DEF Decode
<1>2. PICK x, s :
        /\ x \in Get(argPool) /\ s = x \cup (sv[f].req.payload.of \cap Flows)
        /\ \/ argPool' = argPool \ {x} /\ sv' = [sv EXCEPT ![f].pc = "call", ![f].args = s]
           \/ argPool' = Put(argPool \ {x}, s) /\ Handled(f, ResponseTo(sv[f].req), TRUE)
  BY Zenon DEF Decode
<1>3. Emptied(argPool, pool) /\ Types /\ Emptied(replyPool, pool)  BY Zenon DEF RequestsInv, PoolsClean
<1>4. x \subseteq Flows /\ (Leaky(pool) \/ x = {}) /\ Emptied(argPool \ {x}, pool)
  BY <1>2, <1>3, PoolFacts, Zenon
<1>5. s \in SUBSET Flows /\ s \subseteq Mix(f, torn, pool)
  <2>1. sv[f].req.payload.of \subseteq Mix(f, torn, pool)  BY <1>1, Requested, Zenon
  <2> QED  BY <1>2, <1>4, <2>1, Zenon DEF Mix
<1>6. Emptied(Put(argPool \ {x}, s), pool)
  BY <1>3, <1>4, <1>5, PoolFacts, Zenon
<1>7. UNCHANGED <<cl, answers, ran, freed, c2s, s2c, torn, conn, lost, router, pool, replyPool>>
  BY Zenon DEF Decode, setupVars, wireVars, histVars
<1>8. PoolsClean'  BY <1>2, <1>3, <1>4, <1>6, <1>7, Zenon DEF PoolsClean
<1>9. Fine(f, cl[f], sv[f], answers[f], ran[f], freed[f], Mix(f, torn, pool),
           Of(c2s, f), Of(s2c, f), Line(f, conn, lost), router)
  BY Before, Zenon
<1>10. CASE sv' = [sv EXCEPT ![f].pc = "call", ![f].args = s]
  <2>1. PICK y : y = [sv[f] EXCEPT !.pc = "call", !.args = s]  BY Zenon
  <2>2. sv' = [sv EXCEPT ![f] = y] /\ sv'[f] = y  BY <1>10, <2>1, Zenon DEF RequestsInv, Types
  <2>3. Fine(f, cl[f], y, answers[f], ran[f], freed[f], Mix(f, torn, pool),
             Of(c2s, f), Of(s2c, f), Line(f, conn, lost), router)
    BY <1>1, <1>5, <1>9, <2>1, DecodeFine, Zenon
  <2> QED  BY <1>7, <1>8, <2>2, <2>3, Same, PoolStep, Zenon DEF RequestsInv
<1>11. CASE Handled(f, ResponseTo(sv[f].req), TRUE)
  <2>1. PICK w : w = ResponseTo(sv[f].req)  BY Zenon
  <2>2. PICK y : y = [sv[f] EXCEPT !.pc = "reply", !.res = w, !.err = TRUE]  BY Zenon
  <2>3. sv' = [sv EXCEPT ![f] = y] /\ sv'[f] = y
    BY <1>11, <2>1, <2>2, Zenon DEF Handled, RequestsInv, Types
  <2>4. Result(f, w, TRUE, ran[f], Mix(f, torn, pool))
    <3>1. /\ w \in Msgs /\ w.seq = f /\ w.payload = NoPayload
          /\ MessageStatusType(w.h2) = Normal
      BY <1>1, <2>1, Responding, Zenon
    <3>2. Tells(w, TRUE, ran[f])  BY Zenon DEF Tells, Done
    <3> QED  BY <3>1, <3>2, Before, Empty, Zenon DEF Result
  <2>5. sv[f].pc \in Early  BY <1>1, Zenon DEF Early
  <2>6. Fine(f, cl[f], y, answers[f], ran[f], freed[f], Mix(f, torn, pool),
             Of(c2s, f), Of(s2c, f), Line(f, conn, lost), router)
    BY <1>9, <2>2, <2>4, <2>5, HandledFine, Zenon
  <2> QED  BY <1>7, <1>8, <2>3, <2>6, Same, PoolStep, Zenon DEF RequestsInv
<1> QED  BY <1>2, <1>10, <1>11, Zenon

\* What CallService makes of the reply.  Without an err the service ended well, or
\* it is a method.
LEMMA ReplyFacts ==
  ASSUME RequestsInv, NEW f \in Flows, sv[f].pc # "no", NEW reply, reply \in SUBSET Flows,
         reply \subseteq Mix(f, torn, pool), NEW q \in {"ok", "method", "function"},
         NEW z, z = Failed(f) \/ (q # "function" /\ z \in {Full(f, reply), Plain(f)})
  PROVE  Result(f, z.res, z.err, q, Mix(f, torn, pool)) /\ z.err \in BOOLEAN
<1>1. PICK w : w = ResponseTo(sv[f].req)  BY Zenon
<1>2. w \in Msgs /\ w.seq = f /\ w.payload = NoPayload /\ MessageStatusType(w.h2) = Normal
  BY <1>1, Responding, Zenon
<1>3. PICK p : p = Payload(cl[f].ask.size, reply)  BY Zenon
<1>4. p \in Payloads /\ p.of = reply
  <2>1. cl[f].ask \in AskRecords \cup {NoAsk}  BY Before, Zenon DEF Callers
  <2>2. (\A k \in AskRecords : k.size \in Nat) /\ NoAsk.size = 0  BY Zenon DEF AskRecords, NoAsk
  <2>3. cl[f].ask.size \in Nat  BY <2>1, <2>2
  <2> QED  BY <1>3, <2>3, Zenon DEF Payload, Payloads, Data
<1>5. PICK v : v = [w EXCEPT !.payload = p]  BY Zenon
<1>6. v \in Msgs /\ v.seq = f /\ v.payload = p /\ MessageStatusType(v.h2) = Normal
  BY <1>2, <1>4, <1>5, FullFacts
<1>7. /\ z.res = w \/ z.res = v
      /\ z.err = TRUE \/ (z.err = FALSE /\ q # "function")
  <2>1. CASE z = Full(f, reply) /\ q # "function"
    <3>1. z = [res |-> v, err |-> FALSE]  BY <2>1, <1>1, <1>3, <1>5, Zenon DEF Full
    <3>2. z.res = v /\ z.err = FALSE  BY <3>1, Zenon
    <3> QED  BY <2>1, <3>2, Zenon
  <2>2. CASE z = Plain(f) /\ q # "function"  BY <2>2, <1>1, Zenon DEF Plain
  <2>3. CASE z = Failed(f)  BY <2>3, <1>1, Zenon DEF Failed
  <2> QED  BY <2>1, <2>2, <2>3, Zenon
<1>8. Done(z.err, q)  BY <1>7, Zenon DEF Done
<1>9. Tells(w, z.err, q) /\ Tells(v, z.err, q)
  <2>1. Normal # Error  BY DEF Normal, Error
  <2> QED  BY <1>2, <1>6, <1>8, <2>1, Zenon DEF Tells
<1>10. w.payload.of \subseteq Mix(f, torn, pool) /\ v.payload.of \subseteq Mix(f, torn, pool)
  BY <1>2, <1>4, <1>6, Empty, Zenon
<1> QED  BY <1>2, <1>6, <1>7, <1>9, <1>10, Zenon DEF Result, Runs

LEMMA CallServiceStep ==
  ASSUME RequestsInv, NEW f \in Flows, CallService(f)
  PROVE  RequestsInv'
<1>1. sv[f].pc = "call"  BY Zenon DEF CallService
<1>2. PICK q, x, reply, z :
        /\ x \in Get(replyPool) /\ reply = x \cup sv[f].args
        /\ q \in {"ok", "method", "function"} /\ ran' = [ran EXCEPT ![f] = q]
        /\ z = Failed(f) \/ (q # "function" /\ z \in {Full(f, reply), Plain(f)})
        /\ Handled(f, z.res, z.err)
        /\ argPool' = Put(argPool, sv[f].args) /\ replyPool' = Put(replyPool \ {x}, reply)
  <2>1. PICK kind : kind = IF Lookup(sv[f].req.target) = "method" THEN "method" ELSE "function"  BY Zenon
  <2>2. PICK ok \in BOOLEAN, post \in BOOLEAN, x \in Get(replyPool) :
          /\ ran' = [ran EXCEPT ![f] = IF ok THEN "ok" ELSE kind]
          /\ \E r \in IF kind = "method" THEN MethodResults(f, ok /\ post, x \cup sv[f].args)
                     ELSE FunctionResults(f, ok, x \cup sv[f].args) : Handled(f, r.res, r.err)
          /\ argPool' = Put(argPool, sv[f].args) /\ replyPool' = Put(replyPool \ {x}, x \cup sv[f].args)
    BY <2>1, Zenon DEF CallService
  <2>3. PICK reply : reply = x \cup sv[f].args  BY Zenon
  <2>4. PICK q : q = IF ok THEN "ok" ELSE kind  BY Zenon
  <2>5. PICK z : /\ z \in IF kind = "method" THEN MethodResults(f, ok /\ post, reply)
                          ELSE FunctionResults(f, ok, reply)
                 /\ Handled(f, z.res, z.err)
    BY <2>2, <2>3, Zenon
  <2>6. z = Failed(f) \/ (q # "function" /\ z \in {Full(f, reply), Plain(f)})
    <3>1. CASE kind = "method"
      <4>1. q # "function"  BY <2>4, <3>1
      <4> QED  BY <2>5, <3>1, <4>1, Zenon DEF MethodResults
    <3>2. CASE kind # "method" /\ ok
      <4>1. q # "function"  BY <2>4, <3>2
      <4> QED  BY <2>5, <3>2, <4>1, Zenon DEF FunctionResults
    <3>3. CASE kind # "method" /\ ~ok  BY <2>5, <3>3, Zenon DEF FunctionResults
    <3> QED  BY <3>1, <3>2, <3>3, Zenon
  <2>7. q \in {"ok", "method", "function"}
    BY <2>1, <2>4, Zenon
  <2> QED  BY <2>2, <2>3, <2>4, <2>5, <2>6, <2>7, Zenon
<1>3. Emptied(argPool, pool) /\ Types /\ Emptied(replyPool, pool)  BY Zenon DEF RequestsInv, PoolsClean
<1>4. x \subseteq Flows /\ (Leaky(pool) \/ x = {}) /\ Emptied(replyPool \ {x}, pool)
  BY <1>2, <1>3, PoolFacts, Zenon
<1>5. sv[f].args \in SUBSET Flows /\ reply \in SUBSET Flows /\ reply \subseteq Mix(f, torn, pool)
  <2>1. sv[f].args \in SUBSET Flows /\ sv[f].args \subseteq Mix(f, torn, pool)
    BY Before, Zenon DEF Servers, Fine, Clean
  <2> QED  BY <1>2, <1>4, <2>1, Zenon DEF Mix
<1>6. UNCHANGED <<cl, answers, freed, c2s, s2c, torn, conn, lost, router, pool>>
  BY Zenon DEF CallService, setupVars, wireVars
<1>7. PoolsClean'
  <2>1. Emptied(Put(argPool, sv[f].args), pool)  BY <1>3, <1>5, PoolFacts, Zenon
  <2>2. Emptied(Put(replyPool \ {x}, reply), pool)  BY <1>3, <1>4, <1>5, PoolFacts, Zenon
  <2> QED  BY <1>2, <1>6, <2>1, <2>2, Zenon DEF PoolsClean
<1>9. ran' = [ran EXCEPT ![f] = q] /\ ran'[f] = q  BY <1>2, Zenon DEF RequestsInv, Types
<1>10. Result(f, z.res, z.err, q, Mix(f, torn, pool)) /\ z.err \in BOOLEAN
  <2>1. sv[f].pc # "no"  BY <1>1, Zenon
  <2>2. /\ q \in {"ok", "method", "function"}
        /\ z = Failed(f) \/ (q # "function" /\ z \in {Full(f, reply), Plain(f)})
    BY <1>2, Zenon
  <2> QED  BY ONLY RequestsInv, f \in Flows, <1>5, <2>1, <2>2, ReplyFacts, Zenon
<1>11. PICK w, e : w = z.res /\ e = z.err  BY Zenon
<1>12. PICK y : y = [sv[f] EXCEPT !.pc = "reply", !.res = w, !.err = e]  BY Zenon
<1>13. sv' = [sv EXCEPT ![f] = y] /\ sv'[f] = y
  BY <1>2, <1>11, <1>12, Zenon DEF Handled, RequestsInv, Types
<1>14. Fine(f, cl[f], y, answers[f], q, freed[f], Mix(f, torn, pool),
            Of(c2s, f), Of(s2c, f), Line(f, conn, lost), router)
  <2>1. Fine(f, cl[f], sv[f], answers[f], ran[f], freed[f], Mix(f, torn, pool),
             Of(c2s, f), Of(s2c, f), Line(f, conn, lost), router)
    BY Before, Zenon
  <2>2. sv[f].pc \in Early  BY <1>1, Zenon DEF Early
  <2>3. Result(f, w, e, q, Mix(f, torn, pool)) /\ e \in BOOLEAN  BY <1>10, <1>11, Zenon
  <2> QED  BY <1>12, <2>1, <2>2, <2>3, HandledFine, Zenon
<1> QED  BY <1>6, <1>7, <1>9, <1>13, <1>14, Same, PoolStep, Zenon DEF RequestsInv

LEMMA PanicsStep ==
  ASSUME RequestsInv, NEW f \in Flows, Panics(f)
  PROVE  RequestsInv'
<1>1. sv[f].pc \in Early  BY Zenon DEF Panics, Early
<1>2. PICK y : y = [sv[f] EXCEPT !.pc = "panicked"]  BY Zenon
<1>3. sv' = [sv EXCEPT ![f] = y] /\ sv'[f] = y  BY <1>2, Zenon DEF Panics, RequestsInv, Types
<1>4. PICK x, e :
        /\ \/ cl[f].ask.front = "http" /\ x = [cl[f] EXCEPT !.pc = "done", !.out = "conn"] /\ e = freed[f] + 1
           \/ cl[f].ask.front # "http" /\ x = cl[f] /\ e = freed[f]
        /\ cl' = [cl EXCEPT ![f] = x] /\ cl'[f] = x
        /\ freed' = [freed EXCEPT ![f] = freed'[f]] /\ freed'[f] = e
  <2>1. CASE FromGateway(f)
    <3>1. cl' = [cl EXCEPT ![f].pc = "done", ![f].out = "conn"] /\ Free(f)  BY <2>1, Zenon DEF Panics
    <3>2. PICK x : x = [cl[f] EXCEPT !.pc = "done", !.out = "conn"]  BY Zenon
    <3>3. cl' = [cl EXCEPT ![f] = x] /\ cl'[f] = x  BY <3>1, <3>2, Zenon DEF RequestsInv, Types
    <3> QED  BY <2>1, <3>1, <3>2, <3>3, Same, Zenon DEF FromGateway, RequestsInv
  <2>2. CASE ~FromGateway(f)
    <3>1. UNCHANGED <<cl, freed>>  BY <2>2, Zenon DEF Panics
    <3> QED  BY <2>2, <3>1, Same, Zenon DEF FromGateway, RequestsInv
  <2> QED  BY <2>1, <2>2, Zenon
<1>5. UNCHANGED <<answers, ran, c2s, s2c, torn, conn, lost, router, pool, replyPool>>
  BY Zenon DEF Panics, setupVars, wireVars
<1>6. PoolsClean'
  <2>1. Emptied(argPool, pool) /\ Types /\ Emptied(replyPool, pool)  BY Zenon DEF RequestsInv, PoolsClean
  <2>2. sv[f].args \in SUBSET Flows  BY Before, Zenon DEF Servers
  <2>3. Emptied(Put(argPool, sv[f].args), pool)  BY <2>1, <2>2, PoolFacts, Zenon
  <2>4. argPool' = argPool \/ argPool' = Put(argPool, sv[f].args)  BY Zenon DEF Panics
  <2> QED  BY <1>5, <2>1, <2>3, <2>4, Zenon DEF PoolsClean
<1>7. Fine(f, x, y, answers[f], ran[f], e, Mix(f, torn, pool), Of(c2s, f), Of(s2c, f), Line(f, conn, lost), router)
  <2>1. Fine(f, cl[f], sv[f], answers[f], ran[f], freed[f], Mix(f, torn, pool),
             Of(c2s, f), Of(s2c, f), Line(f, conn, lost), router)
    BY Before, Zenon
  <2>2. \/ cl[f].ask.front = "http" /\ x = [cl[f] EXCEPT !.pc = "done", !.out = "conn"] /\ e = freed[f] + 1
        \/ cl[f].ask.front # "http" /\ x = cl[f] /\ e = freed[f]
    BY <1>4, Zenon
  <2> QED  BY ONLY <1>1, <1>2, <2>1, <2>2, PanicFine, Zenon
<1> QED  BY <1>3, <1>4, <1>5, <1>6, <1>7, Same, PoolStep, Zenon DEF RequestsInv

LEMMA WriteRequestStep ==
  ASSUME RequestsInv, NEW f \in Flows, WriteRequest(f)
  PROVE  RequestsInv'
<1>1. cl[f].pc = "write"  BY Zenon DEF WriteRequest
<1>2. PICK ps : ps = {cl[g].req.payload : g \in Flows \ {f}}  BY Zenon
<1>3. ps \subseteq Payloads
  <2>1. \A g \in Flows : cl[g].req \in Msgs  BY Zenon DEF RequestsInv, Types, Callers
  <2> QED  BY <1>2, <2>1, Zenon DEF Msgs
<1>4. PICK w \in Copies("client", f, cl[f].req, ps) : c2s' = IF conn = "up" THEN Append(c2s, w) ELSE c2s
  BY <1>2, Zenon DEF WriteRequest
<1>5. /\ Fine(f, cl[f], sv[f], answers[f], ran[f], freed[f], Mix(f, torn, pool),
              Of(c2s, f), Of(s2c, f), Line(f, conn, lost), router)
      /\ cl[f].req \in Msgs
  BY Before, Zenon DEF Callers
<1>6. cl[f].req.payload.of \subseteq Mix(f, torn, pool) /\ cl[f].req.seq = f /\ Of(c2s, f) = {}
  BY <1>1, <1>5, Zenon DEF Fine, Clean, Asking, Own
<1>7. Copied("client", f)  BY Zenon DEF WriteRequest
<1>8. /\ w \in Msgs /\ w.h2 = cl[f].req.h2 /\ w.seq = f /\ w.seq = cl[f].req.seq
      /\ w.target = cl[f].req.target /\ w.payload.of \subseteq Mix(f, torn', pool)
      /\ Mix(f, torn, pool) \subseteq Mix(f, torn', pool)
      /\ torn' \in {torn, torn \cup {f}}
  <2>1. PICK m : m = cl[f].req  BY Zenon
  <2>2. /\ m \in Msgs /\ w \in Copies("client", f, m, ps) /\ ps \subseteq Payloads
        /\ m.payload.of \subseteq Mix(f, torn, pool)
    BY <1>3, <1>4, <1>5, <1>6, <2>1, Zenon
  <2>3. /\ w \in Msgs /\ w.h2 = m.h2 /\ w.seq = m.seq /\ w.target = m.target
        /\ w.payload.size = m.payload.size /\ w.payload.of \subseteq Mix(f, torn', pool)
        /\ Mix(f, torn, pool) \subseteq Mix(f, torn', pool)
        /\ torn' \in {torn, torn \cup {f}}
    BY ONLY f \in Flows, <1>7, <2>2, CopiedFacts, Zenon
  <2> QED  BY <1>6, <2>1, <2>3, Zenon
<1>9. PICK x : x = [cl[f] EXCEPT !.pc = IF cl[f].ask.oneway THEN "done" ELSE "wait",
                                 !.out = IF ~cl[f].ask.oneway THEN "none"
                                         ELSE IF conn = "up" THEN "nil" ELSE "conn"]
  BY Zenon
<1>10. cl' = [cl EXCEPT ![f] = x] /\ cl'[f] = x  BY <1>9, Zenon DEF WriteRequest, RequestsInv, Types
<1>11. PICK D : D = IF conn = "up" THEN Of(c2s, f) \cup {w} ELSE Of(c2s, f)  BY Zenon
<1>12. PICK N : N = Mix(f, torn', pool)  BY Zenon
<1>13. Fine(f, x, sv[f], answers[f], ran[f], freed[f], N, D, Of(s2c, f), Line(f, conn, lost), router)
  <2>1. /\ w \in Msgs /\ w.h2 = cl[f].req.h2 /\ w.seq = cl[f].req.seq /\ w.target = cl[f].req.target
        /\ w.payload.of \subseteq N /\ Mix(f, torn, pool) \subseteq N
        /\ Fine(f, cl[f], sv[f], answers[f], ran[f], freed[f], Mix(f, torn, pool),
                Of(c2s, f), Of(s2c, f), Line(f, conn, lost), router)
    BY <1>5, <1>8, <1>12, Zenon
  <2>2. Line(f, conn, lost) = "up" => conn = "up"
    <3>1. "down" # "up"  OBVIOUS
    <3> QED  BY <3>1, Zenon DEF Line
  <2>3. PICK n : n = Line(f, conn, lost)  BY Zenon
  <2>4. Fine(f, cl[f], sv[f], answers[f], ran[f], freed[f], Mix(f, torn, pool), Of(c2s, f), Of(s2c, f), n, router)
    BY <2>1, <2>3, Zenon
  <2>5. n = "up" => conn = "up"  BY <2>2, <2>3, Zenon
  <2>6. PICK u : u = cl[f]  BY Zenon
  <2>7. PICK M : M = Mix(f, torn, pool)  BY Zenon
  <2>8. PICK C : C = Of(c2s, f)  BY Zenon
  <2>9. PICK k : k = conn  BY Zenon
  <2>10. /\ Fine(f, u, sv[f], answers[f], ran[f], freed[f], M, C, Of(s2c, f), n, router)
         /\ u.pc = "write" /\ M \subseteq N /\ (n = "up" => k = "up")
         /\ w \in Msgs /\ w.h2 = u.req.h2 /\ w.seq = u.req.seq /\ w.target = u.req.target
         /\ w.payload.of \subseteq N /\ D = OnWire(C, w, k)
    BY <1>1, <1>11, <2>1, <2>4, <2>5, <2>6, <2>7, <2>8, <2>9, Zenon DEF OnWire
  <2>11. x = Wrote(u, k)  BY <1>9, <2>6, <2>9, Zenon DEF Wrote
  <2>12. Fine(f, x, sv[f], answers[f], ran[f], freed[f], N, D, Of(s2c, f), n, router)
    BY ONLY <2>10, <2>11, WriteFine, Zenon
  <2> QED  BY <2>3, <2>12, Zenon
<1>14. UNCHANGED <<sv, answers, ran, freed, s2c, conn, lost, router, pool, argPool, replyPool>>
  BY Zenon DEF WriteRequest, setupVars, poolVars, histVars
<1>15. /\ c2s' \in Seq(Msgs) /\ Distinct(c2s') /\ Addressed(c2s')
       /\ Of(c2s', f) = D /\ \A g \in Flows \ {f} : Of(c2s', g) = Of(c2s, g)
  <2>0. Of(c2s, w.seq) = {}  BY <1>6, <1>8, Zenon
  <2>1. c2s \in Seq(Msgs) /\ Distinct(c2s) /\ Addressed(c2s) /\ w \in Msgs /\ w.seq \in Flows
    BY <1>8, Zenon DEF RequestsInv, Queues
  <2>2. PICK p : p = c2s'  BY Zenon
  <2>3. CASE conn = "up"
    <3>1. p = Append(c2s, w)  BY <1>4, <2>2, <2>3, Zenon
    <3>2. p \in Seq(Msgs)  BY <2>1, <3>1
    <3>3. Addressed(p)  BY ONLY <2>1, <3>1, AddressedAppend, Zenon
    <3>4. Distinct(p)  BY ONLY <2>0, <2>1, <3>1, DistinctAppend, Zenon
    <3>5. Of(p, w.seq) = Of(c2s, w.seq) \cup {w}  BY ONLY <2>1, <3>1, OfOwn, Zenon
    <3>6. ASSUME NEW g \in Flows, g # f  PROVE Of(p, g) = Of(c2s, g)
      <4>1. w.seq # g  BY <1>8, <3>6, Zenon
      <4> QED  BY ONLY <2>1, <3>1, <4>1, OfOther, ZenonT(30)
    <3>7. Of(p, f) = D  BY <1>8, <1>11, <2>3, <3>5, Zenon
    <3> QED  BY <2>2, <3>2, <3>3, <3>4, <3>6, <3>7, Zenon
  <2>4. CASE conn # "up"
    <3>1. c2s' = c2s /\ D = Of(c2s, f)  BY <1>4, <1>11, <2>4, Zenon
    <3> QED  BY <2>1, <3>1, Zenon
  <2> QED  BY <2>3, <2>4, Zenon
<1>16. Touches(f) /\ Ends(f)
  BY <1>8, <1>10, <1>12, <1>13, <1>14, <1>15, Same, Zenon DEF Touches, Ends, RequestsInv
<1>17. Types' /\ AllFine'  BY <1>16, TouchStep, Zenon DEF RequestsInv
<1>18. Queues'  BY <1>14, <1>15, Zenon DEF RequestsInv, Queues
<1>19. PoolsClean'  BY <1>14, Zenon DEF RequestsInv, PoolsClean
<1> QED  BY <1>17, <1>18, <1>19, Zenon DEF RequestsInv

LEMMA ReceiveStep ==
  ASSUME RequestsInv, Receive
  PROVE  RequestsInv'
<1>1. s2c \in Seq(Msgs) /\ s2c # <<>> /\ Addressed(s2c)  BY Zenon DEF Receive, RequestsInv, Queues
<1>2. PICK m, f, p : m = Head(s2c) /\ f = m.seq /\ p = Tail(s2c)  BY Zenon
<1>3. Addressed(p) /\ Head(s2c).seq \in Flows  BY ONLY <1>1, <1>2, AddressedTail, Zenon
<1>4. f \in Flows /\ s2c' = p /\ p \in Seq(Msgs)
  <2>1. f \in Flows  BY <1>2, <1>3, Zenon
  <2>2. s2c' = p  BY <1>2, Zenon DEF Receive
  <2>3. p \in Seq(Msgs)  BY <1>1, <1>2
  <2> QED  BY <2>1, <2>2, <2>3, Zenon
<1>5. m \in Of(s2c, f) /\ Of(p, f) \subseteq Of(s2c, f)
  <2>1. Head(s2c).seq = f  BY <1>2, Zenon
  <2>2. Head(s2c) \in Of(s2c, f) /\ Of(p, f) \subseteq Of(s2c, f)
    BY ONLY <1>1, <1>2, <2>1, OfTail, Zenon
  <2> QED  BY <1>2, <2>2, Zenon
<1>6. ASSUME NEW g \in Flows, g # f  PROVE Of(p, g) = Of(s2c, g)
  <2>1. Head(s2c).seq # g  BY <1>2, <1>6, Zenon
  <2> QED  BY ONLY <1>1, <1>2, <2>1, OfTail, Zenon
<1>7. UNCHANGED <<sv, answers, ran, freed, torn, c2s, conn, lost, router, pool, argPool, replyPool>>
  BY Zenon DEF Receive, setupVars, poolVars, histVars
<1>8. Fine(f, cl[f], sv[f], answers[f], ran[f], freed[f], Mix(f, torn, pool),
           Of(c2s, f), Of(s2c, f), Line(f, conn, lost), router)
  BY <1>4, Before, Zenon
<1>9. /\ cl' = [cl EXCEPT ![f] = cl'[f]]
      /\ Fine(f, cl'[f], sv[f], answers[f], ran[f], freed[f], Mix(f, torn, pool),
              Of(c2s, f), Of(p, f), Line(f, conn, lost), router)
  <2>1. CASE cl[f].pc = "wait"
    <3>1. PICK o \in Outcomes(m) :
            cl' = [cl EXCEPT ![f].pc = "done", ![f].out = o, ![f].got = m.payload]
      BY <1>2, <2>1, Zenon DEF Receive
    <3>2. PICK x : x = [cl[f] EXCEPT !.pc = "done", !.out = o, !.got = m.payload]  BY Zenon
    <3>3. cl' = [cl EXCEPT ![f] = x] /\ cl'[f] = x  BY <1>4, <3>1, <3>2, Zenon DEF RequestsInv, Types
    <3>4. Fine(f, x, sv[f], answers[f], ran[f], freed[f], Mix(f, torn, pool),
               Of(c2s, f), Of(p, f), Line(f, conn, lost), router)
      <4>1. o \in Outcomes(m)  BY <3>1, Zenon
      <4> QED  BY ONLY <1>5, <1>8, <2>1, <3>2, <4>1, ReceiveFine, Zenon
    <3> QED  BY <3>3, <3>4, Zenon
  <2>2. CASE cl[f].pc # "wait"
    <3>1. cl' = cl  BY <1>2, <2>2, Zenon DEF Receive
    <3>2. Fine(f, cl[f], sv[f], answers[f], ran[f], freed[f], Mix(f, torn, pool),
               Of(c2s, f), Of(p, f), Line(f, conn, lost), router)
      <4>1. Line(f, conn, lost) = "down" \/ ~(cl[f].pc = "wait" /\ cl[f].ask.front = "irpc")  BY <2>2, Zenon
      <4> QED  BY ONLY <1>5, <1>8, <4>1, DropFine, Zenon
    <3> QED  BY <1>4, <3>1, <3>2, Same, Zenon DEF RequestsInv
  <2> QED  BY <2>1, <2>2, Zenon
<1>10. Touches(f) /\ Ends(f)
  BY <1>4, <1>6, <1>7, <1>9, Same, Zenon DEF Touches, Ends, RequestsInv
<1>11. Types' /\ AllFine'  BY <1>4, <1>10, TouchStep, Zenon DEF RequestsInv
<1>12. Queues'  BY <1>3, <1>4, <1>7, Zenon DEF RequestsInv, Queues
<1>13. PoolsClean'  BY <1>7, Zenon DEF RequestsInv, PoolsClean
<1> QED  BY <1>11, <1>12, <1>13, Zenon DEF RequestsInv

\* The connection ends: nothing is left on its way to the server.
LEMMA DownStep ==
  ASSUME Types, AllFine, NEW f \in Flows,
         UNCHANGED <<cl, sv, ran, torn, router, pool>>, conn' = "down", c2s' = <<>>,
         answers' = [answers EXCEPT ![f] = answers'[f]], freed' = [freed EXCEPT ![f] = freed'[f]],
         \A g \in Flows \ {f} : Of(s2c', g) = Of(s2c, g),
         Fine(f, cl[f], sv[f], answers'[f], ran[f], freed'[f], Mix(f, torn, pool),
              {}, Of(s2c', f), "down", router)
  PROVE  Types' /\ AllFine'
<1>1. answers'[f] \in Nat /\ freed'[f] \in Nat  BY Zenon DEF Fine, Bounded
<1>2. Types'  BY <1>1, Zenon DEF Types
<1>3. ASSUME NEW g \in Flows
      PROVE  Fine(g, cl'[g], sv'[g], answers'[g], ran'[g], freed'[g], Mix(g, torn', pool'),
                  Of(c2s', g), Of(s2c', g), Line(g, conn', lost'), router')
  <2>0. Line(g, conn', lost') = "down"  BY Zenon DEF Line
  <2>1. Of(c2s', g) = {}  BY OfEmpty, Zenon
  <2>2. CASE g = f  BY <2>0, <2>1, <2>2, Zenon
  <2>3. CASE g # f
    <3>1. answers'[g] = answers[g] /\ freed'[g] = freed[g] /\ Of(s2c', g) = Of(s2c, g)
      BY <2>3, Zenon DEF Types
    <3>2. Fine(g, cl[g], sv[g], answers[g], ran[g], freed[g], Mix(g, torn, pool),
               Of(c2s, g), Of(s2c, g), Line(g, conn, lost), router)
      BY Zenon DEF AllFine
    <3>3. Fine(g, cl[g], sv[g], answers[g], ran[g], freed[g], Mix(g, torn, pool),
               {}, Of(s2c, g), "down", router)
      BY ONLY <3>2, DownFine, Zenon
    <3> QED  BY <2>0, <2>1, <3>1, <3>3, Zenon
  <2> QED  BY <2>2, <2>3, Zenon
<1> QED  BY <1>2, <1>3, Zenon DEF AllFine

\* handleError, for the request that was read.
LEMMA ErrorQueue ==
  ASSUME RequestsInv, NEW f \in Flows, NEW m \in Of(c2s, f), handleError(f, m)
  PROVE  /\ Fine(f, cl[f], sv[f], answers'[f], ran[f], freed'[f], Mix(f, torn, pool),
                 {}, Of(s2c', f), Line(f, conn, lost'), router)
         /\ s2c' \in Seq(Msgs) /\ Addressed(s2c') /\ lost' \in {lost, lost \cup {f}}
         /\ \A g \in Flows \ {f} : Of(s2c', g) = Of(s2c, g)
         /\ answers' = [answers EXCEPT ![f] = answers'[f]]
         /\ freed' = [freed EXCEPT ![f] = freed'[f]] /\ freed'[f] = freed[f] + 1
<1>1. m \in Msgs /\ m.seq = f  BY OfTyped, Zenon DEF RequestsInv, Queues
<1>2. PICK w : w = HandleError(ResponseTo(m))  BY Zenon
<1>3. w \in Msgs /\ w.seq = f  BY <1>1, <1>2, ErrorFacts, Zenon
<1>4. freed' = [freed EXCEPT ![f] = freed'[f]] /\ freed'[f] = freed[f] + 1
  BY Same, Zenon DEF handleError, RequestsInv
<1>5. /\ \/ IsOneway(m.h2) /\ answers'[f] = answers[f] /\ Of(s2c', f) = Of(s2c, f)
         \/ /\ ~IsOneway(m.h2) /\ answers'[f] = answers[f] + 1
            /\ Of(s2c', f) \subseteq Of(s2c, f) \cup {w}
            /\ Line(f, conn, lost') = "up" => Of(s2c', f) # {}
      /\ s2c' \in Seq(Msgs) /\ Addressed(s2c') /\ lost' \in {lost, lost \cup {f}}
      /\ \A g \in Flows \ {f} : Of(s2c', g) = Of(s2c, g)
      /\ answers' = [answers EXCEPT ![f] = answers'[f]]
  <2>1. CASE IsOneway(m.h2)
    <3>1. UNCHANGED <<s2c, lost, answers>>  BY <2>1, Zenon DEF handleError
    <3>2. s2c \in Seq(Msgs) /\ Addressed(s2c)  BY Zenon DEF RequestsInv, Queues
    <3> QED  BY <2>1, <3>1, <3>2, Same, Zenon DEF RequestsInv
  <2>2. CASE ~IsOneway(m.h2)
    <3>1. Write(f, w)  BY <1>2, <2>2, Zenon DEF handleError
    <3> QED  BY <1>3, <2>2, <3>1, WriteQueue, Zenon
  <2> QED  BY <2>1, <2>2, Zenon
<1>6. PICK b, T, o : b = answers'[f] /\ T = Of(s2c', f) /\ o = Line(f, conn, lost')  BY Zenon
<1>7. Fine(f, cl[f], sv[f], b, ran[f], freed[f] + 1, Mix(f, torn, pool), {}, T, o, router)
  <2>1. Fine(f, cl[f], sv[f], answers[f], ran[f], freed[f], Mix(f, torn, pool),
             Of(c2s, f), Of(s2c, f), Line(f, conn, lost), router)
    BY Before, Zenon
  <2>2. \/ IsOneway(m.h2) /\ b = answers[f] /\ T = Of(s2c, f)
        \/ /\ ~IsOneway(m.h2) /\ b = answers[f] + 1
           /\ T \subseteq Of(s2c, f) \cup {HandleError(ResponseTo(m))}
           /\ o = "up" => T # {}
    BY <1>2, <1>5, <1>6, Zenon
  <2> QED  BY ONLY m \in Of(c2s, f), <2>1, <2>2, ErrorFine, Zenon
<1> QED  BY <1>4, <1>5, <1>6, <1>7, Zenon

LEMMA ReadStep ==
  ASSUME RequestsInv, Read
  PROVE  RequestsInv'
<1>1. c2s \in Seq(Msgs) /\ c2s # <<>> /\ Addressed(c2s) /\ Distinct(c2s) /\ conn = "up"
  BY Zenon DEF Read, RequestsInv, Queues
<1>2. PICK m, f, p : m = Head(c2s) /\ f = m.seq /\ p = Tail(c2s)  BY Zenon
<1>3. Addressed(p) /\ Head(c2s).seq \in Flows  BY ONLY <1>1, <1>2, AddressedTail, Zenon
<1>4. f \in Flows /\ p \in Seq(Msgs)
  <2>1. f \in Flows  BY <1>2, <1>3, Zenon
  <2>2. p \in Seq(Msgs)  BY <1>1, <1>2
  <2> QED  BY <2>1, <2>2, Zenon
<1>5. Head(c2s).seq = f  BY <1>2, Zenon
<1>6. m \in Of(c2s, f) /\ Of(p, f) = {} /\ Distinct(p)
  <2>1. Head(c2s) \in Of(c2s, f)  BY ONLY <1>1, <1>2, <1>5, OfTail, Zenon
  <2>2. Of(p, f) = {}  BY ONLY <1>1, <1>2, <1>5, OfTailOnce, Zenon
  <2>3. Distinct(p)  BY ONLY <1>1, <1>2, DistinctTail, Zenon
  <2> QED  BY <1>2, <2>1, <2>2, <2>3, Zenon
<1>7. ASSUME NEW g \in Flows, g # f  PROVE Of(p, g) = Of(c2s, g)
  <2>1. Head(c2s).seq # g  BY <1>2, <1>7, Zenon
  <2> QED  BY ONLY <1>1, <1>2, <2>1, OfTail, Zenon
<1>8. UNCHANGED <<cl, ran, torn, router, pool, argPool, replyPool>>
  BY Zenon DEF Read, setupVars, poolVars
<1>9. PoolsClean'  BY <1>8, Zenon DEF RequestsInv, PoolsClean
<1>10. Fine(f, cl[f], sv[f], answers[f], ran[f], freed[f], Mix(f, torn, pool),
            Of(c2s, f), Of(s2c, f), Line(f, conn, lost), router)
  BY <1>4, Before, Zenon
<1>11. Types /\ AllFine /\ s2c \in Seq(Msgs) /\ Addressed(s2c)  BY Zenon DEF RequestsInv, Queues
<1>12. <<>> \in Seq(Msgs) /\ Distinct(<<>>) /\ Addressed(<<>>)  BY DEF Distinct, Addressed
<1>13. CASE /\ conn' = "down" /\ c2s' = <<>> /\ (UNCHANGED freed \/ Free(f))
            /\ UNCHANGED <<sv, s2c, lost, answers>>
  <2>1. PICK e : e = freed'[f]  BY Zenon
  <2>2. freed' = [freed EXCEPT ![f] = freed'[f]] /\ e \in {freed[f], freed[f] + 1}
    BY <1>4, <1>11, <1>13, <2>1, Same, Zenon
  <2>3. Fine(f, cl[f], sv[f], answers[f], ran[f], e, Mix(f, torn, pool), {}, Of(s2c, f), "down", router)
    <3>1. Of(c2s, f) # {} /\ e \in {freed[f], freed[f] + 1}  BY <1>6, <2>2, Zenon
    <3> QED  BY ONLY <1>10, <3>1, ReadFails, Zenon
  <2>4. answers' = [answers EXCEPT ![f] = answers'[f]] /\ answers'[f] = answers[f]
    BY <1>4, <1>11, <1>13, Same, Zenon
  <2>5. Types' /\ AllFine'  BY <1>4, <1>8, <1>11, <1>13, <2>1, <2>2, <2>3, <2>4, DownStep, Zenon
  <2>6. Queues'  BY <1>11, <1>12, <1>13, Zenon DEF Queues
  <2> QED  BY <1>9, <2>5, <2>6, Zenon DEF RequestsInv
<1>14. CASE handleError(f, m) /\ c2s' = p /\ UNCHANGED <<sv, conn>>
  <2>1. /\ Fine(f, cl[f], sv[f], answers'[f], ran[f], freed'[f], Mix(f, torn, pool),
                {}, Of(s2c', f), Line(f, conn, lost'), router)
        /\ s2c' \in Seq(Msgs) /\ Addressed(s2c') /\ lost' \in {lost, lost \cup {f}}
        /\ \A g \in Flows \ {f} : Of(s2c', g) = Of(s2c, g)
        /\ answers' = [answers EXCEPT ![f] = answers'[f]]
        /\ freed' = [freed EXCEPT ![f] = freed'[f]]
    BY <1>1, <1>4, <1>6, <1>14, ErrorQueue, Zenon
  <2>2. Touches(f) /\ Ends(f)
    BY <1>4, <1>6, <1>7, <1>8, <1>11, <1>14, <2>1, Same, Zenon DEF Touches, Ends
  <2>3. Types' /\ AllFine'  BY <1>4, <1>11, <2>2, TouchStep, Zenon
  <2>4. Queues'  BY <1>3, <1>4, <1>6, <1>14, <2>1, Zenon DEF Queues
  <2> QED  BY <1>9, <2>3, <2>4, Zenon DEF RequestsInv
<1>15. CASE handleError(f, m) /\ conn' = "down" /\ c2s' = <<>> /\ UNCHANGED sv
  <2>1. /\ Fine(f, cl[f], sv[f], answers'[f], ran[f], freed'[f], Mix(f, torn, pool),
                {}, Of(s2c', f), Line(f, conn, lost'), router)
        /\ s2c' \in Seq(Msgs) /\ Addressed(s2c') /\ lost' \in {lost, lost \cup {f}}
        /\ \A g \in Flows \ {f} : Of(s2c', g) = Of(s2c, g)
        /\ answers' = [answers EXCEPT ![f] = answers'[f]]
        /\ freed' = [freed EXCEPT ![f] = freed'[f]]
    BY <1>1, <1>4, <1>6, <1>15, ErrorQueue, Zenon
  <2>2. Fine(f, cl[f], sv[f], answers'[f], ran[f], freed'[f], Mix(f, torn, pool),
             {}, Of(s2c', f), "down", router)
    BY <2>1, DownFine, Zenon
  <2>3. Types' /\ AllFine'  BY <1>4, <1>8, <1>11, <1>15, <2>1, <2>2, DownStep, Zenon
  <2>4. Queues'  BY <1>12, <1>15, <2>1, Zenon DEF Queues
  <2> QED  BY <1>9, <2>3, <2>4, Zenon DEF RequestsInv
<1>16. CASE /\ c2s' = p /\ sv' = [sv EXCEPT ![f].pc = "handle", ![f].req = m]
            /\ UNCHANGED <<conn, s2c, lost, answers, freed>>
  <2>1. PICK y : y = [sv[f] EXCEPT !.pc = "handle", !.req = m]  BY Zenon
  <2>2. sv' = [sv EXCEPT ![f] = y] /\ sv'[f] = y  BY <1>4, <1>11, <1>16, <2>1, Zenon DEF Types
  <2>3. Fine(f, cl[f], y, answers[f], ran[f], freed[f], Mix(f, torn, pool), {}, Of(s2c, f), Line(f, conn, lost), router)
    <3>1. m \in Of(c2s, f)  BY <1>6, Zenon
    <3> QED  BY ONLY <1>10, <2>1, <3>1, TakeFine, Zenon
  <2>4. Touches(f) /\ Ends(f)
    BY <1>4, <1>6, <1>7, <1>8, <1>11, <1>16, <2>2, <2>3, Same, Zenon DEF Touches, Ends
  <2>5. Types' /\ AllFine'  BY <1>4, <1>11, <2>4, TouchStep, Zenon
  <2>6. Queues'  BY <1>3, <1>4, <1>6, <1>11, <1>16, Zenon DEF Queues
  <2> QED  BY <1>9, <2>5, <2>6, Zenon DEF RequestsInv
<1> QED  BY <1>2, <1>13, <1>14, <1>15, <1>16, Zenon DEF Read

LEMMA InputEndsStep ==
  ASSUME RequestsInv, InputEnds
  PROVE  RequestsInv'
<1>1. /\ cl' = [f \in Flows |-> IF cl[f].pc = "wait" /\ cl[f].ask.front = "irpc"
                                THEN [cl[f] EXCEPT !.pc = "done", !.out = "conn"] ELSE cl[f]]
      /\ conn' = "down" /\ c2s' = <<>> /\ s2c' = <<>>
      /\ UNCHANGED <<sv, torn, router, pool, argPool, replyPool, answers, ran, freed>>
  BY Zenon DEF InputEnds, setupVars, poolVars, histVars
<1>2. ASSUME NEW f \in Flows
      PROVE  /\ Fine(f, cl'[f], sv'[f], answers'[f], ran'[f], freed'[f], Mix(f, torn', pool'),
                     Of(c2s', f), Of(s2c', f), Line(f, conn', lost'), router')
             /\ cl'[f] \in Callers
  <2>1. Fine(f, cl[f], sv[f], answers[f], ran[f], freed[f], Mix(f, torn, pool),
             Of(c2s, f), Of(s2c, f), Line(f, conn, lost), router)
    BY Before, Zenon
  <2>2. Fine(f, cl[f], sv[f], answers[f], ran[f], freed[f], Mix(f, torn, pool),
             {}, Of(s2c, f), "down", router)
    BY ONLY <2>1, DownFine, Zenon
  <2>3. Fine(f, cl[f], sv[f], answers[f], ran[f], freed[f], Mix(f, torn, pool),
             {}, {}, "down", router)
    <3>1. {} \subseteq Of(s2c, f) /\ ("down" = "down" \/ ~(cl[f].pc = "wait" /\ cl[f].ask.front = "irpc"))
      BY Zenon
    <3> QED  BY ONLY <2>2, <3>1, DropFine, Zenon
  <2>4. PICK x : x = cl'[f]  BY Zenon
  <2>5. Fine(f, x, sv[f], answers[f], ran[f], freed[f], Mix(f, torn, pool),
             {}, {}, "down", router)
    <3>1. CASE cl[f].pc = "wait" /\ cl[f].ask.front = "irpc"
      <4>1. x = [cl[f] EXCEPT !.pc = "done", !.out = "conn"]  BY <1>1, <2>4, <3>1, Zenon
      <4> QED  BY ONLY <2>3, <3>1, <4>1, EndFine, Zenon
    <3>2. CASE ~(cl[f].pc = "wait" /\ cl[f].ask.front = "irpc")
      <4>1. x = cl[f]  BY <1>1, <2>4, <3>2, Zenon
      <4> QED  BY <2>3, <4>1, Zenon
    <3> QED  BY <3>1, <3>2, Zenon
  <2>6. Of(c2s', f) = {} /\ Of(s2c', f) = {} /\ Line(f, conn', lost') = "down"
    BY <1>1, OfEmpty, Zenon DEF Line
  <2>7. x \in Callers  BY <2>5, Zenon DEF Fine, Bounded
  <2> QED  BY <1>1, <2>4, <2>5, <2>6, <2>7, Zenon
<1>3. Types'
  <2>1. cl' \in [Flows -> Callers]  BY <1>1, <1>2, Zenon
  <2> QED  BY <1>1, <2>1, Zenon DEF RequestsInv, Types
<1>4. AllFine'  BY <1>2, Zenon DEF AllFine
<1>5. Queues'
  <2>1. <<>> \in Seq(Msgs) /\ Distinct(<<>>) /\ Addressed(<<>>)  BY DEF Distinct, Addressed
  <2> QED  BY <1>1, <2>1, Zenon DEF Queues
<1>6. PoolsClean'  BY <1>1, Zenon DEF RequestsInv, PoolsClean
<1> QED  BY <1>3, <1>4, <1>5, <1>6, Zenon DEF RequestsInv

LEMMA SetupStep ==
  ASSUME RequestsInv, MaySetup
  PROVE  RequestsInv'
<1>1. /\ UNCHANGED <<cl, sv, torn, pool, argPool, replyPool, answers, ran, freed, c2s, s2c, conn, lost>>
      /\ \A f \in Flows : cl[f].pc = "new"
  BY Zenon DEF MaySetup, poolVars, wireVars, histVars
<1>2. ASSUME NEW f \in Flows
      PROVE  Fine(f, cl'[f], sv'[f], answers'[f], ran'[f], freed'[f], Mix(f, torn', pool'),
                  Of(c2s', f), Of(s2c', f), Line(f, conn', lost'), router')
  <2>1. Fine(f, cl[f], sv[f], answers[f], ran[f], freed[f], Mix(f, torn, pool),
             Of(c2s, f), Of(s2c, f), Line(f, conn, lost), router)
    BY Before, Zenon
  <2>2. PICK rs : rs = router'  BY Zenon
  <2>3. cl[f].pc = "new"  BY <1>1, Zenon
  <2>4. Fine(f, cl[f], sv[f], answers[f], ran[f], freed[f], Mix(f, torn, pool),
             Of(c2s, f), Of(s2c, f), Line(f, conn, lost), rs)
    BY ONLY <2>1, <2>3, SetupFine, Zenon
  <2> QED  BY <1>1, <2>2, <2>4, Zenon
<1>3. AllFine'  BY <1>2, Zenon DEF AllFine
<1>4. Types' /\ Queues' /\ PoolsClean'  BY <1>1, Zenon DEF RequestsInv, Types, Queues, PoolsClean
<1> QED  BY <1>3, <1>4, Zenon DEF RequestsInv

LEMMA RequestsInit == Init => RequestsInv
<1> SUFFICES ASSUME Init PROVE RequestsInv
  BY Zenon
<1>1. PICK u : u = [pc |-> "new", ask |-> NoAsk, req |-> NoMsg, out |-> "none", got |-> NoPayload]
  BY Zenon
<1>2. PICK v : v = [pc |-> "no", req |-> NoMsg, res |-> NoMsg, err |-> FALSE, args |-> {},
                    back |-> "done"]
  BY Zenon
<1>3. u \in Callers /\ v \in Servers  BY <1>1, <1>2, NothingTyped, Zenon DEF Callers, Servers
<1>4. /\ cl = [f \in Flows |-> u] /\ sv = [f \in Flows |-> v] /\ c2s = <<>> /\ s2c = <<>>
      /\ answers = [f \in Flows |-> 0] /\ ran = [f \in Flows |-> "no"] /\ freed = [f \in Flows |-> 0]
      /\ torn = {} /\ pool \in Pools /\ argPool = {} /\ replyPool = {} /\ conn = "up"
  BY <1>1, <1>2, Zenon DEF Init
<1>5. Types  BY <1>3, <1>4, Zenon DEF Types, Runs
<1>6. Queues  BY <1>4 DEF Queues, Distinct, Addressed
<1>7. PoolsClean  BY <1>4, Zenon DEF PoolsClean, Emptied
<1>8. ASSUME NEW f \in Flows
      PROVE  Fine(f, cl[f], sv[f], answers[f], ran[f], freed[f], Mix(f, torn, pool),
                  Of(c2s, f), Of(s2c, f), Line(f, conn, lost), router)
  <2>1. /\ cl[f] = u /\ sv[f] = v /\ answers[f] = 0 /\ ran[f] = "no" /\ freed[f] = 0
        /\ Of(c2s, f) = {} /\ Of(s2c, f) = {}
    BY <1>4, OfEmpty, Zenon
  <2>2. /\ u.pc = "new" /\ u.out = "none" /\ u.got = NoPayload /\ u.req = NoMsg
        /\ v.pc = "no" /\ v.back = "done" /\ v.args = {} /\ v.req = NoMsg /\ v.res = NoMsg
    BY <1>1, <1>2, Zenon
  <2>3. NoMsg.payload = NoPayload /\ NoPayload.of = {} /\ NoPayload.size = 0  BY Zenon DEF NoMsg, NoPayload
  <2>4. PICK M : M = Mix(f, torn, pool)  BY Zenon
  <2>5. Bounded(u, v, 0, "no", 0, {}, {})  BY <1>3, Zenon DEF Bounded, Runs
  <2>6. Asking(f, u, v, 0, 0, {}, {}, Line(f, conn, lost))  BY <2>2, Zenon DEF Asking
  <2>7. Serving(f, u.ask, v, 0, 0, router)
    <3>1. v.pc = "no" /\ v.back = "done"  BY <2>2, Zenon
    <3> QED  BY ONLY <3>1 DEF Serving, Working
  <2>8. Real(u, v, 0, "no", {}, router)  BY <2>2, Zenon DEF Real, Told
  <2>9. Clean(u, v, M, {}, {})  BY <2>2, <2>3, Zenon DEF Clean
  <2> QED  BY <2>1, <2>4, <2>5, <2>6, <2>7, <2>8, <2>9, Zenon DEF Fine
<1> QED  BY <1>5, <1>6, <1>7, <1>8, Zenon DEF RequestsInv, AllFine

LEMMA RequestsNext == RequestsInv /\ [Next]_vars => RequestsInv'
<1> SUFFICES ASSUME RequestsInv, [Next]_vars PROVE RequestsInv'
  BY Zenon
<1>1. CASE UNCHANGED vars
  <2>1. UNCHANGED <<cl, sv, torn, pool, argPool, replyPool, answers, ran, freed, c2s, s2c, conn, lost, router>>
    BY <1>1, Zenon DEF vars, setupVars, poolVars, wireVars, histVars
  <2>2. Types' /\ Queues' /\ PoolsClean'  BY <2>1, Zenon DEF RequestsInv, Types, Queues, PoolsClean
  <2>3. AllFine'  BY <2>1, Zenon DEF RequestsInv, AllFine
  <2> QED  BY <2>2, <2>3, Zenon DEF RequestsInv
<1>2. CASE Setup
  <2>1. MaySetup  BY <1>2, Zenon DEF Setup, RegisterName, RegisterFunctionName, AddHandler
  <2> QED  BY <2>1, SetupStep, Zenon
<1>3. ASSUME NEW f \in Flows, NEW k \in Asks[f], Send(f, k) \/ GatewayRequest(f, k) \/ JSONRPC(f, k)
      PROVE  RequestsInv'
  BY <1>3, SendStep, GatewayRequestStep, JSONRPCStep, Zenon
<1>4. ASSUME NEW f \in Flows, WriteRequest(f)  PROVE RequestsInv'
  BY <1>4, WriteRequestStep, Zenon
<1>5. ASSUME NEW f \in Flows, ServerStep(f)  PROVE RequestsInv'
  BY <1>5, HeartbeatStep, NotFoundStep, DecodeStep, CallServiceStep, PanicsStep, SendResponseStep,
     WriteResponseStep, NoResponseStep, HandlerStep, ContextWriteStep, WriteErrorStep,
     GatewayAnswerStep, Zenon DEF ServerStep
<1>6. CASE Read  BY <1>6, ReadStep, Zenon
<1>7. CASE Receive  BY <1>7, ReceiveStep, Zenon
<1>8. CASE InputEnds  BY <1>8, InputEndsStep, Zenon
<1> QED  BY <1>1, <1>2, <1>3, <1>4, <1>5, <1>6, <1>7, <1>8, Zenon DEF Next

\* In every reachable state of every instance each request is Fine.
THEOREM RequestsInvariance == Spec => []RequestsInv
BY RequestsInit, RequestsNext, PTL DEF Spec
-----------------------------------------------------------------------------
(* What it implies *)

\* A request goes back to the pool of messages at most once, and not while the
\* server works on it (FreeMsg in serveConn and handleError).
THEOREM RequestsFreedOnce == Spec => []FreedOnce
<1>1. RequestsInv => FreedOnce
  <2> SUFFICES ASSUME RequestsInv, NEW f \in Flows
               PROVE  /\ freed[f] <= 1
                      /\ sv[f].pc \in {"handle", "call", "reply", "write", "routed"} => freed[f] = 0
    BY Zenon DEF FreedOnce
  <2>1. Serving(f, cl[f].ask, sv[f], answers[f], freed[f], router)  BY Before, Zenon DEF Fine
  <2> QED  BY <2>1, Zenon DEF Serving, Working
<1> QED  BY <1>1, RequestsInvariance, PTL

\* handleRequest and the end of serveConn's goroutine answer a request exactly
\* once, a one-way request never, and nobody answers before them.
THEOREM RequestsAnsweredOnce == Spec => []OneAnswer
<1>1. RequestsInv => OneAnswer
  <2> SUFFICES ASSUME RequestsInv, NEW f \in Flows
               PROVE  /\ Finished(f) =>
                           answers[f] = IF IsOneway(sv[f].req.h2) /\ ~FromGateway(f) THEN 0 ELSE 1
                      /\ sv[f].pc \in {"handle", "call"} => answers[f] = 0
    BY Zenon DEF OneAnswer
  <2>1. Serving(f, cl[f].ask, sv[f], answers[f], freed[f], router)  BY Before, Zenon DEF Fine
  <2>2. sv[f].pc \in {"handle", "call"} => answers[f] = 0  BY <2>1, Zenon DEF Serving
  <2>3. ASSUME Finished(f)
        PROVE  answers[f] = IF IsOneway(sv[f].req.h2) /\ ~FromGateway(f) THEN 0 ELSE 1
    <3>1. sv[f].pc = "done" /\ ~Routed(f)  BY <2>3, Zenon DEF Finished
    <3>2. /\ IsOneway(sv[f].req.h2) <=> cl[f].ask.oneway
          /\ Routed(f) <=> ByRoute(cl[f].ask, router)
      BY <3>1, Requested, Zenon
    <3>3. answers[f] = IF cl[f].ask.oneway /\ cl[f].ask.front # "http" THEN 0 ELSE 1
      BY <2>1, <3>1, <3>2, Zenon DEF Serving
    <3> QED  BY <3>2, <3>3, Zenon DEF FromGateway
  <2> QED  BY <2>2, <2>3, Zenon
<1> QED  BY <1>1, RequestsInvariance, PTL

\* Who is told that all is well had the service run for this request, and who is
\* told of an error did not have it end well, but for the err that handleRequest
\* does not put into the response, for a method whose reply replaces its error, for
\* a 200 with an error among the metadata and for a reply that cannot be decoded
\* (handleRequest, Client.input, the gateway).
THEOREM RequestsOutcomesReal == Spec => []OutcomeIsReal
<1>1. RequestsInv => OutcomeIsReal
  <2> SUFFICES ASSUME RequestsInv, NEW f \in Flows, ~Routed(f), sv[f].pc = "done",
                      ~IsHeartbeat(sv[f].req.h2)
               PROVE  /\ cl[f].out = "nil" /\ ~IsOneway(sv[f].req.h2) =>
                           ran[f] \in {"ok", "method"} \/ sv[f].err
                      /\ cl[f].out = "200" =>
                           ran[f] \in {"ok", "method"} \/ MessageStatusType(sv[f].res.h2) = Error
                      /\ cl[f].out = "ServiceError" => ran[f] # "ok" \/ sv[f].err \/ cl[f].got.size > 0
    BY Zenon DEF OutcomeIsReal
  <2>1. Real(cl[f], sv[f], answers[f], ran[f], Of(s2c, f), router)  BY Before, Zenon DEF Fine
  <2>2. ~ByRoute(cl[f].ask, router) /\ (IsOneway(sv[f].req.h2) <=> cl[f].ask.oneway)
    BY Requested, Zenon
  <2>3. Done(FALSE, ran[f]) => ran[f] \in {"ok", "method"}  BY Zenon DEF Done
  <2>4. cl[f].out = "200" => Tells(sv[f].res, FALSE, ran[f])  BY <2>1, Zenon DEF Real
  <2> QED  BY <2>1, <2>2, <2>3, <2>4, Zenon DEF Real, Special, Done, Tells
<1> QED  BY <1>1, RequestsInvariance, PTL

\* A caller gets only what belongs to its request, unless a gzip buffer was taken
\* by another Zip or a pooled object was not Reset.
THEOREM RequestsKeptApart == Spec => []NoForeignData
<1>1. RequestsInv => NoForeignData
  <2> SUFFICES ASSUME RequestsInv, NEW f \in Flows
               PROVE  cl[f].got.of \subseteq {f} \/ f \in torn \/ (pool.use /\ ~pool.reset)
    BY Zenon DEF NoForeignData
  <2>1. cl[f].got.of \subseteq Mix(f, torn, pool)  BY Before, Zenon DEF Fine, Clean
  <2> QED  BY <2>1, Zenon DEF Mix, Leaky
<1> QED  BY <1>1, RequestsInvariance, PTL

\* On a connection that is up, whoever waits has a request or a response on the
\* way or the server at work on it, but for a silent handler of AddHandler, a
\* goroutine ended by a panic and a response whose Write failed.
THEOREM RequestsNotForgotten == Spec => []NobodyForgotten
<1>1. RequestsInv => NobodyForgotten
  <2> SUFFICES ASSUME RequestsInv, NEW f \in Flows, cl[f].pc = "wait", conn = "up",
                      sv[f].pc \in {"no", "done"}, f \notin lost
               PROVE  \/ \E i \in DOMAIN c2s : c2s[i].seq = f
                      \/ \E i \in DOMAIN s2c : s2c[i].seq = f
                      \/ Routed(f) /\ answers[f] = 0
    BY Zenon DEF NobodyForgotten
  <2>0. Line(f, conn, lost) = "up"  BY Zenon DEF Line
  <2>1. /\ Asking(f, cl[f], sv[f], answers[f], freed[f], Of(c2s, f), Of(s2c, f), "up")
        /\ Serving(f, cl[f].ask, sv[f], answers[f], freed[f], router)
        /\ answers[f] \in Nat
    BY <2>0, Before, Zenon DEF Fine, Bounded
  <2>2. /\ cl[f].ask.front = "irpc" /\ ~cl[f].ask.oneway
        /\ answers[f] > 0 => Of(s2c, f) # {}
        /\ sv[f].pc = "no" => Of(c2s, f) # {} \/ answers[f] > 0
    BY <2>1, Zenon DEF Asking
  <2>3. Of(c2s, f) # {} => \E i \in DOMAIN c2s : c2s[i].seq = f  BY Zenon DEF Of
  <2>4. Of(s2c, f) # {} => \E i \in DOMAIN s2c : s2c[i].seq = f  BY Zenon DEF Of
  <2>5. CASE sv[f].pc = "no"  BY <2>2, <2>3, <2>4, <2>5, Zenon
  <2>6. CASE sv[f].pc = "done"
    <3>1. Routed(f) <=> ByRoute(cl[f].ask, router)  BY <2>6, Requested, Zenon
    <3>2. ~ByRoute(cl[f].ask, router) => answers[f] = 1  BY <2>1, <2>2, <2>6, Zenon DEF Serving
    <3>3. CASE answers[f] > 0  BY <2>2, <2>4, <3>3, Zenon
    <3>4. CASE answers[f] = 0
      <4>1. answers[f] # 1  BY <3>4
      <4> QED  BY <3>1, <3>2, <3>4, <4>1, Zenon
    <3>5. answers[f] > 0 \/ answers[f] = 0
      <4>1. answers[f] \in Nat  BY <2>1, Zenon
      <4> QED  BY ONLY <4>1
    <3> QED  BY <3>3, <3>4, <3>5, Zenon
  <2> QED  BY <2>5, <2>6, Zenon
<1> QED  BY <1>1, RequestsInvariance, PTL
-----------------------------------------------------------------------------
(* Registration *)

\* What was published is in the service of its path, and a service with a method
\* or a function has a kind.
Registered ==
  /\ serviceMap \in [Paths -> [kind : {"none", "method", "function"}, names : SUBSET Names]]
  /\ \A t \in published : t[1] \in Paths /\ t[2] \in serviceMap[t[1]].names
  /\ \A p \in Paths : serviceMap[p].names # {} => serviceMap[p].kind # "none"

LEMMA RegisterStep ==
  ASSUME Registered, NEW p \in Paths, NEW s, NEW old, NEW new,
         s \in [kind : {"method", "function"}, names : SUBSET Names],
         old \subseteq published, new \subseteq s.names,
         \A t \in old : t[1] = p => t[2] \in s.names,
         serviceMap' = [serviceMap EXCEPT ![p] = s], DoRegister(p, old, new)
  PROVE  Registered'
<1>1. serviceMap'[p] = s /\ \A q \in Paths \ {p} : serviceMap'[q] = serviceMap[q]
  BY Zenon DEF Registered
<1>2. serviceMap' \in [Paths -> [kind : {"none", "method", "function"}, names : SUBSET Names]]
  BY Zenon DEF Registered
<1>3. ASSUME NEW t \in published'  PROVE t[1] \in Paths /\ t[2] \in serviceMap'[t[1]].names
  <2>1. t \in old \/ \E n \in new : t = <<p, n>>  BY <1>3, Zenon DEF DoRegister
  <2>2. CASE t \in old  BY <1>1, <2>2, Zenon DEF Registered
  <2>3. CASE \E n \in new : t = <<p, n>>  BY <1>1, <2>3
  <2> QED  BY <2>1, <2>2, <2>3, Zenon
<1>4. ASSUME NEW q \in Paths, serviceMap'[q].names # {}  PROVE serviceMap'[q].kind # "none"
  BY <1>1, <1>4, Zenon DEF Registered
<1> QED  BY <1>2, <1>3, <1>4, Zenon DEF Registered

\* What a plugin was told is published is found by handleRequest, also after more
\* registrations, until Register replaces the service of that path.
THEOREM RequestsPublishedFound == Spec => []PublishedIsFound
<1>1. Init => Registered
  <2>1. NoService \in [kind : {"none", "method", "function"}, names : SUBSET Names] /\ NoService.names = {}
    BY Zenon DEF NoService
  <2>2. Init => serviceMap = [p \in Paths |-> NoService] /\ published = {}  BY Zenon DEF Init
  <2> QED  BY <2>1, <2>2, Zenon DEF Registered
<1>2. Registered /\ [Next]_vars => Registered'
  <2> SUFFICES ASSUME Registered, [Next]_vars PROVE Registered'
    BY Zenon
  <2>1. CASE UNCHANGED <<serviceMap, published>>  BY <2>1, Zenon DEF Registered
  <2>2. ASSUME NEW p \in Paths \cup {""}, NEW receiver \in [Names -> BOOLEAN],
               NEW useName \in BOOLEAN, NEW exported \in BOOLEAN,
               RegisterName(p, receiver, useName, exported)
        PROVE  Registered'
    <3> DEFINE ms == suitableMethods(receiver)
               s == [kind |-> "method", names |-> ms]
               old == {t \in published : t[1] # p}
    <3>1. ms \subseteq Names  BY Zenon DEF suitableMethods
    <3>2. CASE ms = {} \/ ~checkServiceName(p, useName, exported)
      BY <2>1, <2>2, <3>2, Zenon DEF RegisterName
    <3>3. CASE ms # {} /\ checkServiceName(p, useName, exported)
      <4>1. p \in Paths  BY <3>3, Zenon DEF checkServiceName
      <4>2. serviceMap' = [serviceMap EXCEPT ![p] = s] /\ DoRegister(p, old, ms)
        BY <2>2, <3>3, Zenon DEF RegisterName
      <4>3. /\ s \in [kind : {"method", "function"}, names : SUBSET Names]
            /\ old \subseteq published /\ ms \subseteq s.names
            /\ \A t \in old : t[1] = p => t[2] \in s.names
        BY <3>1, Zenon
      <4> HIDE DEF ms, s, old
      <4> QED  BY <4>1, <4>2, <4>3, RegisterStep, Zenon
    <3> QED  BY <3>2, <3>3, Zenon
  <2>3. ASSUME NEW p \in Paths, NEW name \in Names, NEW b \in BOOLEAN,
               RegisterFunctionName(p, name, b)
        PROVE  Registered'
    <3> DEFINE s == WithFunction(serviceMap[p], name)
    <3>1. CASE UNCHANGED <<serviceMap, published>>  BY <2>1, <3>1, Zenon
    <3>2. CASE serviceMap' = [serviceMap EXCEPT ![p] = s] /\ DoRegister(p, published, {name})
      <4>1. /\ s \in [kind : {"method", "function"}, names : SUBSET Names]
            /\ {name} \subseteq s.names
        BY Zenon DEF WithFunction, Registered
      <4>2. \A t \in published : t[1] = p => t[2] \in s.names
        BY Zenon DEF WithFunction, Registered
      <4> HIDE DEF s
      <4> QED  BY <3>2, <4>1, <4>2, RegisterStep, Zenon
    <3> QED  BY <2>3, <3>1, <3>2, Zenon DEF RegisterFunctionName
  <2>4. CASE Setup  BY <2>1, <2>2, <2>3, <2>4, Zenon DEF Setup, AddHandler
  <2>5. CASE ~Setup
    <3>1. ASSUME NEW f \in Flows, NEW k \in Asks[f], Send(f, k) \/ GatewayRequest(f, k) \/ JSONRPC(f, k)
          PROVE  UNCHANGED setupVars
      BY <3>1, Zenon DEF Send, GatewayRequest, JSONRPC, setupVars
    <3>2. ASSUME NEW f \in Flows, ServerStep(f)  PROVE UNCHANGED setupVars
      <4>1. CASE Heartbeat(f) \/ NotFound(f) \/ Decode(f)
        BY <4>1, Zenon DEF Heartbeat, NotFound, Decode, setupVars
      <4>2. CASE CallService(f) \/ Panics(f) \/ sendResponse(f)
        BY <4>2, Zenon DEF CallService, Panics, sendResponse, setupVars
      <4>3. CASE writeResponse(f) \/ NoResponse(f) \/ Handler(f)
        BY <4>3, Zenon DEF writeResponse, NoResponse, Handler, setupVars
      <4>4. CASE ContextWrite(f) \/ WriteError(f) \/ HandlerReturns(f) \/ GatewayAnswer(f)
        BY <4>4, Zenon DEF ContextWrite, WriteError, HandlerReturns, GatewayAnswer, setupVars
      <4> QED  BY <3>2, <4>1, <4>2, <4>3, <4>4, Zenon DEF ServerStep
    <3>3. ASSUME NEW f \in Flows, WriteRequest(f)  PROVE UNCHANGED setupVars
      BY <3>3, Zenon DEF WriteRequest, setupVars
    <3>4. ASSUME Read \/ Receive \/ InputEnds \/ UNCHANGED vars  PROVE UNCHANGED setupVars
      BY <3>4, Zenon DEF Read, Receive, InputEnds, vars, setupVars
    <3>5. UNCHANGED setupVars  BY <2>5, <3>1, <3>2, <3>3, <3>4, Zenon DEF Next
    <3> QED  BY <2>1, <3>5, Zenon DEF setupVars
  <2> QED  BY <2>4, <2>5, Zenon
<1>3. Registered => PublishedIsFound  BY Zenon DEF Registered, PublishedIsFound, Lookup
<1> QED  BY <1>1, <1>2, <1>3, PTL DEF Spec
=============================================================================
