----------------------------- MODULE RpcClient -----------------------------
(***************************************************************************)
(* One connection of the client package (client/client.go,                 *)
(* client/client_call.go): the goroutines that call Call, Go and SendRaw,  *)
(* the input goroutine that reads replies, the heartbeat goroutine and the *)
(* users of Close, all sharing client.pending under client.mutex.          *)
(*                                                                         *)
(* A critical section of client.mutex never blocks, so it is one step.     *)
(* What the code does between two critical sections is a step of its own,  *)
(* except the assignments to a Call that only the step's goroutine can     *)
(* still reach.  The peer and the network are external: requests wait in   *)
(* wire, replies in inbox, and the peer answers in any order.              *)
(***************************************************************************)
EXTENDS Integers, FiniteSets

CONSTANTS
  SyncCalls,     \* invocations of Client.Call
  AsyncCalls,    \* invocations of Client.Go with a done channel of the user
  BeatCalls,     \* the invocations of Client.Call made by heartbeat
  RawCalls,      \* invocations of Client.SendRaw
  OneWay,        \* the calls with Reply == nil, the raw messages with IsOneway
  Unencodable,   \* the calls whose Args the codec may refuse to encode
  NoCodec,       \* the calls that may come before RegisterCodec made
                 \* option.SerializeType known to share.Codecs
  RawSeq,        \* the sequence number the user gave to each raw message
  MaxSeq,        \* bound of client.seq
  GoCap,         \* capacity of the done channel of Go and SendRaw
  Closers,       \* goroutines of the user that call Close, once each
  HasChan,       \* the user registered a ServerMessageChan
  ChanCap,       \* capacity of ServerMessageChan
  MaxPush,       \* bound of the one-way requests the server pushes
  BidirectionalBlock,   \* the option of that name
  NoCall         \* no call

Calls == SyncCalls \cup AsyncCalls \cup BeatCalls \cup RawCalls

\* The sequence numbers a message can carry.
Seqs == 0..MaxSeq \cup {RawSeq[c] : c \in RawCalls}

ASSUME CallKinds ==
  /\ SyncCalls \cap (AsyncCalls \cup BeatCalls \cup RawCalls) = {}
  /\ AsyncCalls \cap (BeatCalls \cup RawCalls) = {}
  /\ BeatCalls \cap RawCalls = {}
  /\ OneWay \subseteq SyncCalls \cup AsyncCalls \cup RawCalls
  /\ Unencodable \subseteq SyncCalls \cup AsyncCalls
  /\ NoCodec \subseteq SyncCalls \cup AsyncCalls   \* heartbeats use MsgPack
  /\ NoCall \notin Calls
ASSUME Bounds ==
  /\ MaxSeq \in Nat
  /\ GoCap \in Nat \ {0}
  /\ ChanCap \in Nat
  /\ MaxPush \in Nat
  /\ HasChan \in BOOLEAN /\ BidirectionalBlock \in BOOLEAN
  /\ RawSeq \in [RawCalls -> Nat]

\* No raw message carries a number that client.seq hands out or another raw
\* message carries.  Nothing in the code ensures it: SendRaw trusts its user.
RawSeqsFresh ==
  /\ \A c \in RawCalls : RawSeq[c] \notin 0..MaxSeq
  /\ \A c, d \in RawCalls : RawSeq[c] = RawSeq[d] => c = d

VARIABLES
  seq, pending, closing, shutdown, pluginClosed,  \* under client.mutex
  conn,        \* "up", "eof" (the peer is gone) or "closed" (Conn.Close)
  crashed,     \* the process died of a fatal error
  pc, mySeq, ctxSeq, err, reply, done, ret,       \* of each call
  pool, msg, bit,      \* protocol.msgPool: free messages, who uses which,
                       \* and the one-way bit of their headers
  wire, inbox, pushes, \* in flight: requests, replies, server messages
  inPc, cur, res, inErr,      \* the input goroutine
  registered,                 \* ServerMessageChan # nil
  chan, chanLen,              \* the channel of the user
  hbPc, hbCall,               \* the heartbeat goroutine
  closers,                    \* users that have not called Close yet
  pluginCalls                 \* how often DoClientConnectionClose ran

lockVars  == <<seq, pending, closing, shutdown, pluginClosed>>
callVars  == <<pc, mySeq, ctxSeq, err, reply, done, ret>>
poolVars  == <<pool, msg, bit>>
netVars   == <<conn, wire, inbox, pushes>>
inputVars == <<inPc, cur, res, inErr>>
chanVars  == <<registered, chan, chanLen>>
hbVars    == <<hbPc, hbCall>>
userVars  == <<closers, pluginCalls>>
vars == <<lockVars, callVars, poolVars, netVars, inputVars, chanVars, hbVars,
          userVars, crashed>>

\* What a goroutine in Call, Go or SendRaw never changes itself.
notCaller == <<closing, shutdown, pluginClosed, conn, inbox, pushes, inputVars,
               chanVars, hbVars, userVars, crashed>>
\* What the peer, the input goroutine and the user's channel leave alone.
notInput == <<poolVars, hbVars, closers, crashed>>

Errors == {"nil", "ErrShutdown", "ErrUnsupportedCodec", "encode", "write",
           "ctx", "ServiceError", "ErrUnexpectedEOF", "io", "decode"}
Results == {"normal", "error", "undecodable", "unknownCodec"}
Requests == [seq : Seqs, call : Calls, oneway : BOOLEAN]
Replies  == [seq : Seqs, call : Calls, st : Results]
NoReply  == [seq |-> 0, call |-> NoCall, st |-> "normal"]

\* The capacity of call.Done: Call makes a channel of one.
DoneCap(c) == IF c \in SyncCalls \cup BeatCalls THEN 1 ELSE GoCap

TypeOK ==
  /\ seq \in 0..MaxSeq + 1
  /\ pending \in [Seqs -> Calls \cup {NoCall}]
  /\ closing \in BOOLEAN /\ shutdown \in BOOLEAN /\ pluginClosed \in BOOLEAN
  /\ conn \in {"up", "eof", "closed"}
  /\ crashed \in BOOLEAN
  /\ pc \in [Calls -> {"idle", "encode", "encfail", "write", "wfail", "free",
                       "check", "oneway", "sent", "end"}]
  /\ mySeq \in [Calls -> Seqs \cup {-1}]
  /\ ctxSeq \in [Calls -> Seqs]
  /\ err \in [Calls -> Errors]
  /\ reply \in [Calls -> Calls \cup {NoCall}]
  /\ done \in [Calls -> Nat] /\ \A c \in Calls : done[c] <= DoneCap(c)
  /\ ret \in [Calls -> Errors \cup {"none"}]
  /\ pool \subseteq Calls
  /\ msg \in [Calls -> Calls]
  /\ bit \in [Calls -> BOOLEAN]
  /\ wire \subseteq Requests
  /\ inbox \subseteq Replies
  /\ pushes \in 0..MaxPush
  /\ inPc \in {"read", "deliver", "push", "pushSend", "notify", "notifySend",
               "stop", "exited"}
  /\ cur \in Calls \cup {NoCall}
  /\ res \in Replies \cup {NoReply}
  /\ inErr \in {"nil", "EOF", "io", "decode"}
  /\ registered \in BOOLEAN
  /\ chan \in {"open", "closed"}
  /\ chanLen \in 0..ChanCap
  /\ hbPc \in {"tick", "isClosing", "call", "close", "exited"}
  /\ hbCall \in BeatCalls \cup {NoCall}
  /\ closers \subseteq Closers
  /\ pluginCalls \in Nat

\* Connect has dialled and started input and, if the option is set, heartbeat.
Init ==
  /\ seq = 0
  /\ pending = [s \in Seqs |-> NoCall]
  /\ closing = FALSE /\ shutdown = FALSE /\ pluginClosed = FALSE
  /\ conn = "up"
  /\ crashed = FALSE
  /\ pc = [c \in Calls |-> "idle"]
  /\ mySeq = [c \in Calls |-> -1]      \* no number yet
  /\ ctxSeq = [c \in Calls |-> 0]
  /\ err = [c \in Calls |-> "nil"]
  /\ reply = [c \in Calls |-> NoCall]
  /\ done = [c \in Calls |-> 0]
  /\ ret = [c \in Calls |-> "none"]
  /\ pool = {}
  /\ msg = [c \in Calls |-> c]
  /\ bit = [c \in Calls |-> FALSE]
  /\ wire = {} /\ inbox = {} /\ pushes = MaxPush
  /\ inPc = "read" /\ cur = NoCall /\ res = NoReply /\ inErr = "nil"
  /\ registered = HasChan /\ chan = "open" /\ chanLen = 0
  /\ hbPc = IF BeatCalls = {} THEN "exited" ELSE "tick"
  /\ hbCall = NoCall
  /\ closers = Closers
  /\ pluginCalls = 0
-----------------------------------------------------------------------------
\* Call.done: a send on call.Done that is dropped when the channel is full.
Signalled(S) ==
  [c \in Calls |-> IF c \in S /\ done[c] < DoneCap(c) THEN done[c] + 1 ELSE done[c]]

\* Mutant: call.done() without the assignment to call.Error.
CompleteWithoutError(s, e) ==
  /\ pending' = [pending EXCEPT ![s] = NoCall]
  /\ done' = Signalled({pending[s]})
  /\ UNCHANGED err

\* call := pending[s]; delete(pending, s); if call != nil { call.Error = e; call.done() }
Complete(s, e) ==
  /\ pending' = [pending EXCEPT ![s] = NoCall]
  /\ err' = IF pending[s] = NoCall THEN err ELSE [err EXCEPT ![pending[s]] = e]
  /\ done' = Signalled({pending[s]})

\* Mutant: the loop without call.done().
FailPendingSilently(e) ==
  LET left == {pending[s] : s \in Seqs} \ {NoCall}
  IN /\ err' = [c \in Calls |-> IF c \in left THEN e ELSE err[c]]
     /\ UNCHANGED done

\* for _, call := range client.pending { call.Error = e; call.done() }
FailPending(e) ==
  LET left == {pending[s] : s \in Seqs} \ {NoCall}
  IN /\ err' = [c \in Calls |-> IF c \in left THEN e ELSE err[c]]
     /\ done' = Signalled(left)

\* if !client.pluginClosed { Plugins.DoClientConnectionClose; pluginClosed = true }
ClosePlugin ==
  /\ pluginClosed' = TRUE
  /\ pluginCalls' = IF pluginClosed THEN pluginCalls ELSE pluginCalls + 1

\* client.seq++
NextSeq == seq + 1

Goto(c, l) == pc' = [pc EXCEPT ![c] = l]

\* A process that died of a fatal error takes no step.
Running == ~crashed

-----------------------------------------------------------------------------
(* Call, Go and send *)

\* The critical section at the head of send.  The calls of heartbeat start
\* when the heartbeat goroutine makes them.
Register(c) ==
  /\ Running
  /\ c \notin RawCalls
  /\ pc[c] = "idle"
  /\ c \in BeatCalls => hbPc = "call" /\ hbCall = c
  /\ \/ /\ shutdown \/ closing
        /\ err' = [err EXCEPT ![c] = "ErrShutdown"]
        /\ done' = Signalled({c})
        /\ Goto(c, "sent")
        /\ UNCHANGED <<seq, pending, mySeq>>
     \/ /\ ~shutdown /\ ~closing
        /\ c \in NoCodec
        /\ err' = [err EXCEPT ![c] = "ErrUnsupportedCodec"]
        /\ done' = Signalled({c})
        /\ Goto(c, "sent")
        /\ UNCHANGED <<seq, pending, mySeq>>
     \/ /\ ~shutdown /\ ~closing
        /\ seq <= MaxSeq
        /\ seq' = NextSeq
        /\ pending' = [pending EXCEPT ![seq] = c]
        /\ mySeq' = [mySeq EXCEPT ![c] = seq]
        /\ Goto(c, "encode")
        /\ UNCHANGED <<err, done>>
  /\ UNCHANGED <<ctxSeq, reply, ret, wire, notCaller, poolVars>>

\* Mutant: the message is freed before it is written.
TakeMsgAndFree(m) == pool' = pool \cup {m}

\* msgPool.Get takes the message out of the pool.
TakeMsg(m) == pool' = pool \ {m}

\* *ctxtSeq = seq (only Call put seqKey in the context); GetPooledMsg returns
\* a message that was freed before or a new one, which bears the name of the
\* first call it is used for; SetOneway; codec.Encode.
Encode(c) ==
  /\ Running
  /\ pc[c] = "encode"
  /\ ctxSeq' = [ctxSeq EXCEPT ![c] = mySeq[c]]
  /\ \E m \in pool \cup {c} :
       /\ TakeMsg(m)
       /\ msg' = [msg EXCEPT ![c] = m]
       /\ bit' = [bit EXCEPT ![m] = c \in OneWay]
  /\ \/ Goto(c, "write")
     \/ c \in Unencodable /\ Goto(c, "encfail")
  /\ UNCHANGED <<seq, pending, mySeq, err, reply, done, ret, wire, notCaller>>

\* The encoding error: the call is signalled whether or not it was pending,
\* and the message never goes back to the pool.
EncodeFail(c) ==
  /\ Running
  /\ pc[c] = "encfail"
  /\ pending' = [pending EXCEPT ![mySeq[c]] = NoCall]
  /\ err' = [err EXCEPT ![c] = "encode"]
  /\ done' = Signalled({c})
  /\ Goto(c, "sent")
  /\ UNCHANGED <<seq, mySeq, ctxSeq, reply, ret, wire, notCaller, poolVars>>

\* Conn.Write: it fails on a closed connection and may fail on any other.
Write(c) ==
  /\ Running
  /\ pc[c] = "write" /\ c \notin RawCalls
  /\ \/ /\ conn # "closed"
        /\ wire' = wire \cup {[seq |-> mySeq[c], call |-> c, oneway |-> bit[msg[c]]]}
        /\ Goto(c, "free")
     \/ /\ Goto(c, "wfail")
        /\ UNCHANGED wire
  /\ UNCHANGED <<seq, pending, mySeq, ctxSeq, err, reply, done, ret,
                 notCaller, poolVars>>

\* protocol.FreeMsg: Reset clears the header, then the message is pooled.
FreeMsg(c) ==
  /\ bit' = [bit EXCEPT ![msg[c]] = FALSE]
  /\ pool' = pool \cup {msg[c]}
  /\ UNCHANGED msg

WriteFail(c) ==
  /\ Running
  /\ pc[c] = "wfail" /\ c \notin RawCalls
  /\ Complete(mySeq[c], "write")
  /\ FreeMsg(c)
  /\ Goto(c, "sent")
  /\ UNCHANGED <<seq, mySeq, ctxSeq, reply, ret, wire, notCaller>>

Free(c) ==
  /\ Running
  /\ pc[c] = "free"
  /\ FreeMsg(c)
  /\ Goto(c, "check")
  /\ UNCHANGED <<seq, pending, mySeq, ctxSeq, err, reply, done, ret, wire,
                 notCaller>>

\* req.IsOneway() reads the header of the message after it was freed: it is
\* cleared, or already that of the call which took the message from the pool.
CheckOneway(c) ==
  /\ Running
  /\ pc[c] = "check"
  /\ IF bit[msg[c]]
     THEN /\ pending' = [pending EXCEPT ![mySeq[c]] = NoCall]
          /\ done' = Signalled({pending[mySeq[c]]})
     ELSE UNCHANGED <<pending, done>>
  /\ Goto(c, "sent")
  /\ UNCHANGED <<seq, mySeq, ctxSeq, err, reply, ret, wire, notCaller,
                 poolVars>>

\* The select of call: the context ends.  *seq is still 0 when send returned
\* before it registered the call.
Cancel(c) ==
  /\ Running
  /\ pc[c] = "sent" /\ c \in SyncCalls \cup BeatCalls
  /\ Complete(ctxSeq[c], "ctx")
  /\ ret' = [ret EXCEPT ![c] = "ctx"]
  /\ Goto(c, "end")
  /\ UNCHANGED <<seq, mySeq, ctxSeq, reply, wire, notCaller, poolVars>>

\* The select of call and of SendRaw: the call is done.
Return(c) ==
  /\ Running
  /\ pc[c] = "sent" /\ c \notin AsyncCalls
  /\ done[c] > 0
  /\ ret' = [ret EXCEPT ![c] = err[c]]
  /\ Goto(c, "end")
  /\ UNCHANGED <<seq, pending, mySeq, ctxSeq, err, reply, done, wire,
                 notCaller, poolVars>>
-----------------------------------------------------------------------------
(* SendRaw *)

\* Mutant: the raw call is registered under the client's own counter.
RawNumberOfClient(c) == seq

\* seq := r.Seq()
RawNumber(c) == RawSeq[c]

\* Neither shutdown nor closing is looked at, and an entry of another call
\* with the same number is overwritten.
RawRegister(c) ==
  /\ Running
  /\ c \in RawCalls
  /\ pc[c] = "idle"
  /\ pending' = [pending EXCEPT ![RawNumber(c)] = c]
  /\ mySeq' = [mySeq EXCEPT ![c] = RawNumber(c)]
  /\ Goto(c, "write")
  /\ UNCHANGED <<seq, ctxSeq, err, reply, done, ret, wire, notCaller,
                 poolVars>>

RawWrite(c) ==
  /\ Running
  /\ pc[c] = "write" /\ c \in RawCalls
  /\ \/ /\ conn # "closed"
        /\ wire' = wire \cup {[seq |-> mySeq[c], call |-> c, oneway |-> c \in OneWay]}
        /\ Goto(c, IF c \in OneWay THEN "oneway" ELSE "sent")
     \/ /\ Goto(c, "wfail")
        /\ UNCHANGED wire
  /\ UNCHANGED <<seq, pending, mySeq, ctxSeq, err, reply, done, ret,
                 notCaller, poolVars>>

RawWriteFail(c) ==
  /\ Running
  /\ pc[c] = "wfail" /\ c \in RawCalls
  /\ Complete(mySeq[c], "write")
  /\ ret' = [ret EXCEPT ![c] = "write"]
  /\ Goto(c, "end")
  /\ UNCHANGED <<seq, mySeq, ctxSeq, reply, wire, notCaller, poolVars>>

RawOneway(c) ==
  /\ Running
  /\ pc[c] = "oneway"
  /\ pending' = [pending EXCEPT ![mySeq[c]] = NoCall]
  /\ done' = Signalled({pending[mySeq[c]]})
  /\ ret' = [ret EXCEPT ![c] = "nil"]
  /\ Goto(c, "end")
  /\ UNCHANGED <<seq, mySeq, ctxSeq, err, reply, wire, notCaller, poolVars>>

RawCancel(c) ==
  /\ Running
  /\ pc[c] = "sent" /\ c \in RawCalls
  /\ Complete(mySeq[c], "ctx")
  /\ ret' = [ret EXCEPT ![c] = "ctx"]
  /\ Goto(c, "end")
  /\ UNCHANGED <<seq, mySeq, ctxSeq, reply, wire, notCaller, poolVars>>
-----------------------------------------------------------------------------
(* The peer and the network *)

\* The peer answers a request, in any order; it does not answer a one-way one.
\* A response with the status Error has metadata, as HandleError gives it.
Answer(r) ==
  /\ Running
  /\ r \in wire /\ conn = "up"
  /\ wire' = wire \ {r}
  /\ \/ /\ r.oneway
        /\ UNCHANGED inbox
     \/ /\ ~r.oneway
        /\ \E st \in Results :
             inbox' = inbox \cup {[seq |-> r.seq, call |-> r.call, st |-> st]}
  /\ UNCHANGED <<conn, pushes, pluginCalls, notInput, lockVars, callVars,
                 inputVars, chanVars>>

\* The peer closes the connection or becomes unreachable.
PeerGone ==
  /\ Running
  /\ conn = "up"
  /\ conn' = "eof"
  /\ UNCHANGED <<wire, inbox, pushes, pluginCalls, notInput, lockVars,
                 callVars, inputVars, chanVars>>
-----------------------------------------------------------------------------
(* The input goroutine *)

\* Mutant: the lookup without delete(client.pending, seq).
ReadReplyKeepingCall ==
  /\ Running
  /\ inPc = "read"
  /\ \E r \in inbox :
       /\ inbox' = inbox \ {r}
       /\ cur' = pending[r.seq]
       /\ res' = r
       /\ inPc' = IF pending[r.seq] = NoCall THEN "read" ELSE "deliver"
  /\ UNCHANGED <<conn, wire, pushes, inErr, pluginCalls, notInput, lockVars, callVars,
                 chanVars>>

\* res.Decode succeeds on a reply (bufio may hold it after the connection is
\* gone) and its call is taken out of pending.
ReadReply ==
  /\ Running
  /\ inPc = "read"
  /\ \E r \in inbox :
       /\ inbox' = inbox \ {r}
       /\ pending' = [pending EXCEPT ![r.seq] = NoCall]
       /\ cur' = pending[r.seq]
       /\ res' = r
       /\ inPc' = IF pending[r.seq] = NoCall THEN "read" ELSE "deliver"
  /\ UNCHANGED <<seq, closing, shutdown, pluginClosed, conn, wire, pushes,
                 inErr, pluginCalls, notInput, callVars, chanVars>>

\* The rest of the loop's switch: the call gets the payload, the metadata and
\* the status of the response, reply says whose.  A payload that does not decode leaves err
\* set, which ends the loop; the other failures are the call's alone.
Deliver ==
  /\ Running
  /\ inPc = "deliver"
  /\ LET raw == cur \in RawCalls
         bad == ~raw /\ \/ res.st = "undecodable"
                        \/ res.st = "normal" /\ cur \in OneWay   \* Reply is nil
     IN /\ err' = CASE res.st = "error" -> [err EXCEPT ![cur] = "ServiceError"]
                    [] ~raw /\ res.st = "unknownCodec" -> [err EXCEPT ![cur] = "ErrUnsupportedCodec"]
                    [] bad -> [err EXCEPT ![cur] = "decode"]
                    [] OTHER -> err
        /\ inErr' = IF bad THEN "decode" ELSE inErr
        /\ inPc' = IF bad THEN "notify" ELSE "read"
  /\ reply' = [reply EXCEPT ![cur] = res.call]
  /\ done' = Signalled({cur})
  /\ cur' = NoCall
  /\ res' = NoReply
  /\ UNCHANGED <<pc, mySeq, ctxSeq, ret, pluginCalls, notInput, lockVars,
                 netVars, chanVars>>

\* res.Decode fails: the peer is gone, the connection was closed here, the
\* deadline of IdleTimeout passed or the data is not a message.
ReadError(e) ==
  /\ Running
  /\ inPc = "read"
  /\ e = "EOF" => conn = "eof"
  /\ inErr' = e
  /\ inPc' = "notify"
  /\ UNCHANGED <<cur, res, pluginCalls, notInput, lockVars, callVars, netVars,
                 chanVars>>

\* res is a request of the server, for ServerMessageChan.
ReadPush ==
  /\ Running
  /\ inPc = "read" /\ pushes > 0
  /\ pushes' = pushes - 1
  /\ inPc' = "push"
  /\ UNCHANGED <<conn, wire, inbox, cur, res, inErr, pluginCalls, notInput,
                 lockVars, callVars, chanVars>>

\* handleServerRequest reads client.ServerMessageChan once, for a request of
\* the server and for the message that tells the user the connection ended.
LoadServerMessageChan ==
  /\ Running
  /\ inPc \in {"push", "notify"}
  /\ inPc' = IF inPc = "push" THEN (IF registered THEN "pushSend" ELSE "read")
             ELSE (IF registered THEN "notifySend" ELSE "stop")
  /\ UNCHANGED <<cur, res, inErr, pluginCalls, notInput, lockVars, callVars,
                 netVars, chanVars>>

handleServerRequest ==
  /\ Running
  /\ inPc \in {"pushSend", "notifySend"}
  /\ inPc' = IF inPc = "pushSend" THEN "read" ELSE "stop"
  /\ \/ /\ chan = "closed"       \* the send panics, recover removes the channel
        /\ registered' = FALSE
        /\ UNCHANGED chanLen
     \/ /\ chan = "open" /\ chanLen < ChanCap
        /\ chanLen' = chanLen + 1
        /\ UNCHANGED registered
     \/ /\ chan = "open" /\ chanLen = ChanCap
        /\ ~BidirectionalBlock   \* dropped; with the option, input waits here
        /\ UNCHANGED <<registered, chanLen>>
  /\ UNCHANGED <<cur, res, inErr, chan, pluginCalls, notInput, lockVars,
                 callVars, netVars>>

\* The critical section at the end of input.  The pending calls are signalled
\* and stay in the map.
Stop ==
  /\ Running
  /\ inPc = "stop"
  /\ ClosePlugin
  /\ conn' = "closed"
  /\ shutdown' = TRUE
  /\ FailPending(CASE inErr = "EOF" /\ closing  -> "ErrShutdown"
                   [] inErr = "EOF" /\ ~closing -> "ErrUnexpectedEOF"
                   [] inErr # "EOF"             -> inErr)
  /\ inPc' = "exited"
  /\ UNCHANGED <<seq, pending, closing, pc, mySeq, ctxSeq, reply, ret, wire,
                 inbox, pushes, cur, res, inErr, notInput, chanVars>>
-----------------------------------------------------------------------------
(* ServerMessageChan, of which the user reads and which they may close or
   unregister *)

TakeServerMessage ==
  /\ Running
  /\ chanLen > 0
  /\ chanLen' = chanLen - 1
  /\ UNCHANGED <<registered, chan, pluginCalls, notInput, lockVars, callVars,
                 netVars, inputVars>>

CloseServerMessageChan ==
  /\ Running
  /\ HasChan /\ chan = "open"
  /\ chan' = "closed"
  /\ UNCHANGED <<registered, chanLen, pluginCalls, notInput, lockVars,
                 callVars, netVars, inputVars>>

UnregisterServerMessageChan ==
  /\ Running
  /\ registered
  /\ registered' = FALSE
  /\ UNCHANGED <<chan, chanLen, pluginCalls, notInput, lockVars, callVars,
                 netVars, inputVars>>
-----------------------------------------------------------------------------
(* Close *)

\* Mutant: Close without client.Conn.Close().
CloseBodyLeavingConn ==
  /\ FailPending("ErrShutdown")
  /\ pending' = [s \in Seqs |-> NoCall]
  /\ ClosePlugin
  /\ IF closing \/ shutdown
     THEN crashed' = TRUE /\ UNCHANGED closing
     ELSE closing' = TRUE /\ UNCHANGED crashed
  /\ UNCHANGED conn

\* The body of Close.  When the client is already closing or shut down, the
\* explicit Unlock is followed by the deferred one, which the runtime answers
\* with a fatal error.
CloseBody ==
  /\ FailPending("ErrShutdown")
  /\ pending' = [s \in Seqs |-> NoCall]
  /\ ClosePlugin
  /\ conn' = IF pluginClosed THEN conn ELSE "closed"
  /\ IF closing \/ shutdown
     THEN crashed' = TRUE /\ UNCHANGED closing
     ELSE closing' = TRUE /\ UNCHANGED crashed

Close(k) ==
  /\ Running
  /\ k \in closers
  /\ closers' = closers \ {k}
  /\ CloseBody
  /\ UNCHANGED <<seq, shutdown, pc, mySeq, ctxSeq, reply, ret, wire, inbox,
                 pushes, poolVars, inputVars, chanVars, hbVars>>
-----------------------------------------------------------------------------
(* The heartbeat goroutine *)

hbFrame == <<lockVars, callVars, poolVars, netVars, inputVars, chanVars, userVars,
             crashed>>

\* A tick: IsShutdown and IsClosing take the mutex one after the other.
HbIsShutdown ==
  /\ Running
  /\ hbPc = "tick"
  /\ hbPc' = IF shutdown THEN "exited" ELSE "isClosing"
  /\ UNCHANGED <<hbCall, hbFrame>>

HbIsClosing ==
  /\ Running
  /\ hbPc = "isClosing"
  /\ \/ /\ closing
        /\ hbPc' = "exited"
        /\ UNCHANGED hbCall
     \/ /\ ~closing
        /\ hbPc' = "call"
        /\ \E b \in BeatCalls : pc[b] = "idle" /\ hbCall' = b
  /\ UNCHANGED hbFrame

\* Mutant: the outcome of the heartbeat is not looked at.
HbReturnedUnchecked ==
  /\ Running
  /\ hbPc = "call" /\ pc[hbCall] = "end"
  /\ hbPc' = "tick"
  /\ UNCHANGED <<hbCall, hbFrame>>

\* The call returned.  It is abnormal if it failed or if its context expired
\* meanwhile.
HbReturned ==
  /\ Running
  /\ hbPc = "call" /\ pc[hbCall] = "end"
  /\ \/ hbPc' = "tick" /\ ret[hbCall] = "nil"
     \/ hbPc' = "close"
  /\ UNCHANGED <<hbCall, hbFrame>>

HbClose ==
  /\ Running
  /\ hbPc = "close"
  /\ hbPc' = "tick"
  /\ CloseBody
  /\ UNCHANGED <<seq, shutdown, pc, mySeq, ctxSeq, reply, ret, wire, inbox,
                 pushes, hbCall, closers, poolVars, inputVars, chanVars>>
-----------------------------------------------------------------------------
SendStep(c) ==
  \/ Encode(c) \/ EncodeFail(c) \/ Write(c) \/ WriteFail(c) \/ Free(c)
  \/ CheckOneway(c) \/ Return(c)
  \/ RawWrite(c) \/ RawWriteFail(c) \/ RawOneway(c)

InputStep ==
  \/ ReadReply \/ Deliver \/ ReadPush \/ LoadServerMessageChan
  \/ handleServerRequest \/ Stop

HbStep == HbIsShutdown \/ HbIsClosing \/ HbReturned \/ HbClose

Next ==
  \/ \E c \in Calls : Register(c) \/ RawRegister(c) \/ SendStep(c) \/ Cancel(c) \/ RawCancel(c)
  \/ \E r \in wire : Answer(r)
  \/ PeerGone
  \/ InputStep
  \/ \E e \in {"EOF", "io"} : ReadError(e)
  \/ TakeServerMessage \/ CloseServerMessageChan \/ UnregisterServerMessageChan
  \/ \E k \in Closers : Close(k)
  \/ HbStep

Spec == Init /\ [][Next]_vars

\* Every goroutine that can run does run, a read from a connection that ended
\* returns, and the context of a heartbeat expires.  The peer need not answer,
\* nobody need call Close or cancel a context.
Fairness ==
  /\ \A c \in Calls : WF_vars(SendStep(c))
  /\ \A c \in BeatCalls : WF_vars(Register(c) \/ Cancel(c))
  /\ WF_vars(InputStep)
  /\ WF_vars(conn # "up" /\ \E e \in {"EOF", "io"} : ReadError(e))
  /\ WF_vars(HbStep)

FairSpec == Spec /\ Fairness
-----------------------------------------------------------------------------
(* Properties *)

Started(c) == pc[c] # "idle"
TwoWay == Calls \ OneWay

\* A call is only ever given the reply to the request it sent itself: input
\* matches replies to calls by sequence number while callers register, cancel
\* and fail concurrently.
RepliesMatch == \A c \in Calls : reply[c] \in {NoCall, c}

\* A two-way call that is signalled without an error has its reply: neither a
\* cancellation, nor the end of the connection, nor send itself completes a
\* call as if it had been answered.
NoFalseSuccess ==
  \A c \in TwoWay : done[c] > 0 /\ err[c] = "nil" => reply[c] # NoCall

\* A call that was started and not signalled is in the hands of someone who
\* will signal it: it is pending on a connection that input still reads, input
\* is delivering its reply, or it is a raw call made after the end of the
\* connection, whose own write will fail.
NoStrandedCall ==
  \A c \in Calls : Started(c) /\ done[c] = 0 /\ ret[c] = "none" =>
    \/ pending[mySeq[c]] = c /\ ~closing /\ ~shutdown
    \/ inPc = "deliver" /\ cur = c
    \/ /\ pending[mySeq[c]] = c /\ conn = "closed"
       /\ c \in RawCalls /\ pc[c] \in {"write", "wfail"}

\* The header of every request on the wire is that of its own call, although
\* messages are recycled between goroutines through protocol.msgPool.
WireHeaders == \A r \in wire : r.oneway = (r.call \in OneWay) /\ r.seq = mySeq[r.call]

\* The close plugin runs once per connection, whichever of input, Close and
\* heartbeat ends it first.
PluginClosedOnce == pluginCalls <= 1

\* Once Close returned or input stopped, no goroutine gets a request onto the
\* connection any more, also one that was already past the check in send.
NothingSentAfterClose ==
  [][closing \/ shutdown => wire' \subseteq wire]_vars

\* When the connection ends, every Call and SendRaw in progress returns.
EndedConnReleasesCallers ==
  \A c \in SyncCalls \cup RawCalls :
    (Started(c) /\ conn # "up") ~> (ret[c] # "none" \/ crashed)

\* A heartbeat that failed or timed out brings the connection down.
FailedBeatClosesConn ==
  \A b \in BeatCalls : (ret[b] \notin {"none", "nil"}) ~> (conn = "closed" \/ crashed)

\* Two-way calls end at most once and with their own reply, as CallPromise
\* says.  The user sees a call of Go end when its channel is signalled, any
\* other one when the function returns.
Ended(c) == IF c \in AsyncCalls THEN done[c] > 0 ELSE ret[c] # "none"
Outcome(c) == IF c \in AsyncCalls THEN err[c] ELSE ret[c]
Status(c) ==
  CASE ~Started(c) -> "idle"
    [] Started(c) /\ ~Ended(c) -> "open"
    [] Started(c) /\ Ended(c) /\ Outcome(c) = "nil" -> "ok"
    [] OTHER -> "failed"
Got(c) == IF Ended(c) /\ Outcome(c) = "nil" THEN reply[c] ELSE NoCall
Promise == INSTANCE CallPromise WITH
  Calls <- TwoWay,
  status <- [c \in TwoWay |-> Status(c)],
  got <- [c \in TwoWay |-> Got(c)]
KeepsPromise == Promise!Spec

\* Close on a connection that is already closing or shut down is harmless
\* (client.go:273-274 says it returns ErrShutdown).
CloseIsHarmless == ~crashed
=============================================================================
