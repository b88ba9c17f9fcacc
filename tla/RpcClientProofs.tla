-------------------------- MODULE RpcClientProofs --------------------------
(***************************************************************************)
(* The type invariant of RpcClient, who has which number, whose reply is   *)
(* whose, what the end of the connection does, who will signal whom, who   *)
(* holds which message of protocol.msgPool, and that the client keeps what *)
(* CallPromise says: proofs for every set of calls, every set of users     *)
(* that close the connection and every bound.                              *)
(***************************************************************************)
EXTENDS RpcClient, TLAPS

\* A call that has passed the critical section of send has its number, and the
\* stages of send are not those of SendRaw.
Numbered ==
  \A c \in Calls :
    /\ pc[c] \in {"encode", "encfail", "write", "wfail", "free", "check", "oneway"}
         => mySeq[c] # -1
    /\ c \in RawCalls /\ pc[c] # "idle" => mySeq[c] # -1
    /\ c \in RawCalls => pc[c] \notin {"encode", "encfail", "free", "check"}

TypeInv == TypeOK /\ Numbered

LEMMA ExceptType ==
  ASSUME NEW D, NEW R, NEW f \in [D -> R], NEW x, NEW y \in R
  PROVE  [f EXCEPT ![x] = y] \in [D -> R]
BY Zenon

LEMMA TypeInit == Init => TypeInv
<1> USE CallKinds, Bounds DEF CallKinds, Bounds
<1> SUFFICES ASSUME Init PROVE TypeInv
  BY Zenon
<1>1. /\ registered \in BOOLEAN /\ closing \in BOOLEAN /\ crashed \in BOOLEAN
      /\ shutdown \in BOOLEAN /\ pluginClosed \in BOOLEAN
  BY Zenon DEF Init
<1>2. done \in [Calls -> Nat] /\ \A c \in Calls : done[c] <= DoneCap(c)
  BY DEF Init, DoneCap, Calls
<1>3. pending \in [Seqs -> Calls \cup {NoCall}] /\ ctxSeq \in [Calls -> Seqs] /\ seq \in 0..MaxSeq + 1
  BY DEF Init, Seqs
<1>4. pushes \in 0..MaxPush /\ chanLen \in 0..ChanCap
  BY DEF Init
<1>5. TypeOK
  BY <1>1, <1>2, <1>3, <1>4, Zenon DEF Init, TypeOK, Errors, NoReply
<1> QED
  BY <1>5, Zenon DEF TypeInv, Numbered, Init

\* What Close, called by a user or by heartbeat, does to what it changes.
LEMMA CloseBodyType ==
  ASSUME TypeOK, CloseBody
  PROVE  /\ crashed' \in BOOLEAN /\ closing' \in BOOLEAN /\ pluginClosed' \in BOOLEAN
         /\ pending' \in [Seqs -> Calls \cup {NoCall}]
         /\ conn' \in {"up", "eof", "closed"}
         /\ err' \in [Calls -> Errors]
         /\ done' \in [Calls -> Nat] /\ \A c \in Calls : done'[c] <= DoneCap(c)
         /\ pluginCalls' \in Nat
<1> USE CallKinds, Bounds DEF CallKinds, Bounds
<1> USE DEF TypeOK
<1>1. crashed' \in BOOLEAN /\ closing' \in BOOLEAN /\ pluginClosed' \in BOOLEAN
  BY Zenon DEF CloseBody, ClosePlugin
<1>2. pending' \in [Seqs -> Calls \cup {NoCall}]
  BY Zenon DEF CloseBody
<1>3. conn' \in {"up", "eof", "closed"} /\ pluginCalls' \in Nat
  BY DEF CloseBody, ClosePlugin
<1>4. err' \in [Calls -> Errors]
  BY Zenon DEF CloseBody, FailPending, Errors
<1>5. done' \in [Calls -> Nat] /\ \A c \in Calls : done'[c] <= DoneCap(c)
  BY DEF CloseBody, FailPending, Signalled, DoneCap
<1> QED
  BY <1>1, <1>2, <1>3, <1>4, <1>5, Zenon

LEMMA TypeNext == TypeInv /\ [Next]_vars => TypeInv'
<1> USE CallKinds, Bounds DEF CallKinds, Bounds
<1> SUFFICES ASSUME TypeInv, [Next]_vars PROVE TypeInv'
  BY Zenon
<1> USE DEF TypeInv, TypeOK, Numbered, notCaller, notInput, lockVars, callVars,
            poolVars, netVars, inputVars, chanVars, hbVars, userVars
<1>1. ASSUME NEW c \in Calls, Register(c) PROVE TypeInv'
  <2>1. CASE /\ UNCHANGED <<seq, pending, mySeq>> /\ Goto(c, "sent")
             /\ \E e \in Errors : err' = [err EXCEPT ![c] = e]
             /\ done' = Signalled({c})
    BY <1>1, <2>1 DEF Register, Signalled, DoneCap, Goto, Errors
  <2>2. CASE /\ seq <= MaxSeq /\ seq' = NextSeq /\ Goto(c, "encode")
             /\ pending' = [pending EXCEPT ![seq] = c]
             /\ mySeq' = [mySeq EXCEPT ![c] = seq]
             /\ UNCHANGED <<err, done>>
    BY <1>1, <2>2 DEF Register, Goto, NextSeq, Seqs
  <2>3. {"ErrShutdown", "ErrUnsupportedCodec"} \subseteq Errors
    BY Zenon DEF Errors
  <2> QED
    BY <1>1, <2>1, <2>2, <2>3, Zenon DEF Register
<1>2. ASSUME NEW c \in Calls, Encode(c) PROVE TypeInv'
  BY <1>2 DEF Encode, TakeMsg, Goto, Calls, Seqs
<1>3. ASSUME NEW c \in Calls, EncodeFail(c) PROVE TypeInv'
  BY <1>3 DEF EncodeFail, Signalled, DoneCap, Goto, Errors
<1>4. ASSUME NEW c \in Calls, Write(c) PROVE TypeInv'
  BY <1>4 DEF Write, Goto, Requests
<1>5. ASSUME NEW c \in Calls, WriteFail(c) PROVE TypeInv'
  BY <1>5 DEF WriteFail, Signalled, DoneCap, Complete, FreeMsg, Goto, Errors
<1>6. ASSUME NEW c \in Calls, Free(c) PROVE TypeInv'
  BY <1>6 DEF Free, FreeMsg, Goto
<1>7. ASSUME NEW c \in Calls, CheckOneway(c) PROVE TypeInv'
  BY <1>7 DEF CheckOneway, Signalled, DoneCap, Goto
<1>8. ASSUME NEW c \in Calls, Cancel(c) PROVE TypeInv'
  BY <1>8 DEF Cancel, Signalled, DoneCap, Complete, Goto, Errors
<1>9. ASSUME NEW c \in Calls, Return(c) PROVE TypeInv'
  BY <1>9 DEF Return, Goto
<1>10. ASSUME NEW c \in Calls, RawRegister(c) PROVE TypeInv'
  BY <1>10 DEF RawRegister, Goto, RawNumber, Seqs
<1>11. ASSUME NEW c \in Calls, RawWrite(c) PROVE TypeInv'
  <2>1. mySeq[c] \in Seqs
    BY <1>11, Zenon DEF RawWrite
  <2>2. (c \in OneWay) \in BOOLEAN
    OBVIOUS
  <2>3. [seq |-> mySeq[c], call |-> c, oneway |-> c \in OneWay] \in Requests
    BY <2>1, <2>2, Zenon DEF Requests
  <2>4. wire' \subseteq Requests
    BY <1>11, <2>3, Zenon DEF RawWrite
  <2> QED
    BY <1>11, <2>4 DEF RawWrite, Goto
<1>12. ASSUME NEW c \in Calls, RawWriteFail(c) PROVE TypeInv'
  BY <1>12 DEF RawWriteFail, Signalled, DoneCap, Complete, Goto, Errors
<1>13. ASSUME NEW c \in Calls, RawOneway(c) PROVE TypeInv'
  BY <1>13 DEF RawOneway, Signalled, DoneCap, Goto, Errors
<1>14. ASSUME NEW c \in Calls, RawCancel(c) PROVE TypeInv'
  BY <1>14 DEF RawCancel, Signalled, DoneCap, Complete, Goto, Errors
<1>15. ASSUME NEW r \in wire, Answer(r) PROVE TypeInv'
  BY <1>15 DEF Answer, Requests, Replies, Results
<1>16. ASSUME NEW e \in {"EOF", "io"}, ReadError(e) PROVE TypeInv'
  BY <1>16 DEF ReadError
<1>17. ASSUME NEW k \in Closers, Close(k) PROVE TypeInv'
  <2>1. CloseBody
    BY <1>17, Zenon DEF Close
  <2> QED
    BY <1>17, <2>1, CloseBodyType DEF Close
<1>18. CASE PeerGone
  BY <1>18 DEF PeerGone
<1>19. CASE ReadReply
  BY <1>19 DEF ReadReply, Replies
<1>20. CASE Deliver
  <2>1. reply' \in [Calls -> Calls \cup {NoCall}]
    <3>1. res.call \in Calls \cup {NoCall}
      BY DEF Replies, NoReply
    <3>2. reply' = [reply EXCEPT ![cur] = res.call]
      BY <1>20, Zenon DEF Deliver
    <3> QED
      BY <3>1, <3>2, Zenon
  <2>2. err' \in [Calls -> Errors]
    <3>1. PICK e \in Errors : err' = err \/ err' = [err EXCEPT ![cur] = e]
      BY <1>20, Zenon DEF Deliver, Errors
    <3>2. [err EXCEPT ![cur] = e] \in [Calls -> Errors]
      BY ExceptType, Zenon
    <3> QED
      BY <3>1, <3>2, Zenon
  <2>3. inErr' \in {"nil", "EOF", "io", "decode"} /\ inPc' \in {"read", "notify"}
    BY <1>20, Zenon DEF Deliver
  <2>4. done' \in [Calls -> Nat] /\ \A c \in Calls : done'[c] <= DoneCap(c)
    BY <1>20 DEF Deliver, Signalled, DoneCap
  <2>5. /\ cur' = NoCall /\ res' = NoReply
        /\ UNCHANGED <<pc, mySeq, ctxSeq, ret, pluginCalls, notInput, lockVars, netVars, chanVars>>
    BY <1>20, Zenon DEF Deliver
  <2> QED
    BY <2>1, <2>2, <2>3, <2>4, <2>5
<1>21. CASE ReadPush
  BY <1>21 DEF ReadPush
<1>22. CASE LoadServerMessageChan
  BY <1>22 DEF LoadServerMessageChan
<1>23. CASE handleServerRequest
  <2>1. registered' \in BOOLEAN
    BY <1>23, Zenon DEF handleServerRequest
  <2>2. chanLen' \in 0..ChanCap
    BY <1>23 DEF handleServerRequest
  <2> QED
    BY <1>23, <2>1, <2>2 DEF handleServerRequest
<1>24. CASE Stop
  BY <1>24 DEF Stop, FailPending, ClosePlugin, Signalled, DoneCap, Errors
<1>25. CASE TakeServerMessage
  BY <1>25 DEF TakeServerMessage
<1>26. CASE CloseServerMessageChan
  BY <1>26 DEF CloseServerMessageChan
<1>27. CASE UnregisterServerMessageChan
  <2>1. registered' \in BOOLEAN
    BY <1>27, Zenon DEF UnregisterServerMessageChan
  <2> QED
    BY <1>27, <2>1 DEF UnregisterServerMessageChan
<1>28. CASE HbIsShutdown
  BY <1>28 DEF HbIsShutdown, hbFrame
<1>29. CASE HbIsClosing
  BY <1>29 DEF HbIsClosing, hbFrame
<1>30. CASE HbReturned
  BY <1>30 DEF HbReturned, hbFrame
<1>31. CASE HbClose
  <2>1. CloseBody
    BY <1>31, Zenon DEF HbClose
  <2> QED
    BY <1>31, <2>1, CloseBodyType DEF HbClose
<1>32. CASE UNCHANGED vars
  BY <1>32 DEF vars
<1> QED
  BY <1>1, <1>2, <1>3, <1>4, <1>5, <1>6, <1>7, <1>8, <1>9, <1>10, <1>11,
     <1>12, <1>13, <1>14, <1>15, <1>16, <1>17, <1>18, <1>19, <1>20, <1>21,
     <1>22, <1>23, <1>24, <1>25, <1>26, <1>27, <1>28, <1>29, <1>30, <1>31,
     <1>32, Zenon DEF Next, SendStep, InputStep, HbStep

\* The variables of the client, of its calls and of its three goroutines keep
\* their types; in particular call.Done never holds more than its capacity,
\* whoever signals a call, and pending maps numbers to calls.
THEOREM TypeCorrect == Spec => []TypeOK
<1>1. Spec => []TypeInv
  BY TypeInit, TypeNext, PTL DEF Spec
<1> QED
  BY <1>1, PTL DEF TypeInv
-----------------------------------------------------------------------------
(* What the proofs below need of the constants and of the type invariant *)

LEMMA Constants ==
  /\ NoCall \notin Calls /\ MaxSeq \in Nat
  /\ Seqs \subseteq Nat /\ -1 \notin Seqs /\ Seqs \cup {-1} \subseteq Int
  /\ 0..MaxSeq \subseteq Seqs
  /\ RawCalls \subseteq Calls /\ \A c \in RawCalls : RawSeq[c] \in Seqs
  /\ \A c \in Calls : DoneCap(c) \in Nat /\ DoneCap(c) > 0
BY CallKinds, Bounds DEF CallKinds, Bounds, Calls, Seqs, DoneCap

CallTypes ==
  /\ seq \in 0..MaxSeq + 1 /\ pending \in [Seqs -> Calls \cup {NoCall}]
  /\ pc \in [Calls -> {"idle", "encode", "encfail", "write", "wfail", "free",
                       "check", "oneway", "sent", "end"}]
  /\ mySeq \in [Calls -> Seqs \cup {-1}]
  /\ ctxSeq \in [Calls -> Seqs] /\ err \in [Calls -> Errors]
  /\ done \in [Calls -> Nat] /\ reply \in [Calls -> Calls \cup {NoCall}]
  /\ wire \subseteq Requests /\ inbox \subseteq Replies
  /\ cur \in Calls \cup {NoCall} /\ res \in Replies \cup {NoReply}
  /\ Numbered

PoolTypes == pool \subseteq Calls /\ msg \in [Calls -> Calls] /\ bit \in [Calls -> BOOLEAN]

LEMMA PartOfTypeInv == TypeInv => CallTypes /\ PoolTypes
BY Zenon DEF TypeInv, TypeOK, CallTypes, PoolTypes
-----------------------------------------------------------------------------
(* Whose number is whose *)

\* The numbers of the calls: those client.seq handed out are below it, those
\* of raw messages are their own, and no two calls have the same.  A call that
\* was started without getting one was refused by send and signalled.
Numbers ==
  /\ \A c \in Calls : pc[c] = "idle" => mySeq[c] = -1
  /\ \A c \in Calls : mySeq[c] = -1 => pc[c] = "idle" \/ done[c] > 0
  /\ \A c \in Calls \ RawCalls : mySeq[c] < seq
  /\ \A c \in RawCalls : mySeq[c] \in {-1, RawSeq[c]}
  /\ \A c, d \in Calls : mySeq[c] = mySeq[d] /\ mySeq[c] # -1 => c = d

\* What travels with a number travels with the number of its call.
Carried ==
  /\ \A s \in Seqs : pending[s] # NoCall => mySeq[pending[s]] = s
  /\ \A r \in wire \cup inbox : mySeq[r.call] = r.seq
  /\ inPc = "deliver" => /\ cur # NoCall /\ mySeq[cur] = res.seq
                         /\ res \in Replies /\ mySeq[res.call] = res.seq

\* Who sets closing or shutdown has closed the connection.
ClosedConn ==
  /\ closing \/ shutdown => pluginClosed
  /\ pluginClosed => conn = "closed"
-----------------------------------------------------------------------------
(* What a step does to the calls *)

\* A caller that writes, frees its message or returns: the table of calls and
\* what others did to the calls stay as they are.
Moves(c) ==
  /\ Encode(c) \/ Write(c) \/ Free(c) \/ Return(c) \/ RawWrite(c)
  /\ pc[c] \notin {"idle", "wfail"}
  /\ \E l \in {"encfail", "write", "wfail", "free", "check", "oneway", "sent", "end"} : Goto(c, l)
  /\ conn = "closed" /\ c \in RawCalls /\ pc[c] = "write" => pc'[c] = "wfail"
  /\ \A d \in Calls : ret'[d] = "none" => ret[d] = "none"
  /\ \A r \in wire' : r \in wire \/ (r.call = c /\ r.seq = mySeq[c])
  /\ conn = "closed" => wire' \subseteq wire
  /\ UNCHANGED <<seq, pending, mySeq, err, reply, done, notCaller>>

\* A step of the heartbeat, of the peer, of the user's channel, or of input
\* between two replies.
Quiet ==
  /\ UNCHANGED <<lockVars, callVars, poolVars, wire, inbox, cur, res, pluginCalls>>
  /\ conn = "closed" => conn' = "closed"
  /\ inPc' = "deliver" <=> inPc = "deliver"
  /\ inPc = "exited" => inPc' = "exited"
  /\ inPc' \in {"notify", "notifySend", "stop"} =>
       inErr' # "nil" \/ (inPc \in {"notify", "notifySend", "stop"} /\ inErr' = inErr)

LEMMA Effects ==
  ASSUME CallTypes, [Next]_vars
  PROVE  \/ \E c \in Calls : \/ Register(c) \/ RawRegister(c) \/ EncodeFail(c)
                             \/ WriteFail(c) \/ CheckOneway(c) \/ Cancel(c)
                             \/ RawWriteFail(c) \/ RawOneway(c) \/ RawCancel(c)
                             \/ Moves(c)
         \/ \E r \in wire : Answer(r)
         \/ \E k \in Closers : Close(k)
         \/ ReadReply \/ Deliver \/ Stop \/ HbClose \/ Quiet
<1> USE DEF notCaller, notInput, hbFrame, lockVars, callVars, poolVars, netVars,
            inputVars, chanVars, hbVars, userVars
<1>1. ASSUME NEW c \in Calls, Encode(c) PROVE Moves(c)
  BY <1>1, Zenon DEF Encode, Moves, CallTypes, Goto, Numbered
<1>2. ASSUME NEW c \in Calls, Write(c) PROVE Moves(c)
  <2>1. pc[c] = "write" /\ UNCHANGED <<seq, pending, mySeq, err, reply, done, ret, notCaller>>
    BY <1>2, Zenon DEF Write
  <2>2. \E l \in {"encfail", "write", "wfail", "free", "check", "oneway", "sent", "end"} : Goto(c, l)
    BY <1>2, Zenon DEF Write
  <2>3. conn = "closed" => Goto(c, "wfail") /\ wire' = wire
    BY <1>2, Zenon DEF Write
  <2>4. PICK b : wire' = wire \/ wire' = wire \cup {[seq |-> mySeq[c], call |-> c, oneway |-> b]}
    BY <1>2, Zenon DEF Write
  <2>5. conn = "closed" => pc'[c] = "wfail"
    BY <2>3, Zenon DEF CallTypes, Goto
  <2>6. \A r \in wire' : r \in wire \/ (r.call = c /\ r.seq = mySeq[c])
    BY ONLY <2>4
  <2>7. pc[c] \notin {"idle", "wfail"}
    BY ONLY <2>1, Zenon
  <2> QED
    BY <1>2, <2>1, <2>2, <2>3, <2>5, <2>6, <2>7, Zenon DEF Moves
<1>3. ASSUME NEW c \in Calls, Free(c) PROVE Moves(c)
  BY <1>3, Zenon DEF Free, Moves, CallTypes, Goto, Numbered
<1>4. ASSUME NEW c \in Calls, Return(c) PROVE Moves(c)
  BY <1>4 DEF Return, Moves, CallTypes, Goto, Errors
<1>5. ASSUME NEW c \in Calls, RawWrite(c) PROVE Moves(c)
  <2>1. pc[c] = "write" /\ UNCHANGED <<seq, pending, mySeq, err, reply, done, ret, notCaller>>
    BY <1>5, Zenon DEF RawWrite
  <2>2. \E l \in {"encfail", "write", "wfail", "free", "check", "oneway", "sent", "end"} : Goto(c, l)
    BY <1>5, Zenon DEF RawWrite
  <2>3. conn = "closed" => Goto(c, "wfail") /\ wire' = wire
    BY <1>5, Zenon DEF RawWrite
  <2>4. PICK b : wire' = wire \/ wire' = wire \cup {[seq |-> mySeq[c], call |-> c, oneway |-> b]}
    BY <1>5, Zenon DEF RawWrite
  <2>5. conn = "closed" => pc'[c] = "wfail"
    BY <2>3, Zenon DEF CallTypes, Goto
  <2>6. \A r \in wire' : r \in wire \/ (r.call = c /\ r.seq = mySeq[c])
    BY ONLY <2>4
  <2>7. pc[c] \notin {"idle", "wfail"}
    BY ONLY <2>1, Zenon
  <2> QED
    BY <1>5, <2>1, <2>2, <2>3, <2>5, <2>6, <2>7, Zenon DEF Moves
<1>6. ASSUME NEW e \in {"EOF", "io"}, ReadError(e) PROVE Quiet
  BY <1>6, Zenon DEF ReadError, Quiet
<1>7. CASE PeerGone
  BY <1>7, Zenon DEF PeerGone, Quiet
<1>8. CASE ReadPush
  BY <1>8, Zenon DEF ReadPush, Quiet
<1>9. CASE LoadServerMessageChan
  BY <1>9, Zenon DEF LoadServerMessageChan, Quiet
<1>10. CASE handleServerRequest
  BY <1>10, Zenon DEF handleServerRequest, Quiet
<1>11. CASE TakeServerMessage
  BY <1>11, Zenon DEF TakeServerMessage, Quiet
<1>12. CASE CloseServerMessageChan
  BY <1>12, Zenon DEF CloseServerMessageChan, Quiet
<1>13. CASE UnregisterServerMessageChan
  BY <1>13, Zenon DEF UnregisterServerMessageChan, Quiet
<1>14. CASE HbIsShutdown
  BY <1>14, Zenon DEF HbIsShutdown, Quiet
<1>15. CASE HbIsClosing
  BY <1>15, Zenon DEF HbIsClosing, Quiet
<1>16. CASE HbReturned
  BY <1>16, Zenon DEF HbReturned, Quiet
<1>17. CASE UNCHANGED vars
  BY <1>17, Zenon DEF vars, Quiet
<1> QED
  BY <1>1, <1>2, <1>3, <1>4, <1>5, <1>6, <1>7, <1>8, <1>9, <1>10, <1>11, <1>12,
     <1>13, <1>14, <1>15, <1>16, <1>17, Zenon DEF Next, SendStep, InputStep, HbStep
-----------------------------------------------------------------------------
(* Each conjunct is kept by every step *)

\* The numbers below the next one are in their range, and so is the next one
\* until they are used up.
LEMMA Below ==
  ASSUME NEW m \in Nat, NEW s \in 0..m + 1
  PROVE  /\ \A x \in Nat : x < s => x \in 0..m
         /\ s <= m => s \in 0..m
OBVIOUS

\* The number send is about to use is nobody's yet.
LEMMA SeqIsNew ==
  ASSUME RawSeqsFresh, CallTypes, Numbers, seq <= MaxSeq
  PROVE  seq \in Seqs /\ \A d \in Calls : mySeq[d] # seq
<1>1. seq \in 0..MaxSeq + 1 /\ MaxSeq \in Nat
  BY Constants, Zenon DEF CallTypes
<1>2. seq \in 0..MaxSeq /\ seq # -1
  BY <1>1
<1>3. \A d \in RawCalls : mySeq[d] # seq
  <2>1. \A d \in RawCalls : RawSeq[d] # seq
    BY <1>2, Zenon DEF RawSeqsFresh
  <2>2. \A d \in RawCalls : mySeq[d] = -1 \/ mySeq[d] = RawSeq[d]
    BY Zenon DEF Numbers
  <2> QED
    BY <1>2, <2>1, <2>2, Zenon
<1>4. \A d \in Calls \ RawCalls : mySeq[d] \in Int /\ mySeq[d] < seq
  BY Constants, Zenon DEF CallTypes, Numbers
<1>5. \A d \in Calls \ RawCalls : mySeq[d] # seq
  BY ONLY <1>2, <1>4
<1> QED
  BY <1>2, <1>3, <1>5, Constants, Zenon

\* Nor is the number of a raw message before it is registered.
LEMMA RawSeqIsNew ==
  ASSUME RawSeqsFresh, CallTypes, Numbers, NEW c \in RawCalls, mySeq[c] = -1
  PROVE  RawSeq[c] \in Seqs /\ \A d \in Calls : mySeq[d] # RawSeq[c]
<1>1. RawSeq[c] \in Seqs /\ RawSeq[c] # -1
  BY Constants, Zenon
<1>2. \A d \in RawCalls : mySeq[d] # RawSeq[c]
  BY <1>1, Zenon DEF Numbers, RawSeqsFresh
<1>3. \A d \in Calls \ RawCalls : mySeq[d] \in 0..MaxSeq \/ mySeq[d] = -1
  <2> SUFFICES ASSUME NEW d \in Calls \ RawCalls, mySeq[d] # -1 PROVE mySeq[d] \in 0..MaxSeq
    BY Zenon
  <2>1. mySeq[d] \in Nat /\ mySeq[d] < seq
    BY Constants, Zenon DEF CallTypes, Numbers
  <2>2. seq \in 0..MaxSeq + 1 /\ MaxSeq \in Nat
    BY Constants, Zenon DEF CallTypes
  <2> QED
    BY <2>1, <2>2, Below, Zenon
<1>4. RawSeq[c] \notin 0..MaxSeq
  BY Zenon DEF RawSeqsFresh
<1> QED
  BY <1>1, <1>2, <1>3, <1>4, Zenon

\* A caller goes on with its call, and nobody else does.
LEMMA GotoMoves ==
  ASSUME CallTypes, NEW c \in Calls, NEW l, Goto(c, l)
  PROVE  pc'[c] = l /\ \A d \in Calls \ {c} : pc'[d] = pc[d]
BY Zenon DEF CallTypes, Goto

\* A signal is not taken back.
LEMMA SignalsStay ==
  ASSUME CallTypes, NEW S, done' = Signalled(S)
  PROVE  \A d \in Calls : done[d] > 0 => done'[d] > 0
BY DEF CallTypes, Signalled

\* The numbers stay right as long as nobody takes one or starts.
LEMMA NumbersKept ==
  ASSUME Numbers, UNCHANGED <<seq, mySeq>>, \A d \in Calls : pc'[d] = "idle" <=> pc[d] = "idle",
         \A d \in Calls : done[d] > 0 => done'[d] > 0
  PROVE  Numbers'
BY Constants, Zenon DEF Numbers

LEMMA AdvanceKeepsNumbers ==
  ASSUME CallTypes, Numbers, NEW c \in Calls, pc[c] # "idle", NEW l, l # "idle", Goto(c, l),
         UNCHANGED <<seq, mySeq>>, NEW S, done' = Signalled(S) \/ done' = done
  PROVE  Numbers'
<1>1. \A d \in Calls : pc'[d] = "idle" <=> pc[d] = "idle"
  BY GotoMoves, Zenon
<1>2. \A d \in Calls : done[d] > 0 => done'[d] > 0
  BY SignalsStay, Zenon
<1> QED
  BY <1>1, <1>2, NumbersKept, Zenon

LEMMA SignalKeepsNumbers ==
  ASSUME CallTypes, Numbers, UNCHANGED <<seq, mySeq, pc>>, NEW S, done' = Signalled(S) \/ done' = done
  PROVE  Numbers'
<1>1. \A d \in Calls : done[d] > 0 => done'[d] > 0
  BY SignalsStay, Zenon
<1> QED
  BY <1>1, NumbersKept, Zenon

LEMMA NumbersNext ==
  ASSUME RawSeqsFresh, CallTypes, Numbers, [Next]_vars
  PROVE  Numbers'
<1> USE DEF notCaller, lockVars, callVars, poolVars, netVars, inputVars,
            chanVars, hbVars, userVars, notInput
<1>1. ASSUME NEW c \in Calls, Register(c) PROVE Numbers'
  <2>1. CASE UNCHANGED <<seq, mySeq>> /\ done' = Signalled({c}) /\ Goto(c, "sent")
    <3>1. \A d \in Calls : pc'[d] = "idle" => pc[d] = "idle"
      BY <2>1, GotoMoves, Zenon
    <3>2. \A d \in Calls : pc[d] = "idle" => pc'[d] = "idle" \/ d = c
      BY <2>1, GotoMoves, Zenon
    <3>3. done'[c] > 0 /\ \A d \in Calls : done[d] > 0 => done'[d] > 0
      BY <2>1, Constants DEF Signalled, CallTypes
    <3> QED
      BY <2>1, <3>1, <3>2, <3>3, Constants, Zenon DEF Numbers
  <2>2. CASE /\ seq <= MaxSeq /\ seq' = NextSeq /\ Goto(c, "encode")
             /\ mySeq' = [mySeq EXCEPT ![c] = seq] /\ UNCHANGED done
    <3>1. c \notin RawCalls
      BY <1>1, Zenon DEF Register
    <3>2. seq \in Seqs /\ \A d \in Calls : mySeq[d] # seq
      BY <2>2, SeqIsNew, Zenon
    <3>3. mySeq'[c] = seq /\ \A d \in Calls \ {c} : mySeq'[d] = mySeq[d]
      BY <2>2, Zenon DEF CallTypes
    <3>4. pc'[c] = "encode" /\ \A d \in Calls \ {c} : pc'[d] = pc[d]
      BY <2>2, GotoMoves, Zenon
    <3>5. seq # -1 /\ seq < seq' /\ \A d \in Calls : mySeq[d] < seq => mySeq[d] < seq'
      <4>1. seq \in Nat /\ seq' = seq + 1
        BY <2>2, Constants DEF NextSeq, CallTypes
      <4>2. \A d \in Calls : mySeq[d] \in Int
        BY Constants, Zenon DEF CallTypes
      <4> QED
        BY ONLY <4>1, <4>2
    <3>6. c \in Calls \ RawCalls /\ mySeq'[c] < seq' /\ mySeq'[c] # -1
      BY <3>1, <3>3, <3>5, Zenon
    <3>7. \A d \in Calls \ RawCalls : mySeq'[d] < seq'
      BY <3>3, <3>5, <3>6, Zenon DEF Numbers
    <3>8. \A d \in RawCalls : mySeq'[d] \in {-1, RawSeq[d]}
      BY <3>1, <3>3, Constants, Zenon DEF Numbers
    <3>9. \A x, y \in Calls : mySeq'[x] = mySeq'[y] /\ mySeq'[x] # -1 => x = y
      BY <3>2, <3>3, Zenon DEF Numbers
    <3>10. \A d \in Calls : /\ pc'[d] = "idle" => mySeq'[d] = -1
                            /\ mySeq'[d] = -1 => pc'[d] = "idle" \/ done'[d] > 0
      BY <2>2, <3>3, <3>4, <3>6, Zenon DEF Numbers
    <3> QED
      BY <3>7, <3>8, <3>9, <3>10, Zenon DEF Numbers
  <2> QED
    BY <1>1, <2>1, <2>2, Zenon DEF Register
<1>2. ASSUME NEW c \in Calls, RawRegister(c) PROVE Numbers'
  <2>1. /\ c \in RawCalls /\ Goto(c, "write") /\ UNCHANGED <<seq, done>>
        /\ mySeq' = [mySeq EXCEPT ![c] = RawSeq[c]] /\ pc[c] = "idle"
    BY <1>2, Zenon DEF RawRegister, RawNumber
  <2>2. mySeq[c] = -1
    BY <2>1, Zenon DEF Numbers
  <2>3. RawSeq[c] \in Seqs /\ \A d \in Calls : mySeq[d] # RawSeq[c]
    BY <2>1, <2>2, RawSeqIsNew, Zenon
  <2>4. RawSeq[c] # -1
    BY <2>3, Constants, Zenon
  <2>5. mySeq'[c] = RawSeq[c] /\ \A d \in Calls \ {c} : mySeq'[d] = mySeq[d]
    BY <2>1, Zenon DEF CallTypes
  <2>6. pc'[c] = "write" /\ \A d \in Calls \ {c} : pc'[d] = pc[d]
    BY <2>1, GotoMoves, Zenon
  <2>7. \A d \in Calls \ RawCalls : mySeq'[d] < seq'
    BY <2>1, <2>5, Zenon DEF Numbers
  <2>8. \A d \in RawCalls : mySeq'[d] \in {-1, RawSeq[d]}
    BY <2>5, Constants, Zenon DEF Numbers
  <2>9. \A x, y \in Calls : mySeq'[x] = mySeq'[y] /\ mySeq'[x] # -1 => x = y
    BY <2>3, <2>5, Zenon DEF Numbers
  <2>10. \A d \in Calls : /\ pc'[d] = "idle" => mySeq'[d] = -1
                          /\ mySeq'[d] = -1 => pc'[d] = "idle" \/ done'[d] > 0
    BY <2>1, <2>4, <2>5, <2>6, Zenon DEF Numbers
  <2> QED
    BY <2>7, <2>8, <2>9, <2>10, Zenon DEF Numbers
<1>3. ASSUME NEW c \in Calls, EncodeFail(c) PROVE Numbers'
  <2>1. /\ pc[c] = "encfail" /\ Goto(c, "sent") /\ UNCHANGED <<seq, mySeq>>
        /\ done' = Signalled({c})
    BY <1>3, Zenon DEF EncodeFail
  <2> QED
    BY <2>1, AdvanceKeepsNumbers, Zenon
<1>4. ASSUME NEW c \in Calls, WriteFail(c) PROVE Numbers'
  <2>1. /\ pc[c] = "wfail" /\ Goto(c, "sent") /\ UNCHANGED <<seq, mySeq>>
        /\ done' = Signalled({pending[mySeq[c]]})
    BY <1>4, Zenon DEF WriteFail, Complete
  <2> QED
    BY <2>1, AdvanceKeepsNumbers, Zenon
<1>5. ASSUME NEW c \in Calls, CheckOneway(c) PROVE Numbers'
  <2>1. /\ pc[c] = "check" /\ Goto(c, "sent") /\ UNCHANGED <<seq, mySeq>>
        /\ done' = Signalled({pending[mySeq[c]]}) \/ done' = done
    BY <1>5, Zenon DEF CheckOneway
  <2> QED
    BY <2>1, AdvanceKeepsNumbers, Zenon
<1>6. ASSUME NEW c \in Calls, Cancel(c) PROVE Numbers'
  <2>1. /\ pc[c] = "sent" /\ Goto(c, "end") /\ UNCHANGED <<seq, mySeq>>
        /\ done' = Signalled({pending[ctxSeq[c]]})
    BY <1>6, Zenon DEF Cancel, Complete
  <2> QED
    BY <2>1, AdvanceKeepsNumbers, Zenon
<1>7. ASSUME NEW c \in Calls, RawWriteFail(c) PROVE Numbers'
  <2>1. /\ pc[c] = "wfail" /\ Goto(c, "end") /\ UNCHANGED <<seq, mySeq>>
        /\ done' = Signalled({pending[mySeq[c]]})
    BY <1>7, Zenon DEF RawWriteFail, Complete
  <2> QED
    BY <2>1, AdvanceKeepsNumbers, Zenon
<1>8. ASSUME NEW c \in Calls, RawOneway(c) PROVE Numbers'
  <2>1. /\ pc[c] = "oneway" /\ Goto(c, "end") /\ UNCHANGED <<seq, mySeq>>
        /\ done' = Signalled({pending[mySeq[c]]})
    BY <1>8, Zenon DEF RawOneway
  <2> QED
    BY <2>1, AdvanceKeepsNumbers, Zenon
<1>9. ASSUME NEW c \in Calls, RawCancel(c) PROVE Numbers'
  <2>1. /\ pc[c] = "sent" /\ Goto(c, "end") /\ UNCHANGED <<seq, mySeq>>
        /\ done' = Signalled({pending[mySeq[c]]})
    BY <1>9, Zenon DEF RawCancel, Complete
  <2> QED
    BY <2>1, AdvanceKeepsNumbers, Zenon
<1>10. ASSUME NEW c \in Calls, Moves(c) PROVE Numbers'
  <2>1. PICK l \in {"encfail", "write", "wfail", "free", "check", "oneway", "sent", "end"} : Goto(c, l)
    BY <1>10, Zenon DEF Moves
  <2>2. pc[c] # "idle" /\ UNCHANGED <<seq, mySeq, done>>
    BY <1>10, Zenon DEF Moves
  <2> QED
    BY <2>1, <2>2, AdvanceKeepsNumbers, Zenon
<1>11. ASSUME NEW r \in wire, Answer(r) PROVE Numbers'
  BY <1>11, SignalKeepsNumbers, Zenon DEF Answer
<1>12. CASE ReadReply
  BY <1>12, SignalKeepsNumbers, Zenon DEF ReadReply
<1>13. CASE Deliver
  BY <1>13, SignalKeepsNumbers, Zenon DEF Deliver
<1>14. CASE Stop
  BY <1>14, SignalKeepsNumbers, Zenon DEF Stop, FailPending
<1>15. ASSUME NEW k \in Closers, Close(k) PROVE Numbers'
  BY <1>15, SignalKeepsNumbers, Zenon DEF Close, CloseBody, FailPending
<1>16. CASE HbClose
  BY <1>16, SignalKeepsNumbers, Zenon DEF HbClose, CloseBody, FailPending
<1>17. CASE Quiet
  BY <1>17, SignalKeepsNumbers, Zenon DEF Quiet
<1> QED
  BY <1>1, <1>2, <1>3, <1>4, <1>5, <1>6, <1>7, <1>8, <1>9,
     <1>10, <1>11, <1>12, <1>13, <1>14, <1>15, <1>16, <1>17, Effects, Zenon

\* Entries may leave the table.
LEMMA CarriedKept ==
  ASSUME CallTypes, Carried, NEW n, pending' = pending \/ pending' = [pending EXCEPT ![n] = NoCall],
         UNCHANGED <<mySeq, wire, inbox, inPc, cur, res>>
  PROVE  Carried'
<1>1. \A s \in Seqs : pending'[s] # NoCall => pending'[s] = pending[s]
  BY Zenon DEF CallTypes
<1> QED
  BY <1>1, Zenon DEF Carried

\* A call that had no number is entered under the one it gets.
LEMMA CarriedNew ==
  ASSUME CallTypes, Carried, NEW c \in Calls, mySeq[c] = -1, NEW n \in Seqs,
         pending' = [pending EXCEPT ![n] = c], mySeq' = [mySeq EXCEPT ![c] = n],
         UNCHANGED <<wire, inbox, inPc, cur, res>>
  PROVE  Carried'
<1>1. mySeq'[c] = n /\ \A d \in Calls \ {c} : mySeq'[d] = mySeq[d]
  BY Zenon DEF CallTypes
<1>2. pending'[n] = c /\ \A s \in Seqs \ {n} : pending'[s] = pending[s]
  BY Zenon DEF CallTypes
<1>3. \A r \in wire \cup inbox : r.call \in Calls /\ r.seq \in Seqs
  BY Zenon DEF CallTypes, Requests, Replies
<1>4. \A s \in Seqs : s # -1 /\ pending[s] \in Calls \cup {NoCall}
  BY Constants, Zenon DEF CallTypes
<1>5. \A s \in Seqs : pending'[s] # NoCall => mySeq'[pending'[s]] = s
  <2> SUFFICES ASSUME NEW s \in Seqs \ {n}, pending[s] # NoCall PROVE mySeq'[pending[s]] = s
    BY <1>1, <1>2, Zenon
  <2>1. mySeq[pending[s]] = s /\ pending[s] \in Calls
    BY <1>4, Zenon DEF Carried
  <2> QED
    BY <1>1, <1>4, <2>1, Zenon
<1>6. \A r \in wire \cup inbox : mySeq'[r.call] = r.seq
  BY <1>1, <1>3, <1>4, Zenon DEF Carried
<1>7. inPc = "deliver" => mySeq'[cur] = res.seq /\ mySeq'[res.call] = res.seq
  <2> SUFFICES ASSUME inPc = "deliver" PROVE mySeq'[cur] = res.seq /\ mySeq'[res.call] = res.seq
    BY Zenon
  <2>1. cur # NoCall /\ mySeq[cur] = res.seq /\ res \in Replies /\ mySeq[res.call] = res.seq
    BY Zenon DEF Carried
  <2>2. cur \in Calls /\ res.call \in Calls /\ res.seq \in Seqs
    BY <2>1, Zenon DEF CallTypes, Replies
  <2> QED
    BY <1>1, <1>4, <2>1, <2>2, Zenon
<1> QED
  BY <1>5, <1>6, <1>7, Zenon DEF Carried

LEMMA CarriedNext ==
  ASSUME RawSeqsFresh, CallTypes, Numbers, Carried, [Next]_vars
  PROVE  Carried'
<1> USE DEF notCaller, lockVars, callVars, poolVars, netVars, inputVars,
            chanVars, hbVars, userVars, notInput
<1>1. ASSUME NEW c \in Calls, Register(c) PROVE Carried'
  <2>1. mySeq[c] = -1 /\ UNCHANGED <<wire, inbox, inPc, cur, res>>
    BY <1>1, Zenon DEF Register, Numbers
  <2>2. seq <= MaxSeq => seq \in Seqs
    BY Constants DEF CallTypes
  <2>3. \/ UNCHANGED <<pending, mySeq>>
        \/ \E n \in Seqs : /\ pending' = [pending EXCEPT ![n] = c]
                           /\ mySeq' = [mySeq EXCEPT ![c] = n]
    BY <1>1, <2>2, Zenon DEF Register
  <2> QED
    BY <2>1, <2>3, CarriedKept, CarriedNew, Zenon
<1>2. ASSUME NEW c \in Calls, RawRegister(c) PROVE Carried'
  <2>1. mySeq[c] = -1 /\ UNCHANGED <<wire, inbox, inPc, cur, res>>
    BY <1>2, Zenon DEF RawRegister, Numbers
  <2>2. RawSeq[c] \in Seqs
    BY <1>2, Constants, Zenon DEF RawRegister
  <2>3. pending' = [pending EXCEPT ![RawSeq[c]] = c] /\ mySeq' = [mySeq EXCEPT ![c] = RawSeq[c]]
    BY <1>2, Zenon DEF RawRegister, RawNumber
  <2> QED
    BY <2>1, <2>2, <2>3, CarriedNew, Zenon
<1>3. ASSUME NEW c \in Calls, EncodeFail(c) PROVE Carried'
  BY <1>3, CarriedKept, Zenon DEF EncodeFail
<1>4. ASSUME NEW c \in Calls, WriteFail(c) PROVE Carried'
  BY <1>4, CarriedKept, Zenon DEF WriteFail, Complete
<1>5. ASSUME NEW c \in Calls, CheckOneway(c) PROVE Carried'
  BY <1>5, CarriedKept, Zenon DEF CheckOneway
<1>6. ASSUME NEW c \in Calls, Cancel(c) PROVE Carried'
  BY <1>6, CarriedKept, Zenon DEF Cancel, Complete
<1>7. ASSUME NEW c \in Calls, RawWriteFail(c) PROVE Carried'
  BY <1>7, CarriedKept, Zenon DEF RawWriteFail, Complete
<1>8. ASSUME NEW c \in Calls, RawOneway(c) PROVE Carried'
  BY <1>8, CarriedKept, Zenon DEF RawOneway
<1>9. ASSUME NEW c \in Calls, RawCancel(c) PROVE Carried'
  BY <1>9, CarriedKept, Zenon DEF RawCancel, Complete
<1>10. ASSUME NEW c \in Calls, Moves(c) PROVE Carried'
  <2>1. /\ UNCHANGED <<pending, mySeq, inbox, inPc, cur, res>>
        /\ \A r \in wire' : r \in wire \/ (r.call = c /\ r.seq = mySeq[c])
    BY <1>10, Zenon DEF Moves
  <2> QED
    BY <2>1, Zenon DEF Carried
<1>11. ASSUME NEW r \in wire, Answer(r) PROVE Carried'
  <2>1. wire' \subseteq wire /\ UNCHANGED <<mySeq, pending, inPc, cur, res>>
    BY <1>11, Zenon DEF Answer
  <2>2. \A q \in inbox' : q \in inbox \/ (q.call = r.call /\ q.seq = r.seq)
    <3>1. PICK st : inbox' = inbox \/ inbox' = inbox \cup {[seq |-> r.seq, call |-> r.call, st |-> st]}
      BY <1>11, Zenon DEF Answer
    <3> HIDE DEF notCaller, lockVars, callVars, poolVars, netVars, inputVars,
            chanVars, hbVars, userVars, notInput
    <3> QED
      BY <3>1
  <2> QED
    BY <2>1, <2>2, Zenon DEF Carried
<1>12. CASE ReadReply
  <2>1. PICK r \in inbox : /\ inbox' = inbox \ {r}
                           /\ pending' = [pending EXCEPT ![r.seq] = NoCall]
                           /\ cur' = pending[r.seq] /\ res' = r
                           /\ inPc' = IF pending[r.seq] = NoCall THEN "read" ELSE "deliver"
    BY <1>12, Zenon DEF ReadReply
  <2>2. r \in Replies /\ r.seq \in Seqs /\ UNCHANGED <<mySeq, wire>>
    BY <1>12, Zenon DEF ReadReply, Replies, CallTypes
  <2>3. \A s \in Seqs : pending'[s] # NoCall => pending'[s] = pending[s]
    BY <2>1, Zenon DEF CallTypes
  <2>4. inPc' = "deliver" => pending[r.seq] # NoCall
    BY <2>1, Zenon
  <2> QED
    BY <2>1, <2>2, <2>3, <2>4, Zenon DEF Carried
<1>13. CASE Deliver
  <2>1. inPc' # "deliver" /\ UNCHANGED <<pending, mySeq, wire, inbox>>
    BY <1>13, Zenon DEF Deliver
  <2> QED
    BY <2>1, Zenon DEF Carried
<1>14. CASE Stop
  <2>1. inPc' # "deliver" /\ UNCHANGED <<pending, mySeq, wire, inbox>>
    BY <1>14, Zenon DEF Stop
  <2> QED
    BY <2>1, Zenon DEF Carried
<1>15. ASSUME NEW k \in Closers, Close(k) PROVE Carried'
  BY <1>15, Zenon DEF Close, CloseBody, Carried
<1>16. CASE HbClose
  BY <1>16, Zenon DEF HbClose, CloseBody, Carried
<1>17. CASE Quiet
  BY <1>17, Zenon DEF Quiet, Carried
<1> QED
  BY <1>1, <1>2, <1>3, <1>4, <1>5, <1>6, <1>7, <1>8, <1>9,
     <1>10, <1>11, <1>12, <1>13, <1>14, <1>15, <1>16, <1>17, Effects, Zenon

LEMMA ClosedConnNext ==
  ASSUME CallTypes, ClosedConn, [Next]_vars
  PROVE  ClosedConn'
<1>1. CASE Stop
  BY <1>1, Zenon DEF Stop, ClosePlugin, ClosedConn
<1>2. CASE CloseBody /\ UNCHANGED shutdown
  BY <1>2, Zenon DEF CloseBody, ClosePlugin, ClosedConn
<1> DEFINE Kept == /\ UNCHANGED <<closing, shutdown, pluginClosed>>
                   /\ conn = "closed" => conn' = "closed"
<1>3. CASE Kept
  BY <1>3, Zenon DEF ClosedConn
<1>4. Stop \/ (CloseBody /\ UNCHANGED shutdown) \/ Kept
  <2>1. ASSUME NEW c \in Calls,
               \/ Register(c) \/ RawRegister(c) \/ EncodeFail(c) \/ WriteFail(c)
               \/ CheckOneway(c) \/ Cancel(c) \/ RawWriteFail(c) \/ RawOneway(c)
               \/ RawCancel(c) \/ Moves(c)
        PROVE  Kept
    BY <2>1, Zenon DEF Register, RawRegister, EncodeFail, WriteFail, CheckOneway,
      Cancel, RawWriteFail, RawOneway, RawCancel, Moves, notCaller
  <2>2. (\E k \in Closers : Close(k)) \/ HbClose => CloseBody /\ UNCHANGED shutdown
    BY Zenon DEF Close, HbClose
  <2>3. (\E r \in wire : Answer(r)) \/ ReadReply \/ Deliver => Kept
    BY Zenon DEF Answer, ReadReply, Deliver, lockVars, netVars
  <2>4. Quiet => Kept
    BY Zenon DEF Quiet, lockVars
  <2> HIDE DEF Kept
  <2> QED
    BY <2>1, <2>2, <2>3, <2>4, Effects, Zenon
<1> QED
  BY <1>1, <1>2, <1>3, <1>4, Zenon

LEMMA RepliesNext ==
  ASSUME CallTypes, Numbers, Carried, RepliesMatch, [Next]_vars
  PROVE  RepliesMatch'
<1>1. CASE Deliver
  <2>1. cur \in Calls /\ res \in Replies /\ mySeq[cur] = res.seq /\ mySeq[res.call] = res.seq
    BY <1>1, Zenon DEF Deliver, Carried, CallTypes
  <2>2. res.call \in Calls /\ res.seq # -1
    BY <2>1, Constants, Zenon DEF Replies
  <2>3. res.call = cur
    BY <2>1, <2>2, Zenon DEF Numbers
  <2>4. reply' = [reply EXCEPT ![cur] = res.call]
    BY <1>1, Zenon DEF Deliver
  <2> QED
    BY <2>1, <2>3, <2>4, Zenon DEF RepliesMatch, CallTypes
<1>2. CASE reply' = reply
  BY <1>2, Zenon DEF RepliesMatch
<1>3. Deliver \/ reply' = reply
  BY Effects, Zenon DEF Register, RawRegister, EncodeFail, WriteFail, CheckOneway,
    Cancel, RawWriteFail, RawOneway, RawCancel, Moves, Answer, Close, HbClose,
    Stop, ReadReply, Quiet, callVars
<1> QED
  BY <1>1, <1>2, <1>3, Zenon
-----------------------------------------------------------------------------
(* The theorems *)

IInv == TypeInv /\ Numbers /\ Carried /\ ClosedConn /\ RepliesMatch

LEMMA IInvInit == Init => IInv
<1> SUFFICES ASSUME Init PROVE IInv
  BY Zenon
<1>1. TypeInv
  BY TypeInit, Zenon
<1>2. Numbers
  BY Constants DEF Init, Numbers
<1>3. Carried
  BY Zenon DEF Init, Carried
<1>4. ClosedConn /\ RepliesMatch
  BY Zenon DEF Init, ClosedConn, RepliesMatch
<1> QED
  BY <1>1, <1>2, <1>3, <1>4, Zenon DEF IInv

LEMMA IInvNext == ASSUME RawSeqsFresh PROVE IInv /\ [Next]_vars => IInv'
BY TypeNext, PartOfTypeInv, NumbersNext, CarriedNext, ClosedConnNext,
   RepliesNext, Zenon DEF IInv

LEMMA IInvAlways == ASSUME RawSeqsFresh PROVE Spec => []IInv
<1>1. IInv /\ [Next]_vars => IInv'
  BY IInvNext, Zenon
<1> QED
  BY IInvInit, <1>1, PTL DEF Spec

\* Whatever callers, input, heartbeat and Close do concurrently, a call is only
\* given the reply to its own request, provided the users of SendRaw choose
\* numbers nobody else uses.
THEOREM RepliesAreOwn == ASSUME RawSeqsFresh PROVE Spec => []RepliesMatch
BY IInvAlways, PTL DEF IInv

\* Close, heartbeat and input call the close plugin once between them.
THEOREM PluginOnce == Spec => []PluginClosedOnce
<1> DEFINE I == TypeInv /\ pluginCalls = IF pluginClosed THEN 1 ELSE 0
<1>1. Init => I
  BY TypeInit, Zenon DEF Init
<1>2. I /\ [Next]_vars => I'
  <2> SUFFICES ASSUME I, [Next]_vars PROVE (pluginCalls = IF pluginClosed THEN 1 ELSE 0)'
    BY TypeNext, Zenon
  <2>1. CASE ClosePlugin
    BY <2>1 DEF ClosePlugin, TypeInv, TypeOK
  <2>2. CASE UNCHANGED <<pluginClosed, pluginCalls>>
    BY <2>2, Zenon
  <2>3. ClosePlugin \/ UNCHANGED <<pluginClosed, pluginCalls>>
    BY Effects, PartOfTypeInv, Zenon DEF Register, RawRegister, EncodeFail, WriteFail, CheckOneway,
      Cancel, RawWriteFail, RawOneway, RawCancel, Moves, Answer, Close, CloseBody,
      HbClose, ReadReply, Deliver, Stop, Quiet, notCaller, lockVars, userVars
  <2> QED
    BY <2>1, <2>2, <2>3, Zenon
<1>3. I => PluginClosedOnce
  BY DEF PluginClosedOnce
<1> QED
  BY <1>1, <1>2, <1>3, PTL DEF Spec

\* After Close, or after input stopped, the connection takes no request, also
\* from a send that had passed its check of closing and shutdown before.
THEOREM SilentAfterClose == Spec => NothingSentAfterClose
<1> DEFINE I == TypeInv /\ ClosedConn
<1>1. Init => I
  BY TypeInit, Zenon DEF Init, ClosedConn
<1>2. I /\ [Next]_vars => I'
  BY TypeNext, PartOfTypeInv, ClosedConnNext, Zenon
<1>3. I /\ [Next]_vars => [closing \/ shutdown => wire' \subseteq wire]_vars
  <2> SUFFICES ASSUME I, Next, closing \/ shutdown PROVE wire' \subseteq wire
    BY Zenon
  <2>1. conn = "closed"
    BY Zenon DEF ClosedConn
  <2> QED
    BY <2>1, Effects, PartOfTypeInv, Zenon DEF Register, RawRegister, EncodeFail, WriteFail,
      CheckOneway, Cancel, RawWriteFail, RawOneway, RawCancel, Moves, Answer, Close,
      HbClose, ReadReply, Deliver, Stop, Quiet, netVars
<1> QED
  BY <1>1, <1>2, <1>3, PTL DEF Spec, NothingSentAfterClose

-----------------------------------------------------------------------------
(* What the parts of a step do *)

\* Who is signalled, and only they.
LEMMA SignalEffect ==
  ASSUME CallTypes, NEW S, done' = Signalled(S)
  PROVE  /\ \A d \in Calls : d \notin S => done'[d] = done[d]
         /\ \A d \in Calls : d \in S => done'[d] > 0
<1>1. done \in [Calls -> Nat] /\ \A d \in Calls : DoneCap(d) \in Nat /\ DoneCap(d) > 0
  BY Constants, Zenon DEF CallTypes
<1>2. \A d \in Calls : done'[d] = IF d \in S /\ done[d] < DoneCap(d) THEN done[d] + 1 ELSE done[d]
  BY Zenon DEF Signalled
<1>3. \A x, k \in Nat : k > 0 => x + 1 > 0 /\ (~(x < k) => x > 0)
  BY ONLY TRUE
<1>4. ASSUME NEW d \in Calls, d \in S PROVE done'[d] > 0
  <2>1. done[d] \in Nat /\ DoneCap(d) \in Nat /\ DoneCap(d) > 0
    BY <1>1, Zenon
  <2> QED
    BY <1>2, <1>3, <1>4, <2>1, Zenon
<1> QED
  BY <1>2, <1>4, Zenon

LEMMA SignalOne ==
  ASSUME CallTypes, NEW x, done' = Signalled({x})
  PROVE  /\ \A d \in Calls : d # x => done'[d] = done[d]
         /\ \A d \in Calls : d = x => done'[d] > 0
<1> DEFINE S == {x}
<1>1. \A d : d \in S <=> d = x
  BY Zenon
<1>2. done' = Signalled(S)
  BY Zenon
<1> HIDE DEF S
<1> QED
  BY <1>1, <1>2, SignalEffect, Zenon

\* Whoever completes a number touches the call that has it.
LEMMA CompleteEffect ==
  ASSUME CallTypes, NEW n \in Seqs, NEW e, Complete(n, e)
  PROVE  /\ \A d \in Calls : d # pending[n] => done'[d] = done[d] /\ err'[d] = err[d]
         /\ \A d \in Calls : d = pending[n] => done'[d] > 0 /\ err'[d] = e
         /\ pending'[n] = NoCall /\ \A s \in Seqs \ {n} : pending'[s] = pending[s]
<1>1. done' = Signalled({pending[n]}) /\ pending' = [pending EXCEPT ![n] = NoCall]
  BY Zenon DEF Complete
<1>2. /\ \A d \in Calls : d # pending[n] => done'[d] = done[d]
      /\ \A d \in Calls : d = pending[n] => done'[d] > 0
  <2>1. PICK x : x = pending[n]
    BY Zenon
  <2>2. done' = Signalled({x})
    BY <1>1, <2>1, Zenon
  <2>3. /\ \A d \in Calls : d # x => done'[d] = done[d]
        /\ \A d \in Calls : d = x => done'[d] > 0
    BY <2>2, SignalOne, Zenon
  <2> QED
    BY <2>1, <2>3, Zenon
<1>3. pending \in [Seqs -> Calls \cup {NoCall}] /\ err \in [Calls -> Errors] /\ NoCall \notin Calls
  BY Constants, Zenon DEF CallTypes
<1>4. /\ \A d \in Calls : d # pending[n] => err'[d] = err[d]
      /\ \A d \in Calls : d = pending[n] => err'[d] = e
  BY <1>3, Zenon DEF Complete
<1>5. pending'[n] = NoCall /\ \A s \in Seqs \ {n} : pending'[s] = pending[s]
  BY <1>1, <1>3, Zenon
<1> QED
  BY <1>2, <1>4, <1>5, Zenon

LEMMA CompleteSignals ==
  ASSUME CallTypes, NEW n \in Seqs, NEW e, Complete(n, e)
  PROVE  \A d \in Calls : d = pending[n] => done'[d] > 0 /\ err'[d] = e
<1>1. PICK x : x = pending[n]
  BY Zenon
<1>2. done' = Signalled({x}) /\ err \in [Calls -> Errors]
  BY <1>1, Zenon DEF Complete, CallTypes
<1>3. \A d \in Calls : d = x => done'[d] > 0
  BY <1>2, SignalOne, Zenon
<1>4. \A d \in Calls : d = pending[n] => err'[d] = e
  BY <1>2, Constants, Zenon DEF Complete
<1> QED
  BY <1>1, <1>3, <1>4, Zenon

\* Whoever fails the pending calls touches them and no other.
LEMMA FailPendingEffect ==
  ASSUME CallTypes, NEW e, FailPending(e)
  PROVE  /\ \A d \in Calls : (\A s \in Seqs : pending[s] # d) => done'[d] = done[d] /\ err'[d] = err[d]
         /\ \A d \in Calls : (\E s \in Seqs : pending[s] = d) => done'[d] > 0 /\ err'[d] = e
<1> DEFINE left == {pending[s] : s \in Seqs} \ {NoCall}
<1>1. done' = Signalled(left) /\ err' = [d \in Calls |-> IF d \in left THEN e ELSE err[d]]
  BY Zenon DEF FailPending
<1>2. \A d \in Calls : d \in left <=> \E s \in Seqs : pending[s] = d
  BY Constants, Zenon
<1> HIDE DEF left
<1>3. \A d \in Calls : (d \notin left => done'[d] = done[d]) /\ (d \in left => done'[d] > 0)
  BY <1>1, SignalEffect, Zenon
<1>4. \A d \in Calls : (d \notin left => err'[d] = err[d]) /\ (d \in left => err'[d] = e)
  BY <1>1, Zenon
<1> QED
  BY <1>2, <1>3, <1>4, Zenon

\* The end of input fails the calls with an error.
LEMMA StopEffect ==
  ASSUME Stop, inErr # "nil"
  PROVE  \E e : e # "nil" /\ FailPending(e)
<1> DEFINE e == CASE inErr = "EOF" /\ closing  -> "ErrShutdown"
                  [] inErr = "EOF" /\ ~closing -> "ErrUnexpectedEOF"
                  [] inErr # "EOF"             -> inErr
<1>1. e # "nil"
  BY Zenon
<1>2. FailPending(e)
  BY Zenon DEF Stop
<1> QED
  BY <1>1, <1>2, Zenon

\* input hands a call its reply.
LEMMA DeliverEffect ==
  ASSUME CallTypes, Carried, Deliver
  PROVE  /\ cur \in Calls /\ inPc = "deliver" /\ inPc' \in {"read", "notify"}
         /\ reply'[cur] # NoCall /\ done'[cur] > 0
         /\ \A d \in Calls \ {cur} : done'[d] = done[d] /\ err'[d] = err[d] /\ reply'[d] = reply[d]
         /\ UNCHANGED <<pending, pc, ret>>
<1>1. /\ inPc = "deliver" /\ inPc' \in {"read", "notify"} /\ UNCHANGED <<pending, pc, ret>>
      /\ done' = Signalled({cur}) /\ reply' = [reply EXCEPT ![cur] = res.call]
      /\ err' = err \/ \E e : err' = [err EXCEPT ![cur] = e]
  BY Zenon DEF Deliver, lockVars
<1>2. cur \in Calls /\ res \in Replies
  BY <1>1, Zenon DEF CallTypes, Carried
<1>3. res.call \in Calls /\ NoCall \notin Calls
  BY <1>2, Constants, Zenon DEF Replies
<1>4. reply \in [Calls -> Calls \cup {NoCall}] /\ err \in [Calls -> Errors]
  BY Zenon DEF CallTypes
<1>5. reply'[cur] = res.call /\ \A d \in Calls \ {cur} : reply'[d] = reply[d] /\ err'[d] = err[d]
  BY <1>1, <1>2, <1>4, Zenon
<1>6. done'[cur] > 0 /\ \A d \in Calls \ {cur} : done'[d] = done[d]
  BY <1>1, <1>2, SignalOne
<1> QED
  BY <1>1, <1>2, <1>3, <1>5, <1>6, Zenon

\* An entry of the table belongs to a call that has its number.
LEMMA Entries ==
  ASSUME CallTypes, Numbers, Carried
  PROVE  /\ \A s \in Seqs : pending[s] # NoCall => /\ pending[s] \in Calls /\ pc[pending[s]] # "idle"
                                                   /\ mySeq[pending[s]] = s
         /\ \A s, t \in Seqs : pending[s] = pending[t] /\ pending[s] # NoCall => s = t
         /\ \A c \in Calls : mySeq[c] # -1 => mySeq[c] \in Seqs /\ pending[mySeq[c]] \in {c, NoCall}
         /\ inPc = "deliver" => cur \in Calls
<1>1. /\ pending \in [Seqs -> Calls \cup {NoCall}] /\ -1 \notin Seqs
      /\ mySeq \in [Calls -> Seqs \cup {-1}] /\ cur \in Calls \cup {NoCall}
  BY Constants, Zenon DEF CallTypes
<1>2. \A s \in Seqs : pending[s] # NoCall => pending[s] \in Calls /\ mySeq[pending[s]] = s
  BY <1>1, Zenon DEF Carried
<1>3. \A s \in Seqs : pending[s] # NoCall => pc[pending[s]] # "idle"
  <2>1. \A c \in Calls : pc[c] = "idle" => mySeq[c] = -1
    BY Zenon DEF Numbers
  <2>2. \A s \in Seqs : s # -1
    BY <1>1, Zenon
  <2> QED
    BY <1>2, <2>1, <2>2, Zenon
<1>4. \A s, t \in Seqs : pending[s] = pending[t] /\ pending[s] # NoCall => s = t
  BY <1>2, Zenon
<1>5. \A c \in Calls : mySeq[c] # -1 => mySeq[c] \in Seqs
  BY <1>1, Zenon
<1>6. \A c, d \in Calls : mySeq[c] = mySeq[d] /\ mySeq[c] # -1 => c = d
  BY Zenon DEF Numbers
<1>7. \A c \in Calls : mySeq[c] # -1 => pending[mySeq[c]] \in {c, NoCall}
  BY <1>2, <1>5, <1>6, Zenon
<1>8. inPc = "deliver" => cur \in Calls
  BY <1>1, Zenon DEF Carried
<1> QED
  BY <1>2, <1>3, <1>4, <1>5, <1>7, <1>8, Zenon

-----------------------------------------------------------------------------
(* Who will signal whom *)

\* Someone will signal d: input, which still reads or is delivering its reply, or
\* d itself, a raw call whose write fails.
Held(d) ==
  \/ pending[mySeq[d]] = d /\ ~closing /\ ~shutdown
  \/ inPc = "deliver" /\ cur = d
  \/ pending[mySeq[d]] = d /\ conn = "closed" /\ d \in RawCalls /\ pc[d] \in {"write", "wfail"}

\* An entry of the table that is still d's, or whose removal signalled d.
Handed == \A d \in Calls : mySeq[d] # -1 /\ pending[mySeq[d]] = d => pending'[mySeq[d]] = d \/ done'[d] > 0

\* Who waited before the step.
LEMMA Waited ==
  ASSUME CallTypes, Numbers, NoStrandedCall, NEW d \in Calls, pc[d] # "idle", ret[d] = "none",
         ~(done[d] > 0)
  PROVE  Held(d) /\ mySeq[d] # -1
<1>1. done[d] \in Nat
  BY Zenon DEF CallTypes
<1>2. done[d] = 0
  BY <1>1
<1> QED
  BY <1>2, Zenon DEF NoStrandedCall, Held, Started, Numbers

LEMMA NoneStranded ==
  ASSUME \A d \in Calls : pc'[d] # "idle" /\ ret'[d] = "none" /\ ~(done'[d] > 0) => Held(d)'
  PROVE  NoStrandedCall'
<1>1. \A d \in Calls : done'[d] = 0 => ~(done'[d] > 0)
  OBVIOUS
<1> QED
  BY <1>1, Zenon DEF NoStrandedCall, Held, Started

\* Whoever removes an entry signals its call.
LEMMA RemovalHands ==
  ASSUME CallTypes, NEW n \in Seqs, pending' = [pending EXCEPT ![n] = NoCall],
         \A d \in Calls : d = pending[n] => done'[d] > 0
  PROVE  Handed
<1>1. pending \in [Seqs -> Calls \cup {NoCall}] /\ mySeq \in [Calls -> Seqs \cup {-1}]
  BY Zenon DEF CallTypes
<1>2. \A s \in Seqs \ {n} : pending'[s] = pending[s]
  BY <1>1, Zenon
<1> QED
  BY <1>1, <1>2, Zenon DEF Handed

\* A step of caller c, which others need not notice.
LEMMA CallerHands ==
  ASSUME CallTypes, Numbers, NoStrandedCall, NEW c \in Calls, NEW l, Goto(c, l), Handed,
         UNCHANGED <<mySeq, closing, shutdown, conn, inPc, cur>>,
         \A d \in Calls : ret'[d] = "none" => ret[d] = "none",
         \A d \in Calls : done[d] > 0 => done'[d] > 0,
         pc[c] # "idle" \/ done'[c] > 0,
         \/ l = "wfail" \/ done'[c] > 0 \/ ret'[c] # "none"
         \/ ~(conn = "closed" /\ c \in RawCalls /\ pc[c] \in {"write", "wfail"})
  PROVE  NoStrandedCall'
<1>1. pc'[c] = l /\ \A d \in Calls \ {c} : pc'[d] = pc[d]
  BY GotoMoves, Zenon
<1> SUFFICES ASSUME NEW d \in Calls, pc'[d] # "idle", ret'[d] = "none", ~(done'[d] > 0) PROVE Held(d)'
  BY NoneStranded, Zenon
<1>2. Held(d) /\ mySeq[d] # -1
  BY <1>1, Waited, Zenon
<1>3. pending[mySeq[d]] = d => pending'[mySeq'[d]] = d
  BY <1>2, Zenon DEF Handed
<1>4. conn = "closed" /\ d \in RawCalls /\ pc[d] \in {"write", "wfail"} => pc'[d] \in {"write", "wfail"}
  BY <1>1, Zenon
<1> QED
  BY <1>2, <1>3, <1>4, Zenon DEF Held

\* A call that had no number is entered under the one it gets.
LEMMA NewIsHeld ==
  ASSUME CallTypes, Numbers, NoStrandedCall, NEW c \in Calls, pc[c] = "idle", NEW l, Goto(c, l),
         NEW n \in Seqs, \A d \in Calls : mySeq[d] # n,
         pending' = [pending EXCEPT ![n] = c], mySeq' = [mySeq EXCEPT ![c] = n],
         UNCHANGED <<done, ret, closing, shutdown, conn, inPc, cur>>,
         (~closing /\ ~shutdown) \/ (conn = "closed" /\ c \in RawCalls /\ l = "write")
  PROVE  NoStrandedCall'
<1>1. pc'[c] = l /\ \A d \in Calls \ {c} : pc'[d] = pc[d]
  BY GotoMoves, Zenon
<1>2. pending \in [Seqs -> Calls \cup {NoCall}] /\ mySeq \in [Calls -> Seqs \cup {-1}]
  BY Zenon DEF CallTypes
<1>3. mySeq'[c] = n /\ \A d \in Calls \ {c} : mySeq'[d] = mySeq[d]
  BY <1>2, Zenon
<1>4. pending'[n] = c /\ \A s \in Seqs \ {n} : pending'[s] = pending[s]
  BY <1>2, Zenon
<1> SUFFICES ASSUME NEW d \in Calls, pc'[d] # "idle", ret'[d] = "none", ~(done'[d] > 0) PROVE Held(d)'
  BY NoneStranded, Zenon
<1>5. CASE d = c
  BY <1>1, <1>3, <1>4, <1>5, Zenon DEF Held
<1>6. CASE d # c
  <2>1. Held(d) /\ mySeq[d] # -1
    BY <1>1, <1>6, Waited, Zenon
  <2>2. mySeq'[d] = mySeq[d] /\ pending'[mySeq[d]] = pending[mySeq[d]] /\ pc'[d] = pc[d]
    BY <1>1, <1>2, <1>3, <1>4, <1>6, <2>1, Zenon
  <2> QED
    BY <2>1, <2>2, Zenon DEF Held
<1> QED
  BY <1>5, <1>6, Zenon

\* The end of the connection signals everyone in the table.
LEMMA EndSignals ==
  ASSUME CallTypes, Numbers, NoStrandedCall, NEW e, FailPending(e), UNCHANGED <<pc, mySeq, ret>>,
         inPc = "deliver" => UNCHANGED <<inPc, cur>>
  PROVE  NoStrandedCall'
<1>1. \A d \in Calls : (\E s \in Seqs : pending[s] = d) => done'[d] > 0
  BY FailPendingEffect, Zenon
<1>2. \A d \in Calls : done[d] > 0 => done'[d] > 0
  BY SignalsStay, Zenon DEF FailPending
<1>3. mySeq \in [Calls -> Seqs \cup {-1}]
  BY Zenon DEF CallTypes
<1> SUFFICES ASSUME NEW d \in Calls, pc'[d] # "idle", ret'[d] = "none", ~(done'[d] > 0) PROVE Held(d)'
  BY NoneStranded, Zenon
<1>4. Held(d) /\ mySeq[d] # -1
  BY <1>2, Waited, Zenon
<1>5. pending[mySeq[d]] # d
  BY <1>1, <1>3, <1>4, Zenon
<1> QED
  BY <1>4, <1>5, Zenon DEF Held

LEMMA StrandedNext ==
  ASSUME RawSeqsFresh, TypeInv, Numbers, Carried, ClosedConn, NoStrandedCall, [Next]_vars
  PROVE  NoStrandedCall'
<1> USE DEF notCaller, lockVars, callVars, poolVars, netVars, inputVars,
            chanVars, hbVars, userVars, notInput
<1>a. CallTypes /\ ret \in [Calls -> Errors \cup {"none"}]
  BY PartOfTypeInv, Zenon DEF TypeInv, TypeOK
<1>b. /\ pending \in [Seqs -> Calls \cup {NoCall}] /\ mySeq \in [Calls -> Seqs \cup {-1}]
      /\ ctxSeq \in [Calls -> Seqs] /\ NoCall \notin Calls
      /\ \A c \in Calls : pc[c] \in {"encode", "encfail", "write", "wfail", "free", "check", "oneway"} => mySeq[c] # -1
      /\ \A c \in RawCalls : c \in Calls /\ (pc[c] # "idle" => mySeq[c] # -1)
  BY <1>a, Constants, Zenon DEF CallTypes, Numbered
<1>c. ASSUME NEW c \in Calls, NEW e, e # "none", ret' = [ret EXCEPT ![c] = e]
      PROVE  ret'[c] # "none" /\ \A d \in Calls : ret'[d] = "none" => ret[d] = "none"
  BY <1>a, <1>c, Zenon
\* Complete, by a caller that returns with an error or goes on.
<1>d. ASSUME NEW c \in Calls, NEW n \in Seqs, NEW e, Complete(n, e), NEW l, Goto(c, l), pc[c] # "idle",
             UNCHANGED <<mySeq, closing, shutdown, conn, inPc, cur>>,
             ret' = ret \/ \E x : x # "none" /\ ret' = [ret EXCEPT ![c] = x],
             pc[c] \notin {"write", "wfail"} \/ c \notin RawCalls \/ ret' # ret
      PROVE  NoStrandedCall'
  <2>1. pending' = [pending EXCEPT ![n] = NoCall] /\ done' = Signalled({pending[n]})
    BY <1>d, Zenon DEF Complete
  <2>2. \A d \in Calls : d = pending[n] => done'[d] > 0
    BY <1>a, <1>d, CompleteEffect, Zenon
  <2>3. Handed
    BY <1>a, <2>1, <2>2, RemovalHands, Zenon
  <2>4. \A d \in Calls : done[d] > 0 => done'[d] > 0
    <3>1. \A d \in Calls : d # pending[n] => done'[d] = done[d]
      BY <1>a, <1>d, CompleteEffect, Zenon
    <3> QED
      BY <2>2, <3>1, Zenon
  <2>5. (\A d \in Calls : ret'[d] = "none" => ret[d] = "none") /\ (ret' # ret => ret'[c] # "none")
    BY <1>c, <1>d, Zenon
  <2> QED
    BY <1>a, <1>d, <2>3, <2>4, <2>5, CallerHands, Zenon
\* A one-way call leaves the table.
<1>e. ASSUME NEW c \in Calls, mySeq[c] \in Seqs, NEW l, Goto(c, l), pc[c] \notin {"idle", "write", "wfail"},
             UNCHANGED <<mySeq, closing, shutdown, conn, inPc, cur>>,
             pending' = [pending EXCEPT ![mySeq[c]] = NoCall], done' = Signalled({pending[mySeq[c]]}),
             \A d \in Calls : ret'[d] = "none" => ret[d] = "none"
      PROVE  NoStrandedCall'
  <2>0. PICK n : n = mySeq[c]
    BY Zenon
  <2>1. PICK x : x = pending[n]
    BY Zenon
  <2>2. n \in Seqs /\ done' = Signalled({x}) /\ pending' = [pending EXCEPT ![n] = NoCall]
    BY <1>e, <2>0, <2>1, Zenon
  <2>3. (\A d \in Calls : d # x => done'[d] = done[d]) /\ \A d \in Calls : d = x => done'[d] > 0
    BY <1>a, <2>2, SignalOne, Zenon
  <2>4. Handed
    BY <1>a, <2>1, <2>2, <2>3, RemovalHands, Zenon
  <2>5. \A d \in Calls : done[d] > 0 => done'[d] > 0
    BY <2>3, Zenon
  <2> QED
    BY <1>a, <1>e, <2>4, <2>5, CallerHands, Zenon
<1>1. ASSUME NEW c \in Calls, Register(c) PROVE NoStrandedCall'
  <2>0. pc[c] = "idle" /\ UNCHANGED <<ret, closing, shutdown, conn, inPc, cur>>
    BY <1>1, Zenon DEF Register
  <2>1. CASE UNCHANGED <<seq, pending, mySeq>> /\ done' = Signalled({c}) /\ Goto(c, "sent")
    <3>1. done'[c] > 0 /\ \A d \in Calls : d # c => done'[d] = done[d]
      BY <1>a, <2>1, SignalOne, Zenon
    <3>2. Handed /\ (\A d \in Calls : done[d] > 0 => done'[d] > 0) /\ \A d \in Calls : ret'[d] = "none" => ret[d] = "none"
      BY <2>0, <2>1, <3>1, Zenon DEF Handed
    <3>3. UNCHANGED <<mySeq, closing, shutdown, conn, inPc, cur>>
      BY <2>0, <2>1, Zenon
    <3> QED
      BY <1>a, <2>1, <3>1, <3>2, <3>3, CallerHands, Zenon
  <2>2. CASE /\ ~shutdown /\ ~closing /\ seq <= MaxSeq
             /\ pending' = [pending EXCEPT ![seq] = c]
             /\ mySeq' = [mySeq EXCEPT ![c] = seq]
             /\ Goto(c, "encode") /\ UNCHANGED done
    <3>1. PICK n : n = seq
      BY Zenon
    <3>2. n \in Seqs /\ \A d \in Calls : mySeq[d] # n
      BY <1>a, <2>2, <3>1, SeqIsNew, Zenon
    <3> QED
      BY <1>a, <2>0, <2>2, <3>1, <3>2, NewIsHeld, Zenon
  <2> QED
    BY <1>1, <2>1, <2>2, Zenon DEF Register
<1>2. ASSUME NEW c \in Calls, RawRegister(c) PROVE NoStrandedCall'
  <2>1. /\ c \in RawCalls /\ pc[c] = "idle" /\ Goto(c, "write") /\ mySeq[c] = -1
        /\ pending' = [pending EXCEPT ![RawSeq[c]] = c]
        /\ mySeq' = [mySeq EXCEPT ![c] = RawSeq[c]]
        /\ UNCHANGED <<done, ret, closing, shutdown, conn, inPc, cur>>
    BY <1>2, Zenon DEF RawRegister, RawNumber, Numbers
  <2>2. RawSeq[c] \in Seqs /\ \A d \in Calls : mySeq[d] # RawSeq[c]
    BY <1>a, <2>1, RawSeqIsNew, Zenon
  <2>3. (~closing /\ ~shutdown) \/ conn = "closed"
    BY Zenon DEF ClosedConn
  <2> QED
    BY <1>a, <2>1, <2>2, <2>3, NewIsHeld, Zenon
<1>3. ASSUME NEW c \in Calls, EncodeFail(c) PROVE NoStrandedCall'
  <2>1. /\ pc[c] = "encfail" /\ Goto(c, "sent") /\ pending' = [pending EXCEPT ![mySeq[c]] = NoCall]
        /\ done' = Signalled({c}) /\ UNCHANGED <<mySeq, ret, closing, shutdown, conn, inPc, cur>>
    BY <1>3, Zenon DEF EncodeFail
  <2>2. PICK n : n = mySeq[c]
    BY Zenon
  <2>3. n \in Seqs /\ pending[n] \in {c, NoCall}
    BY <1>a, <1>b, <2>1, <2>2, Entries, Zenon
  <2>4. done'[c] > 0 /\ \A d \in Calls : d # c => done'[d] = done[d]
    BY <1>a, <2>1, SignalOne, Zenon
  <2>5. Handed
    <3>1. \A d \in Calls : d = pending[n] => done'[d] > 0
      BY <1>b, <2>3, <2>4, Zenon
    <3> QED
      BY <1>a, <2>1, <2>2, <2>3, <3>1, RemovalHands, Zenon
  <2>6. (\A d \in Calls : done[d] > 0 => done'[d] > 0) /\ \A d \in Calls : ret'[d] = "none" => ret[d] = "none"
    BY <2>1, <2>4, Zenon
  <2>7. pc[c] # "idle"
    BY <2>1, Zenon
  <2> QED
    BY <1>a, <2>1, <2>4, <2>5, <2>6, <2>7, CallerHands, Zenon
<1>4. ASSUME NEW c \in Calls, WriteFail(c) PROVE NoStrandedCall'
  <2>1. /\ pc[c] = "wfail" /\ c \notin RawCalls /\ Complete(mySeq[c], "write") /\ Goto(c, "sent")
        /\ UNCHANGED <<mySeq, ret, closing, shutdown, conn, inPc, cur>>
    BY <1>4, Zenon DEF WriteFail
  <2>2. PICK n : n = mySeq[c]
    BY Zenon
  <2>3. n \in Seqs /\ pc[c] # "idle" /\ Complete(n, "write")
    BY <1>b, <2>1, <2>2, Zenon
  <2> QED
    BY <1>d, <2>1, <2>3, Zenon
<1>5. ASSUME NEW c \in Calls, CheckOneway(c) PROVE NoStrandedCall'
  <2>1. /\ pc[c] = "check" /\ Goto(c, "sent")
        /\ UNCHANGED <<mySeq, ret, closing, shutdown, conn, inPc, cur>>
    BY <1>5, Zenon DEF CheckOneway
  <2>2. mySeq[c] \in Seqs /\ pc[c] \notin {"idle", "write", "wfail"}
    BY <1>b, <2>1, Zenon
  <2>3. CASE UNCHANGED <<pending, done>>
    <3>1. Handed /\ (\A d \in Calls : done[d] > 0 => done'[d] > 0) /\ \A d \in Calls : ret'[d] = "none" => ret[d] = "none"
      BY <2>1, <2>3, Zenon DEF Handed
    <3> QED
      BY <1>a, <2>1, <2>2, <3>1, CallerHands, Zenon
  <2>4. CASE /\ pending' = [pending EXCEPT ![mySeq[c]] = NoCall]
             /\ done' = Signalled({pending[mySeq[c]]})
    BY <1>e, <2>1, <2>2, <2>4, Zenon
  <2> QED
    BY <1>5, <2>3, <2>4, Zenon DEF CheckOneway
<1>6. ASSUME NEW c \in Calls, Cancel(c) PROVE NoStrandedCall'
  <2>1. /\ pc[c] = "sent" /\ Complete(ctxSeq[c], "ctx") /\ Goto(c, "end") /\ ret' = [ret EXCEPT ![c] = "ctx"]
        /\ UNCHANGED <<mySeq, closing, shutdown, conn, inPc, cur>>
    BY <1>6, Zenon DEF Cancel
  <2>2. PICK n : n = ctxSeq[c]
    BY Zenon
  <2>3. n \in Seqs /\ pc[c] \notin {"idle", "write", "wfail"} /\ Complete(n, "ctx") /\ "ctx" # "none"
    BY <1>b, <2>1, <2>2, Zenon
  <2> QED
    BY <1>d, <2>1, <2>3, Zenon
<1>7. ASSUME NEW c \in Calls, RawWriteFail(c) PROVE NoStrandedCall'
  <2>1. /\ pc[c] = "wfail" /\ Complete(mySeq[c], "write") /\ Goto(c, "end") /\ ret' = [ret EXCEPT ![c] = "write"]
        /\ UNCHANGED <<mySeq, closing, shutdown, conn, inPc, cur>>
    BY <1>7, Zenon DEF RawWriteFail
  <2>2. PICK n : n = mySeq[c]
    BY Zenon
  <2>3. n \in Seqs /\ pc[c] # "idle" /\ Complete(n, "write") /\ "write" # "none"
    BY <1>b, <2>1, <2>2, Zenon
  <2>4. CASE ret' = ret
    <3>1. ret[c] = "write"
      BY <1>a, <2>1, <2>4, Zenon
    <3>2. \A d \in Calls : d = pending[n] => done'[d] > 0
      BY <1>a, <2>3, CompleteEffect, Zenon
    <3>3. \A d \in Calls : d # pending[n] => done'[d] = done[d]
      BY <1>a, <2>3, CompleteEffect, Zenon
    <3>4. Handed
      BY <1>a, <2>3, <3>2, RemovalHands, Zenon DEF Complete
    <3>5. (\A d \in Calls : done[d] > 0 => done'[d] > 0) /\ (\A d \in Calls : ret'[d] = "none" => ret[d] = "none")
      BY <2>4, <3>2, <3>3, Zenon
    <3>6. ret'[c] # "none"
      BY <2>3, <2>4, <3>1, Zenon
    <3> QED
      BY <1>a, <2>1, <2>3, <3>4, <3>5, <3>6, CallerHands, Zenon
  <2>5. CASE ret' # ret
    BY <1>d, <2>1, <2>3, <2>5, Zenon
  <2> QED
    BY <2>4, <2>5, Zenon
<1>8. ASSUME NEW c \in Calls, RawOneway(c) PROVE NoStrandedCall'
  <2>1. /\ pc[c] = "oneway" /\ Goto(c, "end") /\ ret' = [ret EXCEPT ![c] = "nil"]
        /\ UNCHANGED <<mySeq, closing, shutdown, conn, inPc, cur>>
        /\ pending' = [pending EXCEPT ![mySeq[c]] = NoCall] /\ done' = Signalled({pending[mySeq[c]]})
    BY <1>8, Zenon DEF RawOneway
  <2>2. mySeq[c] \in Seqs /\ pc[c] \notin {"idle", "write", "wfail"} /\ "nil" # "none"
    BY <1>b, <2>1, Zenon
  <2>3. \A d \in Calls : ret'[d] = "none" => ret[d] = "none"
    BY <1>c, <2>1, <2>2, Zenon
  <2> QED
    BY <1>e, <2>1, <2>2, <2>3, Zenon
<1>9. ASSUME NEW c \in Calls, RawCancel(c) PROVE NoStrandedCall'
  <2>1. /\ c \in RawCalls /\ pc[c] = "sent" /\ Complete(mySeq[c], "ctx") /\ Goto(c, "end")
        /\ ret' = [ret EXCEPT ![c] = "ctx"] /\ UNCHANGED <<mySeq, closing, shutdown, conn, inPc, cur>>
    BY <1>9, Zenon DEF RawCancel
  <2>2. PICK n : n = mySeq[c]
    BY Zenon
  <2>3. n \in Seqs /\ pc[c] \notin {"idle", "write", "wfail"} /\ Complete(n, "ctx") /\ "ctx" # "none"
    BY <1>b, <2>1, <2>2, Zenon
  <2> QED
    BY <1>d, <2>1, <2>3, Zenon
<1>10. ASSUME NEW c \in Calls, Moves(c) PROVE NoStrandedCall'
  <2>1. /\ pc[c] \notin {"idle", "wfail"} /\ UNCHANGED <<pending, done, mySeq, closing, shutdown, conn, inPc, cur>>
        /\ \A d \in Calls : ret'[d] = "none" => ret[d] = "none"
        /\ conn = "closed" /\ c \in RawCalls /\ pc[c] = "write" => pc'[c] = "wfail"
    BY <1>10, Zenon DEF Moves
  <2>2. PICK l : Goto(c, l)
    BY <1>10, Zenon DEF Moves
  <2>3. pc'[c] = l
    BY <1>a, <2>2, GotoMoves, Zenon
  <2>4. Handed /\ \A d \in Calls : done[d] > 0 => done'[d] > 0
    BY <2>1, Zenon DEF Handed
  <2> QED
    BY <1>a, <2>1, <2>2, <2>3, <2>4, CallerHands, Zenon
<1>11. ASSUME NEW r \in wire, Answer(r) PROVE NoStrandedCall'
  BY <1>11, Zenon DEF Answer, NoStrandedCall, Started
<1>12. CASE ReadReply
  <2>1. PICK r \in inbox : /\ pending' = [pending EXCEPT ![r.seq] = NoCall]
                           /\ cur' = pending[r.seq]
                           /\ inPc' = IF pending[r.seq] = NoCall THEN "read" ELSE "deliver"
    BY <1>12, Zenon DEF ReadReply
  <2>2. inPc # "deliver" /\ UNCHANGED <<pc, mySeq, done, ret, closing, shutdown, conn>>
    BY <1>12, Zenon DEF ReadReply
  <2>3. r.seq \in Seqs
    BY <1>a, Zenon DEF CallTypes, Replies
  <2>4. \A s \in Seqs \ {r.seq} : pending'[s] = pending[s]
    BY <1>b, <2>1, <2>3, Zenon
  <2> SUFFICES ASSUME NEW d \in Calls, pc'[d] # "idle", ret'[d] = "none", ~(done'[d] > 0) PROVE Held(d)'
    BY NoneStranded, Zenon
  <2>5. Held(d) /\ mySeq[d] # -1
    BY <1>a, <2>2, Waited, Zenon
  <2>6. pending[mySeq[d]] = d /\ mySeq[d] \in Seqs
    BY <1>b, <2>2, <2>5, Zenon DEF Held
  <2>7. CASE mySeq[d] = r.seq
    BY <1>b, <2>1, <2>6, <2>7, Zenon DEF Held
  <2>8. CASE mySeq[d] # r.seq
    <3>1. pending'[mySeq'[d]] = d
      BY <2>2, <2>4, <2>6, <2>8, Zenon
    <3> QED
      BY <2>2, <2>5, <3>1, Zenon DEF Held
  <2> QED
    BY <2>7, <2>8, Zenon
<1>13. CASE Deliver
  <2>1. done'[cur] > 0 /\ (\A d \in Calls \ {cur} : done'[d] = done[d]) /\ UNCHANGED <<pending, pc, ret>>
    BY <1>13, <1>a, DeliverEffect, Zenon
  <2>2. UNCHANGED <<mySeq, closing, shutdown, conn>>
    BY <1>13, Zenon DEF Deliver
  <2> SUFFICES ASSUME NEW d \in Calls, pc'[d] # "idle", ret'[d] = "none", ~(done'[d] > 0) PROVE Held(d)'
    BY NoneStranded, Zenon
  <2>3. d # cur /\ ~(done[d] > 0)
    BY <2>1, Zenon
  <2>4. Held(d)
    BY <1>a, <2>1, <2>3, Waited, Zenon
  <2> QED
    BY <2>1, <2>2, <2>3, <2>4, Zenon DEF Held
<1>14. CASE Stop
  <2>1. PICK e : FailPending(e)
    BY <1>14, Zenon DEF Stop
  <2>2. UNCHANGED <<pc, mySeq, ret>> /\ inPc # "deliver"
    BY <1>14, Zenon DEF Stop
  <2> QED
    BY <1>a, <2>1, <2>2, EndSignals, Zenon
<1>15. ASSUME NEW k \in Closers, Close(k) PROVE NoStrandedCall'
  <2>1. PICK e : FailPending(e)
    BY <1>15, Zenon DEF Close, CloseBody
  <2>2. UNCHANGED <<pc, mySeq, ret, inPc, cur>>
    BY <1>15, Zenon DEF Close
  <2> QED
    BY <1>a, <2>1, <2>2, EndSignals, Zenon
<1>16. CASE HbClose
  <2>1. PICK e : FailPending(e)
    BY <1>16, Zenon DEF HbClose, CloseBody
  <2>2. UNCHANGED <<pc, mySeq, ret, inPc, cur>>
    BY <1>16, Zenon DEF HbClose
  <2> QED
    BY <1>a, <2>1, <2>2, EndSignals, Zenon
<1>17. CASE Quiet
  <2>1. /\ UNCHANGED <<pending, closing, shutdown, pc, mySeq, done, ret, cur>>
        /\ conn = "closed" => conn' = "closed"
        /\ inPc' = "deliver" <=> inPc = "deliver"
    BY <1>17, Zenon DEF Quiet
  <2> QED
    BY <2>1, Zenon DEF NoStrandedCall, Started
<1> QED
  BY <1>a, <1>1, <1>2, <1>3, <1>4, <1>5, <1>6, <1>7, <1>8, <1>9,
     <1>10, <1>11, <1>12, <1>13, <1>14, <1>15, <1>16, <1>17, Effects, Zenon

\* If the users of SendRaw choose numbers nobody else uses, no call is left
\* behind: send, input, a cancellation, the end of the connection and Close
\* hand every unsignalled call to someone who will signal it.
THEOREM NobodyStranded == ASSUME RawSeqsFresh PROVE Spec => []NoStrandedCall
<1> DEFINE I == IInv /\ NoStrandedCall
<1>1. Init => I
  BY IInvInit, Zenon DEF Init, NoStrandedCall, Started
<1>2. I /\ [Next]_vars => I'
  BY IInvNext, StrandedNext, Zenon DEF IInv
<1> QED
  BY <1>1, <1>2, PTL DEF Spec

-----------------------------------------------------------------------------
(* Who holds which message *)

\* From encoding to FreeMsg a message belongs to one send, which set its bit.
\* A message bears the name of a call that has encoded.
Owner(c) == c \notin RawCalls /\ pc[c] \in {"encfail", "write", "wfail", "free"}
Owned ==
  /\ \A c \in Calls : Owner(c) => msg[c] \notin pool
  /\ \A c, d \in Calls : Owner(c) /\ Owner(d) /\ msg[c] = msg[d] => c = d
  /\ \A c \in Calls : c \in pool => pc[c] \notin {"idle", "encode"}
  /\ \A c \in Calls : Owner(c) => pc[msg[c]] \notin {"idle", "encode"}
  /\ \A c \in Calls : Owner(c) => bit[msg[c]] = (c \in OneWay)

\* Without one-way calls of Call and Go nobody signals a call that did not
\* fail and was not answered: no message has the one-way bit, and input leaves
\* its loop with an error.
NoSilentEnd ==
  /\ \A m \in Calls : bit[m] = FALSE
  /\ \A c \in Calls : pc[c] = "oneway" => c \in OneWay
  /\ inPc \in {"notify", "notifySend", "stop"} => inErr # "nil"
-----------------------------------------------------------------------------
(* Each conjunct is kept by every step *)

LEMMA OwnedKept ==
  ASSUME PoolTypes, Owned, UNCHANGED <<pool, msg, bit>>,
         \A d \in Calls : Owner(d)' => Owner(d),
         \A d \in Calls : pc[d] \notin {"idle", "encode"} => pc'[d] \notin {"idle", "encode"}
  PROVE  Owned'
<1>1. \A d \in Calls : msg[d] \in Calls
  BY Zenon DEF PoolTypes
<1> QED
  BY <1>1, Zenon DEF Owned

\* A caller that neither takes nor frees a message.
LEMMA GotoKeepsOwned ==
  ASSUME CallTypes, PoolTypes, Owned, UNCHANGED <<pool, msg, bit>>,
         NEW c \in Calls, NEW l, Goto(c, l),
         l \notin {"idle", "encode"} \/ pc[c] \in {"idle", "encode"},
         c \in RawCalls \/ l \notin {"encfail", "write", "wfail", "free"} \/ Owner(c)
  PROVE  Owned'
<1>1. pc'[c] = l /\ \A d \in Calls \ {c} : pc'[d] = pc[d]
  BY GotoMoves, Zenon
<1>2. \A d \in Calls : Owner(d)' => Owner(d)
  BY <1>1, Zenon DEF Owner
<1>3. \A d \in Calls : pc[d] \notin {"idle", "encode"} => pc'[d] \notin {"idle", "encode"}
  BY <1>1, Zenon
<1> QED
  BY <1>2, <1>3, OwnedKept, Zenon

\* A send that frees its message leaves the messages of the others alone.
LEMMA FreeMsgOwned ==
  ASSUME CallTypes, PoolTypes, Owned, NEW c \in Calls, Owner(c), FreeMsg(c),
         NEW l \in {"check", "sent"}, Goto(c, l)
  PROVE  Owned'
<1>0. pc'[c] = l /\ \A d \in Calls \ {c} : pc'[d] = pc[d]
  BY GotoMoves, Zenon
<1>1. \A d \in Calls : Owner(d)' => Owner(d) /\ d # c
  BY <1>0, Zenon DEF Owner
<1>2. \A d \in Calls : msg'[d] = msg[d] /\ msg[d] \in Calls
  BY Zenon DEF FreeMsg, PoolTypes
<1>3. \A d \in Calls : Owner(d)' => msg[d] # msg[c]
  BY <1>1, Zenon DEF Owned
<1>4. bit' = [bit EXCEPT ![msg[c]] = FALSE] /\ bit \in [Calls -> BOOLEAN]
  BY Zenon DEF FreeMsg, PoolTypes
<1>5. \A m \in Calls : m # msg[c] => bit'[m] = bit[m]
  BY <1>4, Zenon
<1>6. pool' = pool \cup {msg[c]}
  BY Zenon DEF FreeMsg
<1>7. \A d \in Calls : pc[d] \notin {"idle", "encode"} => pc'[d] \notin {"idle", "encode"}
  BY <1>0, Zenon
<1>8. \A d \in Calls : Owner(d)' => msg'[d] \notin pool'
  BY <1>1, <1>2, <1>3, <1>6, Zenon DEF Owned
<1>9. \A d \in Calls : d \in pool' => pc'[d] \notin {"idle", "encode"}
  BY <1>6, <1>7, Zenon DEF Owned
<1>10. \A d \in Calls : Owner(d)' => pc'[msg'[d]] \notin {"idle", "encode"}
  BY <1>1, <1>2, <1>7, Zenon DEF Owned
<1>11. \A d \in Calls : Owner(d)' => bit'[msg'[d]] = (d \in OneWay)
  BY <1>1, <1>2, <1>3, <1>5, Zenon DEF Owned
<1>12. \A a, b \in Calls : Owner(a)' /\ Owner(b)' /\ msg'[a] = msg'[b] => a = b
  BY <1>1, <1>2, Zenon DEF Owned
<1> QED
  BY <1>8, <1>9, <1>10, <1>11, <1>12, Zenon DEF Owned

\* A message from the pool, or a new one, is nobody else's.
LEMMA EncodeOwned ==
  ASSUME CallTypes, PoolTypes, Owned, NEW c \in Calls, Encode(c)
  PROVE  Owned'
<1>1. pc[c] = "encode" /\ \E l \in {"write", "encfail"} : Goto(c, l)
  BY Zenon DEF Encode
<1>2. PICK m \in pool \cup {c} : /\ pool' = pool \ {m}
                                 /\ msg' = [msg EXCEPT ![c] = m]
                                 /\ bit' = [bit EXCEPT ![m] = c \in OneWay]
  BY Zenon DEF Encode, TakeMsg
<1>3. /\ m \in Calls /\ pool \subseteq Calls
      /\ msg \in [Calls -> Calls] /\ bit \in [Calls -> BOOLEAN]
  BY Zenon DEF PoolTypes
<1>4. pc'[c] \in {"write", "encfail"} /\ \A d \in Calls \ {c} : pc'[d] = pc[d]
  BY <1>1, GotoMoves, Zenon
<1>5. \A d \in Calls \ {c} : Owner(d)' => Owner(d)
  BY <1>4, Zenon DEF Owner
<1>6. msg'[c] = m /\ \A d \in Calls \ {c} : msg'[d] = msg[d]
  BY <1>2, <1>3, Zenon
<1>7. bit'[m] = (c \in OneWay) /\ \A n \in Calls \ {m} : bit'[n] = bit[n]
  BY <1>2, <1>3, Zenon
<1>8. \A d \in Calls : msg[d] \in Calls
  BY <1>3, Zenon
<1>9. \A d \in Calls \ {c} : Owner(d)' => msg[d] # m
  <2> SUFFICES ASSUME NEW d \in Calls \ {c}, Owner(d)' PROVE msg[d] # m
    BY Zenon
  <2>1. Owner(d) /\ d \in Calls
    BY <1>5, Zenon
  <2>2. msg[d] \notin pool /\ pc[msg[d]] # "encode"
    BY <2>1, Zenon DEF Owned
  <2> QED
    BY <1>1, <1>2, <2>2, Zenon
<1>10. \A d \in Calls : pc[d] \notin {"idle", "encode"} => pc'[d] \notin {"idle", "encode"}
  BY <1>4, Zenon
<1>11. pc'[m] \notin {"idle", "encode"}
  BY <1>3, <1>4, <1>10, Zenon DEF Owned
<1>12. \A d \in Calls : Owner(d)' => msg'[d] \notin pool'
  <2>1. \A d \in Calls \ {c} : Owner(d)' => msg'[d] \notin pool
    BY <1>5, <1>6, Zenon DEF Owned
  <2>2. m \notin pool' /\ pool' \subseteq pool
    BY <1>2, SMT
  <2> QED
    BY <1>6, <2>1, <2>2, Zenon
<1>13. \A d \in Calls : d \in pool' => pc'[d] \notin {"idle", "encode"}
  BY <1>2, <1>10, Zenon DEF Owned
<1>14. \A d \in Calls : Owner(d)' => pc'[msg'[d]] \notin {"idle", "encode"}
  BY <1>5, <1>6, <1>8, <1>10, <1>11, Zenon DEF Owned
<1>15. \A d \in Calls : Owner(d)' => bit'[msg'[d]] = (d \in OneWay)
  <2>1. \A d \in Calls \ {c} : Owner(d)' => bit[msg[d]] = (d \in OneWay)
    BY <1>5, Zenon DEF Owned
  <2>2. \A d \in Calls \ {c} : Owner(d)' => bit'[msg[d]] = bit[msg[d]]
    BY <1>7, <1>8, <1>9, Zenon
  <2>3. \A d \in Calls \ {c} : Owner(d)' => bit'[msg'[d]] = (d \in OneWay)
    BY <1>6, <2>1, <2>2, Zenon
  <2> QED
    BY <1>6, <1>7, <2>3, Zenon
<1>16. \A a, b \in Calls : Owner(a)' /\ Owner(b)' /\ msg'[a] = msg'[b] => a = b
  BY <1>5, <1>6, <1>9, Zenon DEF Owned
<1> QED
  BY <1>12, <1>13, <1>14, <1>15, <1>16, Zenon DEF Owned

LEMMA OwnedNext ==
  ASSUME CallTypes, PoolTypes, Owned, [Next]_vars
  PROVE  Owned'
<1> USE DEF notCaller, lockVars, callVars, poolVars, netVars, inputVars,
            chanVars, hbVars, userVars, notInput
<1>0. \A c \in RawCalls : pc[c] # "free"
  BY Constants, Zenon DEF CallTypes, Numbered
<1>1. ASSUME NEW c \in Calls, Encode(c) PROVE Owned'
  BY <1>1, EncodeOwned, Zenon
<1>2. ASSUME NEW c \in Calls, Write(c) PROVE Owned'
  <2>1. Owner(c) /\ UNCHANGED <<pool, msg, bit>> /\ \E l \in {"free", "wfail"} : Goto(c, l)
    BY <1>2, Zenon DEF Write, Owner
  <2> QED
    BY <2>1, GotoKeepsOwned, Zenon
<1>3. ASSUME NEW c \in Calls, Free(c) PROVE Owned'
  <2>1. Owner(c) /\ FreeMsg(c) /\ Goto(c, "check")
    BY <1>0, <1>3, Zenon DEF Free, Owner
  <2> QED
    BY <2>1, FreeMsgOwned, Zenon
<1>4. ASSUME NEW c \in Calls, WriteFail(c) PROVE Owned'
  <2>1. Owner(c) /\ FreeMsg(c) /\ Goto(c, "sent")
    BY <1>4, Zenon DEF WriteFail, Owner
  <2> QED
    BY <2>1, FreeMsgOwned, Zenon
<1>5. ASSUME NEW c \in Calls, RawWrite(c) \/ RawRegister(c) PROVE Owned'
  <2>1. /\ c \in RawCalls /\ UNCHANGED <<pool, msg, bit>>
        /\ \E l \in {"oneway", "sent", "wfail", "write"} : Goto(c, l)
    BY <1>5, Zenon DEF RawWrite, RawRegister
  <2> QED
    BY <2>1, GotoKeepsOwned, Zenon
<1>6. ASSUME NEW c \in Calls, Register(c) PROVE Owned'
  <2>1. /\ pc[c] = "idle" /\ UNCHANGED <<pool, msg, bit>>
        /\ \E l \in {"encode", "sent"} : Goto(c, l)
    BY <1>6, Zenon DEF Register
  <2> QED
    BY <2>1, GotoKeepsOwned, Zenon
<1>7. ASSUME NEW c \in Calls, \/ EncodeFail(c) \/ CheckOneway(c) \/ Cancel(c) \/ Return(c)
                              \/ RawWriteFail(c) \/ RawOneway(c) \/ RawCancel(c)
      PROVE  Owned'
  <2>1. UNCHANGED <<pool, msg, bit>> /\ \E l \in {"sent", "end"} : Goto(c, l)
    BY <1>7, Zenon DEF EncodeFail, CheckOneway, Cancel, Return, RawWriteFail, RawOneway,
       RawCancel
  <2> QED
    BY <2>1, GotoKeepsOwned, Zenon
<1>8. CASE UNCHANGED <<pc, pool, msg, bit>>
  BY <1>8, OwnedKept, Zenon DEF Owner
<1>9. (\E r \in wire : Answer(r)) \/ (\E k \in Closers : Close(k))
       \/ ReadReply \/ Deliver \/ Stop \/ HbClose \/ Quiet => UNCHANGED <<pc, pool, msg, bit>>
  BY Zenon DEF Answer, Close, ReadReply, Deliver, Stop, HbClose, Quiet
<1> QED
  BY <1>1, <1>2, <1>3, <1>4, <1>5, <1>6, <1>7, <1>8, <1>9, Effects, Zenon DEF Moves

LEMMA WireNext ==
  ASSUME RawSeqsFresh, CallTypes, PoolTypes, Numbers, Carried, Owned, WireHeaders,
     [Next]_vars
  PROVE  WireHeaders'
<1> USE DEF notCaller, lockVars, callVars, poolVars, netVars, inputVars,
            chanVars, hbVars, userVars, notInput
<1>0. \A r \in wire : r.call \in Calls /\ mySeq[r.call] = r.seq /\ r.seq # -1
  <2>1. wire \subseteq Requests /\ \A r \in wire : mySeq[r.call] = r.seq
    BY Zenon DEF CallTypes, Carried
  <2>2. \A r \in Requests : r.call \in Calls /\ r.seq \in Seqs
    BY Zenon DEF Requests
  <2> QED
    BY <2>1, <2>2, Constants, Zenon
<1>1. ASSUME NEW c \in Calls, UNCHANGED mySeq,
             wire' = wire \cup {[seq |-> mySeq[c], call |-> c, oneway |-> c \in OneWay]}
      PROVE  WireHeaders'
  <2>1. \A r \in wire' : r \in wire \/ r = [seq |-> mySeq[c], call |-> c, oneway |-> c \in OneWay]
    BY <1>1, Zenon
  <2> DEFINE new == [seq |-> mySeq[c], call |-> c, oneway |-> c \in OneWay]
  <2>2. new.seq = mySeq[c] /\ new.call = c /\ new.oneway = (c \in OneWay)
    BY Zenon
  <2> HIDE DEF new
  <2>3. \A r \in wire' : r \in wire \/ r = new
    BY <2>1, Zenon DEF new
  <2> QED
    BY <1>1, <2>2, <2>3, Zenon DEF WireHeaders
<1>2. ASSUME NEW c \in Calls, Write(c), wire' # wire PROVE WireHeaders'
  <2>1. /\ Owner(c) /\ UNCHANGED mySeq
        /\ wire' = wire \cup {[seq |-> mySeq[c], call |-> c, oneway |-> bit[msg[c]]]}
    BY <1>2, Zenon DEF Write, Owner
  <2>2. bit[msg[c]] = (c \in OneWay)
    BY <2>1, Zenon DEF Owned
  <2> QED
    BY <1>1, <2>1, <2>2, Zenon
<1>3. ASSUME NEW c \in Calls, RawWrite(c), wire' # wire PROVE WireHeaders'
  <2>1. /\ UNCHANGED mySeq
        /\ wire' = wire \cup {[seq |-> mySeq[c], call |-> c, oneway |-> c \in OneWay]}
    BY <1>3, Zenon DEF RawWrite
  <2> QED
    BY <1>1, <2>1, Zenon
<1>4. ASSUME NEW c \in Calls, Register(c) \/ RawRegister(c) PROVE WireHeaders'
  <2>1. pc[c] = "idle" /\ wire' = wire /\ (mySeq' = mySeq \/ \E n : mySeq' = [mySeq EXCEPT ![c] = n])
    BY <1>4, Zenon DEF Register, RawRegister
  <2>2. mySeq[c] = -1 /\ mySeq \in [Calls -> Seqs \cup {-1}]
    BY <2>1, Zenon DEF Numbers, CallTypes
  <2>3. \A r \in wire : r.call # c
    BY <1>0, <2>2, Zenon
  <2>4. \A d \in Calls \ {c} : mySeq'[d] = mySeq[d]
    BY <2>1, <2>2, Zenon
  <2> QED
    BY <1>0, <2>1, <2>3, <2>4, Zenon DEF WireHeaders
<1>5. CASE wire' \subseteq wire /\ UNCHANGED mySeq
  BY <1>5, Zenon DEF WireHeaders
<1>6. (\E c \in Calls : \/ EncodeFail(c) \/ WriteFail(c) \/ CheckOneway(c)
                         \/ Cancel(c) \/ RawWriteFail(c) \/ RawOneway(c) \/ RawCancel(c)
                         \/ Encode(c) \/ Free(c) \/ Return(c) \/ ((Write(c) \/ RawWrite(c)) /\ wire' = wire))
       \/ (\E r \in wire : Answer(r)) \/ (\E k \in Closers : Close(k))
       \/ ReadReply \/ Deliver \/ Stop \/ HbClose \/ Quiet => (wire' \subseteq wire /\ UNCHANGED mySeq)
  BY Zenon DEF EncodeFail, WriteFail, CheckOneway, Cancel, RawWriteFail, RawOneway,
     RawCancel, Encode, Free, Return, Write, RawWrite, Answer, Close, ReadReply, Deliver, Stop,
     HbClose, Quiet
<1> QED
  BY <1>2, <1>3, <1>4, <1>5, <1>6, Effects, Zenon DEF Moves

\* A step of a caller after which no message has the one-way bit.
LEMMA GotoKeepsNoSilentEnd ==
  ASSUME CallTypes, NoSilentEnd, UNCHANGED <<inPc, inErr>>, \A m \in Calls : bit'[m] = FALSE,
         NEW c \in Calls, NEW l, Goto(c, l), l = "oneway" => c \in OneWay
  PROVE  NoSilentEnd'
<1>1. pc'[c] = l /\ \A d \in Calls \ {c} : pc'[d] = pc[d]
  BY GotoMoves, Zenon
<1> QED
  BY <1>1, Zenon DEF NoSilentEnd

LEMMA NoSilentEndNext ==
  ASSUME OneWay \subseteq RawCalls, CallTypes, PoolTypes, NoSilentEnd, [Next]_vars
  PROVE  NoSilentEnd'
<1> USE DEF notCaller, lockVars, callVars, poolVars, netVars, inputVars,
            chanVars, hbVars, userVars, notInput
<1>0. /\ bit \in [Calls -> BOOLEAN] /\ \A m \in Calls : bit[m] = FALSE
      /\ \A c \in RawCalls : pc[c] # "encode"
  BY Constants, Zenon DEF CallTypes, Numbered, PoolTypes, NoSilentEnd
<1>1. ASSUME NEW c \in Calls, Encode(c) PROVE NoSilentEnd'
  <2>1. /\ pc[c] = "encode" /\ \E l \in {"write", "encfail"} : Goto(c, l)
        /\ UNCHANGED <<inPc, inErr>> /\ \E m : bit' = [bit EXCEPT ![m] = c \in OneWay]
    BY <1>1, Zenon DEF Encode
  <2>2. c \notin OneWay
    BY <1>0, <2>1, Zenon
  <2>3. PICK m : bit' = [bit EXCEPT ![m] = c \in OneWay]
    BY <2>1, Zenon
  <2>4. \A n \in Calls : bit'[n] = FALSE
    <3>1. \A n \in Calls : bit'[n] = bit[n] \/ bit'[n] = (c \in OneWay)
      BY <1>0, <2>3, Zenon
    <3>2. (c \in OneWay) = FALSE
      BY <2>2
    <3> QED
      BY <1>0, <3>1, <3>2, Zenon
  <2> QED
    BY <2>1, <2>4, GotoKeepsNoSilentEnd, Zenon
<1>2. ASSUME NEW c \in Calls, Free(c) \/ WriteFail(c) PROVE NoSilentEnd'
  <2>1. /\ \E l \in {"check", "sent"} : Goto(c, l)
        /\ UNCHANGED <<inPc, inErr>> /\ bit' = [bit EXCEPT ![msg[c]] = FALSE]
    BY <1>2, Zenon DEF Free, WriteFail, FreeMsg
  <2>2. \A m \in Calls : bit'[m] = FALSE
    BY <1>0, <2>1, Zenon
  <2> QED
    BY <2>1, <2>2, GotoKeepsNoSilentEnd, Zenon
<1>3. ASSUME NEW c \in Calls, RawWrite(c) PROVE NoSilentEnd'
  <2>1. /\ (c \in OneWay /\ Goto(c, "oneway")) \/ Goto(c, "sent") \/ Goto(c, "wfail")
        /\ UNCHANGED <<inPc, inErr, bit>>
    BY <1>3, Zenon DEF RawWrite
  <2> QED
    BY <1>0, <2>1, GotoKeepsNoSilentEnd, Zenon
<1>4. ASSUME NEW c \in Calls, \/ Register(c) \/ RawRegister(c) \/ EncodeFail(c) \/ CheckOneway(c)
                              \/ Cancel(c) \/ RawWriteFail(c) \/ RawOneway(c) \/ RawCancel(c)
                              \/ Write(c) \/ Return(c)
      PROVE  NoSilentEnd'
  <2>1. /\ \E l \in {"encode", "write", "wfail", "free", "sent", "end"} : Goto(c, l)
        /\ UNCHANGED <<inPc, inErr, bit>>
    BY <1>4, Zenon DEF Register, RawRegister, EncodeFail, CheckOneway, Cancel, RawWriteFail,
       RawOneway, RawCancel, Write, Return
  <2> QED
    BY <1>0, <2>1, GotoKeepsNoSilentEnd, Zenon
<1>5. CASE /\ UNCHANGED <<pc, bit>>
           /\ inPc' \in {"notify", "notifySend", "stop"} =>
                inErr' # "nil" \/ (inPc \in {"notify", "notifySend", "stop"} /\ inErr' = inErr)
  BY <1>5, Zenon DEF NoSilentEnd
<1>6. CASE Deliver
  <2>1. UNCHANGED <<pc, bit>> /\ (inPc' = "read" \/ inErr' = "decode")
    BY <1>6, Zenon DEF Deliver
  <2> QED
    BY <1>5, <2>1, Zenon
<1>7. (\E r \in wire : Answer(r)) \/ (\E k \in Closers : Close(k)) \/ HbClose \/ ReadReply
        \/ Stop \/ Quiet
        => /\ UNCHANGED <<pc, bit>>
           /\ inPc' \in {"notify", "notifySend", "stop"} =>
                inErr' # "nil" \/ (inPc \in {"notify", "notifySend", "stop"} /\ inErr' = inErr)
  BY Zenon DEF Answer, Close, HbClose, ReadReply, Stop, Quiet
<1> QED
  BY <1>1, <1>2, <1>3, <1>4, <1>5, <1>6, <1>7, Effects, Zenon DEF Moves

LEMMA FalseSuccessNext ==
  ASSUME OneWay \subseteq RawCalls, CallTypes, PoolTypes, Numbers, Carried, NoSilentEnd, NoFalseSuccess, [Next]_vars
  PROVE  NoFalseSuccess'
<1> USE DEF notCaller, lockVars, callVars, poolVars, netVars, inputVars,
            chanVars, hbVars, userVars, notInput
<1>0. TwoWay \subseteq Calls /\ \A c \in TwoWay : c \notin OneWay
  BY Zenon DEF TwoWay
<1>1. ASSUME \A d \in TwoWay : \/ done'[d] = done[d] /\ err'[d] = err[d] /\ reply'[d] = reply[d]
                               \/ err'[d] # "nil" \/ reply'[d] # NoCall
      PROVE  NoFalseSuccess'
  BY <1>1, Zenon DEF NoFalseSuccess
<1>2. CASE UNCHANGED <<done, err, reply>>
  BY <1>1, <1>2, Zenon
<1>3. ASSUME NEW c \in Calls, NEW e, e # "nil", err' = [err EXCEPT ![c] = e], done' = Signalled({c}),
             UNCHANGED reply
      PROVE  NoFalseSuccess'
  <2>1. err \in [Calls -> Errors]
    BY Zenon DEF CallTypes
  <2>2. err'[c] = e /\ \A d \in Calls \ {c} : err'[d] = err[d]
    BY <1>3, <2>1, Zenon
  <2>3. \A d \in Calls \ {c} : done'[d] = done[d]
    BY <1>3, SignalOne
  <2> QED
    BY <1>0, <1>1, <1>3, <2>2, <2>3, Zenon
<1>4. ASSUME NEW c \in Calls, Register(c) PROVE NoFalseSuccess'
  <2>1. \/ UNCHANGED <<done, err, reply>>
        \/ \E e \in {"ErrShutdown", "ErrUnsupportedCodec"} :
             err' = [err EXCEPT ![c] = e] /\ done' = Signalled({c}) /\ UNCHANGED reply
    BY <1>4, Zenon DEF Register
  <2> QED
    BY <1>2, <1>3, <2>1, Zenon
<1>5. ASSUME NEW c \in Calls, EncodeFail(c) PROVE NoFalseSuccess'
  <2>1. err' = [err EXCEPT ![c] = "encode"] /\ done' = Signalled({c}) /\ UNCHANGED reply
    BY <1>5, Zenon DEF EncodeFail
  <2> QED
    BY <1>3, <2>1, Zenon
<1>6. ASSUME NEW n \in Seqs, NEW e, e # "nil", Complete(n, e), UNCHANGED reply PROVE NoFalseSuccess'
  <2>1. /\ \A d \in Calls : d # pending[n] => done'[d] = done[d] /\ err'[d] = err[d]
        /\ \A d \in Calls : d = pending[n] => err'[d] = e
    BY <1>6, CompleteEffect
  <2> QED
    BY <1>0, <1>1, <1>6, <2>1, Zenon
<1>7. ASSUME NEW c \in Calls, WriteFail(c) \/ RawWriteFail(c) \/ Cancel(c) \/ RawCancel(c)
      PROVE  NoFalseSuccess'
  <2>1. /\ \E n, e : /\ Complete(n, e) /\ e \in {"write", "ctx"}
                     /\ \/ n = mySeq[c] /\ pc[c] = "wfail"
                        \/ n = mySeq[c] /\ c \in RawCalls /\ pc[c] = "sent"
                        \/ n = ctxSeq[c]
        /\ UNCHANGED reply
    BY <1>7, Zenon DEF WriteFail, RawWriteFail, Cancel, RawCancel
  <2>2. /\ ctxSeq[c] \in Seqs
        /\ pc[c] = "wfail" => mySeq[c] \in Seqs
        /\ c \in RawCalls /\ pc[c] = "sent" => mySeq[c] \in Seqs
    BY Zenon DEF CallTypes, Numbered
  <2> QED
    BY <1>6, <2>1, <2>2, Zenon
<1>8. ASSUME NEW c \in Calls, CheckOneway(c) PROVE NoFalseSuccess'
  <2>1. ~bit[msg[c]]
    BY Zenon DEF NoSilentEnd, PoolTypes
  <2>2. UNCHANGED <<done, err, reply>>
    BY <1>8, <2>1, Zenon DEF CheckOneway
  <2> QED
    BY <1>2, <2>2, Zenon
<1>9. ASSUME NEW c \in Calls, RawOneway(c) PROVE NoFalseSuccess'
  <2>1. /\ pc[c] = "oneway" /\ UNCHANGED <<err, reply>>
        /\ done' = Signalled({pending[mySeq[c]]})
    BY <1>9, Zenon DEF RawOneway
  <2>2. c \in OneWay /\ mySeq[c] # -1
    BY <2>1, Zenon DEF NoSilentEnd, CallTypes, Numbered
  <2>3. pending[mySeq[c]] \in {c, NoCall} /\ NoCall \notin Calls
    BY <2>2, Entries, Constants, Zenon
  <2>4. \A d \in TwoWay : d # pending[mySeq[c]]
    BY <1>0, <2>2, <2>3, Zenon
  <2>5. \A d \in TwoWay : done'[d] = done[d]
    BY <1>0, <2>1, <2>4, SignalOne, Zenon
  <2> QED
    BY <1>1, <2>1, <2>5, Zenon
<1>10. CASE Deliver
  BY <1>0, <1>1, <1>10, DeliverEffect, Zenon
<1>11. ASSUME NEW e, e # "nil", FailPending(e), UNCHANGED reply PROVE NoFalseSuccess'
  <2>1. /\ \A d \in Calls : (\A s \in Seqs : pending[s] # d) => done'[d] = done[d] /\ err'[d] = err[d]
        /\ \A d \in Calls : (\E s \in Seqs : pending[s] = d) => err'[d] = e
    BY <1>11, FailPendingEffect, Zenon
  <2> QED
    BY <1>0, <1>1, <1>11, <2>1, Zenon
<1>12. CASE Stop
  <2>1. inErr # "nil" /\ UNCHANGED reply
    BY <1>12, Zenon DEF Stop, NoSilentEnd
  <2> QED
    BY <1>11, <1>12, <2>1, StopEffect, Zenon
<1>13. ASSUME NEW k \in Closers, Close(k) PROVE NoFalseSuccess'
  <2>1. FailPending("ErrShutdown") /\ UNCHANGED reply
    BY <1>13, Zenon DEF Close, CloseBody
  <2> QED
    BY <1>11, <2>1, Zenon
<1>14. CASE HbClose
  <2>1. FailPending("ErrShutdown") /\ UNCHANGED reply
    BY <1>14, Zenon DEF HbClose, CloseBody
  <2> QED
    BY <1>11, <2>1, Zenon
<1>15. (\E c \in Calls : RawRegister(c) \/ Moves(c)) \/ (\E r \in wire : Answer(r)) \/ ReadReply \/ Quiet
         => UNCHANGED <<done, err, reply>>
  BY Zenon DEF RawRegister, Moves, Answer, ReadReply, Quiet
<1> QED
  BY <1>2, <1>4, <1>5, <1>7, <1>8, <1>9, <1>10, <1>12, <1>13, <1>14, <1>15, Effects, Zenon
-----------------------------------------------------------------------------
(* The theorems *)

LEMMA MsgInvAlways == ASSUME RawSeqsFresh PROVE Spec => [](IInv /\ Owned /\ WireHeaders)
<1> DEFINE I == IInv /\ Owned /\ WireHeaders
<1>1. Init => I
  BY IInvInit, Zenon DEF Init, Owned, Owner, WireHeaders
<1>2. I /\ [Next]_vars => I'
  BY IInvNext, PartOfTypeInv, OwnedNext, WireNext, Zenon DEF IInv
<1> QED
  BY <1>1, <1>2, PTL DEF Spec

\* A message of protocol.msgPool is in the hands of one send until it is
\* written, so the header on the wire is that of the call it was written for.
THEOREM HeadersAreOwn == ASSUME RawSeqsFresh PROVE Spec => []WireHeaders
BY MsgInvAlways, PTL

\* If no one-way call is made with Call and Go, a two-way call that is
\* signalled without an error was answered.  (With one, CheckOneway may look at
\* the header of a message that is already another call's.)
THEOREM SuccessIsReal ==
  ASSUME RawSeqsFresh, OneWay \subseteq RawCalls
  PROVE  Spec => []NoFalseSuccess
<1> DEFINE I == IInv /\ NoSilentEnd /\ NoFalseSuccess
<1>1. Init => I
  <2> SUFFICES ASSUME Init PROVE NoSilentEnd /\ NoFalseSuccess
    BY IInvInit, Zenon
  <2> QED
    BY DEF Init, NoSilentEnd, NoFalseSuccess, TwoWay
<1>2. I /\ [Next]_vars => I'
  BY IInvNext, PartOfTypeInv, NoSilentEndNext, FalseSuccessNext, Zenon DEF IInv
<1> QED
  BY <1>1, <1>2, PTL DEF Spec
-----------------------------------------------------------------------------
(* The promise *)

\* A caller that has left Conn.Write behind, or never came to it.
Written(c) == pc[c] \in {"free", "check", "oneway", "sent", "end"}

\* Only what was written is answered.
Answered ==
  /\ \A r \in wire \cup inbox : Written(r.call)
  /\ inPc = "deliver" => Written(cur)
  /\ \A c \in Calls : reply[c] # NoCall => Written(c)

\* A call that was signalled is out of the table, or input has failed it and
\* stopped; the one input is delivering is nobody else's to signal.  A function
\* that returned success had the reply.
OnceSignalled ==
  /\ \A c \in Calls : pc[c] = "idle" => done[c] = 0
  /\ \A c \in Calls : pc[c] # "end" => ret[c] = "none"
  /\ \A s \in Seqs : pending[s] # NoCall /\ done[pending[s]] > 0
                       => inPc = "exited" /\ err[pending[s]] # "nil"
  /\ inPc = "deliver" => done[cur] = 0 /\ \A s \in Seqs : pending[s] # cur
  /\ \A c \in TwoWay : ret[c] = "nil" => reply[c] # NoCall

LEMMA GotoKeepsWritten ==
  ASSUME CallTypes, NEW c \in Calls, NEW l, Goto(c, l),
         Written(c) => l \in {"free", "check", "oneway", "sent", "end"}
  PROVE  \A d \in Calls : Written(d) => Written(d)'
<1>1. pc'[c] = l /\ \A d \in Calls \ {c} : pc'[d] = pc[d]
  BY GotoMoves, Zenon
<1> QED
  BY <1>1, Zenon DEF Written

LEMMA AnsweredNext ==
  ASSUME CallTypes, Numbers, Carried, Answered, [Next]_vars
  PROVE  Answered'
<1> USE DEF notCaller, lockVars, callVars, poolVars, netVars, inputVars,
            chanVars, hbVars, userVars, notInput
<1>1. \A r \in wire \cup inbox : r.call \in Calls /\ r.seq \in Seqs
  <2>1. wire \subseteq Requests /\ inbox \subseteq Replies
    BY Zenon DEF CallTypes
  <2>2. \A r \in Requests \cup Replies : r.call \in Calls /\ r.seq \in Seqs
    BY Zenon DEF Requests, Replies
  <2> QED
    BY <2>1, <2>2, Zenon
<1>0. inPc = "deliver" => cur \in Calls
  BY Entries, Zenon
\* A step of a caller, who may write.
<1>2. ASSUME UNCHANGED <<inbox, inPc, cur, reply>>, \A d \in Calls : Written(d) => Written(d)',
             \A r \in wire' : r \in wire \/ (r.call \in Calls /\ Written(r.call)')
      PROVE  Answered'
  <2>1. \A r \in wire' \cup inbox' : Written(r.call)'
    BY <1>1, <1>2, Zenon DEF Answered
  <2>2. inPc' = "deliver" => Written(cur)'
    <3>1. inPc = "deliver" => pc'[cur] \in {"free", "check", "oneway", "sent", "end"}
      BY <1>0, <1>2, Zenon DEF Answered, Written
    <3> QED
      BY <1>2, <3>1, Zenon DEF Written
  <2>3. \A c \in Calls : reply'[c] # NoCall => Written(c)'
    BY <1>2, Zenon DEF Answered
  <2> QED
    BY <2>1, <2>2, <2>3, Zenon DEF Answered
<1>3. ASSUME NEW c \in Calls, Write(c) \/ RawWrite(c) PROVE Answered'
  <2>1. UNCHANGED <<inbox, inPc, cur, reply>> /\ pc[c] = "write"
    BY <1>3, Zenon DEF Write, RawWrite
  <2>2. PICK l : Goto(c, l) /\ (l \in {"free", "oneway", "sent"} \/ wire' = wire)
    BY <1>3, Zenon DEF Write, RawWrite
  <2>3. \A d \in Calls : Written(d) => Written(d)'
    BY <2>1, <2>2, GotoKeepsWritten, Zenon DEF Written
  <2>4. \A r \in wire' : r \in wire \/ r.call = c
    <3>1. wire' = wire \/ \E b : wire' = wire \cup {[seq |-> mySeq[c], call |-> c, oneway |-> b]}
      BY <1>3, Zenon DEF Write, RawWrite
    <3> QED
      BY <3>1
  <2>5. wire' = wire \/ Written(c)'
    BY <2>2, GotoMoves, Zenon DEF Written
  <2> QED
    BY <1>2, <2>1, <2>3, <2>4, <2>5, Zenon
<1>4. ASSUME NEW c \in Calls,
             \/ Register(c) \/ RawRegister(c) \/ EncodeFail(c) \/ WriteFail(c)
             \/ CheckOneway(c) \/ Cancel(c) \/ RawWriteFail(c) \/ RawOneway(c)
             \/ RawCancel(c) \/ Encode(c) \/ Free(c) \/ Return(c)
      PROVE  Answered'
  <2>1. UNCHANGED <<wire, inbox, inPc, cur, reply>>
    BY <1>4, Zenon DEF Register, RawRegister, EncodeFail, WriteFail, CheckOneway,
       Cancel, RawWriteFail, RawOneway, RawCancel, Encode, Free, Return
  <2>2. PICK l : Goto(c, l) /\ (Written(c) => l \in {"check", "sent", "end"})
    BY <1>4, Zenon DEF Register, RawRegister, EncodeFail, WriteFail, CheckOneway,
       Cancel, RawWriteFail, RawOneway, RawCancel, Encode, Free, Return, Written
  <2>3. \A d \in Calls : Written(d) => Written(d)'
    BY <2>2, GotoKeepsWritten, Zenon
  <2> QED
    BY <1>2, <2>1, <2>3, Zenon
<1>5. ASSUME NEW r \in wire, Answer(r) PROVE Answered'
  <2>1. /\ UNCHANGED <<pc, inPc, cur, reply>> /\ wire' \subseteq wire
        /\ inbox' = inbox \/ \E st \in Results : inbox' = inbox \cup {[seq |-> r.seq, call |-> r.call, st |-> st]}
    BY <1>5, Zenon DEF Answer
  <2>2. \A q \in inbox' : q \in inbox \/ q.call = r.call
    BY <2>1
  <2>3. \A d : Written(d) => pc'[d] \in {"free", "check", "oneway", "sent", "end"}
    BY <2>1, Zenon DEF Written
  <2>4. \A q \in wire' \cup inbox' : Written(q.call)
    BY <2>1, <2>2, Zenon DEF Answered
  <2> QED
    BY <2>1, <2>4, Zenon DEF Answered, Written
<1>6. CASE ReadReply
  <2>1. PICK r \in inbox : /\ inbox' = inbox \ {r}
                           /\ cur' = pending[r.seq]
                           /\ inPc' = IF pending[r.seq] = NoCall THEN "read" ELSE "deliver"
    BY <1>6, Zenon DEF ReadReply
  <2>2. /\ r.seq \in Seqs /\ r.call \in Calls /\ mySeq[r.call] = r.seq /\ mySeq[r.call] # -1
        /\ Written(r.call)
    BY <1>1, Constants, Zenon DEF Carried, Answered
  <2>3. pending[r.seq] # NoCall => pending[r.seq] = r.call
    BY <2>2, Entries, Zenon
  <2>4. UNCHANGED <<wire, pc, reply>> /\ inbox' \subseteq inbox
    BY <1>6, Zenon DEF ReadReply
  <2>5. inPc' = "deliver" => cur' = r.call
    BY <2>1, <2>3, Zenon
  <2> QED
    BY <2>2, <2>4, <2>5, Zenon DEF Answered, Written
<1>7. CASE Deliver
  <2>1. /\ UNCHANGED <<wire, inbox, pc>> /\ cur \in Calls /\ Written(cur) /\ inPc' # "deliver"
        /\ \A d \in Calls \ {cur} : reply'[d] = reply[d]
    BY <1>7, DeliverEffect, Zenon DEF Answered, Deliver
  <2> QED
    BY <2>1, Zenon DEF Answered, Written
<1>8. CASE UNCHANGED <<wire, inbox, pc, reply, cur>> /\ (inPc' = "deliver" => inPc = "deliver")
  BY <1>8, Zenon DEF Answered, Written
<1>9. (\E k \in Closers : Close(k)) \/ Stop \/ HbClose \/ Quiet
        => UNCHANGED <<wire, inbox, pc, reply, cur>> /\ (inPc' = "deliver" => inPc = "deliver")
  BY Zenon DEF Close, Stop, HbClose, Quiet
<1> QED
  BY <1>3, <1>4, <1>5, <1>6, <1>7, <1>8, <1>9, Effects, Zenon DEF Moves

\* A step of caller c to l in which x is signalled, or nobody.
LEMMA CallerKeepsOnce ==
  ASSUME CallTypes, OnceSignalled, NEW x,
         NEW c \in Calls, NEW l, l # "idle", Goto(c, l), pc[c] # "end",
         UNCHANGED <<inPc, cur, reply>>,
         \A d \in Calls \ {c} : ret'[d] = ret[d], l = "end" \/ ret'[c] = ret[c],
         ret'[c] = "nil" => c \in OneWay \/ reply[c] # NoCall,
         \A d \in Calls \ {x} : done'[d] = done[d],
         x = c \/ x \notin Calls \/ pc[x] # "idle",
         \A s \in Seqs : pending'[s] # NoCall =>
            /\ pending'[s] \in Calls /\ pending'[s] # x
            /\ \/ pending'[s] = pending[s] /\ err'[pending[s]] = err[pending[s]]
               \/ ~(done[pending'[s]] > 0),
         inPc = "deliver" => cur \in Calls /\ cur # x /\ \A s \in Seqs : pending'[s] # cur
  PROVE  OnceSignalled'
<1>1. pc'[c] = l /\ \A d \in Calls \ {c} : pc'[d] = pc[d]
  BY GotoMoves, Zenon
<1>2. \A d \in Calls : pc'[d] = "idle" => done'[d] = 0
  <2>1. \A d \in Calls : pc'[d] = "idle" => d # c /\ pc[d] = "idle" /\ d # x
    BY <1>1, Zenon
  <2> QED
    BY <2>1, Zenon DEF OnceSignalled
<1>3. \A d \in Calls : pc'[d] # "end" => ret'[d] = "none"
  BY <1>1, Zenon DEF OnceSignalled
<1>4. \A s \in Seqs : pending'[s] # NoCall /\ done'[pending'[s]] > 0
                        => inPc' = "exited" /\ err'[pending'[s]] # "nil"
  <2> SUFFICES ASSUME NEW s \in Seqs, pending'[s] # NoCall, done'[pending'[s]] > 0
               PROVE  inPc' = "exited" /\ err'[pending'[s]] # "nil"
    BY Zenon
  <2>1. pending'[s] \in Calls \ {x} /\ done'[pending'[s]] = done[pending'[s]]
    BY Zenon
  <2>2. pending'[s] = pending[s] /\ err'[pending[s]] = err[pending[s]]
    BY <2>1, Zenon
  <2>3. inPc = "exited" /\ err[pending[s]] # "nil"
    BY <2>1, <2>2, Zenon DEF OnceSignalled
  <2> QED
    BY <2>2, <2>3, Zenon
<1>5. inPc' = "deliver" => done'[cur'] = 0 /\ \A s \in Seqs : pending'[s] # cur'
  <2>1. inPc = "deliver" => done'[cur] = 0
    BY Zenon DEF OnceSignalled
  <2> QED
    BY <2>1, Zenon
<1>6. \A d \in TwoWay : ret'[d] = "nil" => reply'[d] # NoCall
  BY Zenon DEF OnceSignalled, TwoWay
<1> QED
  BY <1>2, <1>3, <1>4, <1>5, <1>6, Zenon DEF OnceSignalled

LEMMA OnceSignalledNext ==
  ASSUME OneWay \subseteq RawCalls, TypeInv, Numbers, Carried, NoSilentEnd,
         NoFalseSuccess, Answered, OnceSignalled, [Next]_vars
  PROVE  OnceSignalled'
<1> CallTypes /\ PoolTypes
  BY PartOfTypeInv, Zenon
<1> USE DEF notCaller, lockVars, callVars, poolVars, netVars, inputVars,
            chanVars, hbVars, userVars, notInput
<1>0. /\ ret \in [Calls -> Errors \cup {"none"}] /\ err \in [Calls -> Errors]
      /\ pending \in [Seqs -> Calls \cup {NoCall}] /\ NoCall \notin Calls
      /\ \A c \in Calls : ctxSeq[c] \in Seqs /\ done[c] \in Nat
  BY Constants, Zenon DEF CallTypes, TypeInv, TypeOK
<1>1. inPc = "deliver" => /\ cur \in Calls /\ pc[cur] \in {"free", "check", "oneway", "sent", "end"}
                          /\ done[cur] = 0 /\ \A s \in Seqs : pending[s] # cur
  BY Entries, Zenon DEF Answered, Written, OnceSignalled
<1>2. \A s, t \in Seqs : pending[s] = pending[t] /\ pending[s] # NoCall => s = t
  BY Entries, Zenon
<1>3. \A s \in Seqs : pending[s] # NoCall => pending[s] \in Calls /\ pc[pending[s]] # "idle"
  BY Entries, Zenon
<1>4. \A c \in Calls : /\ pc[c] \in {"encfail", "wfail", "oneway"} => mySeq[c] \in Seqs
                       /\ c \in RawCalls /\ pc[c] = "sent" => mySeq[c] \in Seqs
                       /\ pc[c] = "idle" => ~(done[c] > 0)
  <2>1. ~(0 > 0)
    OBVIOUS
  <2>2. \A c \in Calls : pc[c] = "idle" => done[c] = 0
    BY Zenon DEF OnceSignalled
  <2>3. \A c \in Calls : /\ pc[c] \in {"encfail", "wfail", "oneway"} => mySeq[c] \in Seqs
                         /\ c \in RawCalls /\ pc[c] = "sent" => mySeq[c] \in Seqs
    BY Zenon DEF CallTypes, Numbered
  <2> QED
    BY <2>1, <2>2, <2>3, Zenon
\* Nobody is signalled and the table stays.
<1>5. ASSUME NEW c \in Calls, NEW l, l # "idle", Goto(c, l), pc[c] # "end",
             UNCHANGED <<pending, done, err, inPc, cur, reply, ret>>
      PROVE  OnceSignalled'
  <2>1. ret'[c] = "nil" => c \in OneWay \/ reply[c] # NoCall
    BY <1>5, Zenon DEF OnceSignalled, TwoWay
  <2>2. \A s \in Seqs : pending'[s] # NoCall =>
            /\ pending'[s] \in Calls /\ pending'[s] # NoCall
            /\ \/ pending'[s] = pending[s] /\ err'[pending[s]] = err[pending[s]]
               \/ ~(done[pending'[s]] > 0)
    BY <1>3, <1>5, Zenon
  <2>3. inPc = "deliver" => cur \in Calls /\ cur # NoCall /\ \A s \in Seqs : pending'[s] # cur
    BY <1>0, <1>1, <1>5, Zenon
  <2>4. \A d \in Calls \ {NoCall} : done'[d] = done[d] /\ err'[d] = err[d]
    BY <1>5, Zenon
  <2>5. \A d \in Calls \ {c} : ret'[d] = ret[d]
    BY <1>5, Zenon
  <2> QED
    BY <1>0, <1>5, <2>1, <2>2, <2>3, <2>4, <2>5, CallerKeepsOnce, Zenon
\* A number is taken.
<1>6. ASSUME NEW c \in Calls, NEW l \in {"encode", "write"}, Goto(c, l), pc[c] = "idle", NEW n \in Seqs,
             pending' = [pending EXCEPT ![n] = c], UNCHANGED <<done, err, inPc, cur, reply, ret>>
      PROVE  OnceSignalled'
  <2>1. ret'[c] = "nil" => c \in OneWay \/ reply[c] # NoCall
    BY <1>6, Zenon DEF OnceSignalled, TwoWay
  <2>2. pending'[n] = c /\ \A s \in Seqs \ {n} : pending'[s] = pending[s]
    BY <1>0, <1>6, Zenon
  <2>3. \A s \in Seqs : pending'[s] # NoCall =>
            /\ pending'[s] \in Calls /\ pending'[s] # NoCall
            /\ \/ pending'[s] = pending[s] /\ err'[pending[s]] = err[pending[s]]
               \/ ~(done[pending'[s]] > 0)
    BY <1>3, <1>4, <1>6, <2>2, Zenon
  <2>4. inPc = "deliver" => cur \in Calls /\ cur # NoCall /\ \A s \in Seqs : pending'[s] # cur
    BY <1>0, <1>1, <1>6, <2>2, Zenon
  <2>5. \A d \in Calls \ {NoCall} : done'[d] = done[d] /\ err'[d] = err[d]
    BY <1>6, Zenon
  <2>6. \A d \in Calls \ {c} : ret'[d] = ret[d]
    BY <1>6, Zenon
  <2> QED
    BY <1>0, <1>6, <2>1, <2>3, <2>4, <2>5, <2>6, CallerKeepsOnce, Zenon
\* send itself signals the call it works for.
<1>7. ASSUME NEW c \in Calls, Goto(c, "sent"), pc[c] \in {"idle", "encfail"}, NEW e, e # "nil",
             err' = [err EXCEPT ![c] = e], done' = Signalled({c}), UNCHANGED <<inPc, cur, reply, ret>>,
             \A s \in Seqs : pending'[s] # NoCall => pending'[s] = pending[s] /\ pending[s] # c
      PROVE  OnceSignalled'
  <2>1. ret'[c] = "nil" => c \in OneWay \/ reply[c] # NoCall
    BY <1>7, Zenon DEF OnceSignalled, TwoWay
  <2>2. \A d \in Calls \ {c} : done'[d] = done[d]
    <3>1. CallTypes /\ done' = Signalled({c})
      BY <1>7, Zenon
    <3>2. \A d \in Calls : d # c => done'[d] = done[d]
      BY ONLY <3>1, SignalOne, Zenon
    <3> QED
      BY <3>2, Zenon
  <2>3. \A d \in Calls \ {c} : err'[d] = err[d] /\ ret'[d] = ret[d]
    BY <1>0, <1>7, Zenon
  <2>4. \A s \in Seqs : pending'[s] # NoCall =>
            /\ pending'[s] \in Calls /\ pending'[s] # c
            /\ \/ pending'[s] = pending[s] /\ err'[pending[s]] = err[pending[s]]
               \/ ~(done[pending'[s]] > 0)
    BY <1>3, <1>7, <2>3, Zenon
  <2>5. inPc = "deliver" => cur \in Calls /\ cur # c /\ \A s \in Seqs : pending'[s] # cur
    BY <1>0, <1>1, <1>7, Zenon
  <2> QED
    BY <1>7, <2>1, <2>2, <2>3, <2>4, <2>5, CallerKeepsOnce, Zenon
\* A number is completed, with or without an error.
<1>8. ASSUME NEW c \in Calls, NEW n \in Seqs, NEW l \in {"sent", "end"}, Goto(c, l),
             pc[c] \notin {"idle", "end"}, UNCHANGED <<inPc, cur, reply>>,
             pending'[n] = NoCall, \A s \in Seqs \ {n} : pending'[s] = pending[s],
             \A d \in Calls : d # pending[n] => done'[d] = done[d] /\ err'[d] = err[d],
             NEW e, ret' = ret \/ (l = "end" /\ ret' = [ret EXCEPT ![c] = e]),
             e = "nil" => c \in OneWay
      PROVE  OnceSignalled'
  <2>1. ret'[c] = ret[c] \/ (l = "end" /\ ret'[c] = e)
    BY <1>0, <1>8, Zenon
  <2>2. \A d \in Calls \ {c} : ret'[d] = ret[d]
    BY <1>0, <1>8, Zenon
  <2>3. ret'[c] = "nil" => c \in OneWay \/ reply[c] # NoCall
    BY <1>8, <2>1, Zenon DEF OnceSignalled, TwoWay
  <2>4. \A s \in Seqs : pending'[s] # NoCall =>
            /\ pending'[s] \in Calls /\ pending'[s] # pending[n]
            /\ \/ pending'[s] = pending[s] /\ err'[pending[s]] = err[pending[s]]
               \/ ~(done[pending'[s]] > 0)
    <3> SUFFICES ASSUME NEW s \in Seqs, pending'[s] # NoCall
                 PROVE  /\ pending'[s] \in Calls /\ pending'[s] # pending[n]
                        /\ pending'[s] = pending[s] /\ err'[pending[s]] = err[pending[s]]
      BY Zenon
    <3>1. s # n /\ pending'[s] = pending[s] /\ pending[s] \in Calls
      BY <1>3, <1>8, Zenon
    <3>2. pending[s] # pending[n]
      BY <1>2, <1>8, <3>1, Zenon
    <3> QED
      BY <1>8, <3>1, <3>2, Zenon
  <2>5. inPc = "deliver" => cur \in Calls /\ cur # pending[n] /\ \A s \in Seqs : pending'[s] # cur
    BY <1>0, <1>1, <1>8, Zenon
  <2>6. pending[n] \notin Calls \/ pc[pending[n]] # "idle"
    BY <1>0, <1>3, Zenon
  <2> QED
    BY <1>8, <2>1, <2>2, <2>3, <2>4, <2>5, <2>6, CallerKeepsOnce, Zenon
<1>9. ASSUME NEW c \in Calls, Register(c) PROVE OnceSignalled'
  <2>1. pc[c] = "idle" /\ UNCHANGED <<inPc, cur, reply, ret>>
    BY <1>9, Zenon DEF Register
  <2>2. CASE /\ UNCHANGED pending /\ done' = Signalled({c}) /\ Goto(c, "sent")
             /\ \E e \in {"ErrShutdown", "ErrUnsupportedCodec"} : err' = [err EXCEPT ![c] = e]
    <3>1. \A s \in Seqs : pending'[s] # NoCall => pending'[s] = pending[s] /\ pending[s] # c
      BY <1>3, <2>1, <2>2, Zenon
    <3> QED
      BY <1>7, <2>1, <2>2, <3>1, Zenon
  <2>3. CASE /\ seq \in Seqs /\ pending' = [pending EXCEPT ![seq] = c]
             /\ Goto(c, "encode") /\ UNCHANGED <<err, done>>
    BY <1>6, <2>1, <2>3, Zenon
  <2>4. seq <= MaxSeq => seq \in Seqs
    <3>1. seq \in 0..MaxSeq + 1 /\ MaxSeq \in Nat /\ 0..MaxSeq \subseteq Seqs
      BY Constants, Zenon DEF CallTypes, Seqs
    <3> QED
      BY <3>1, Below, Zenon
  <2> QED
    BY <1>9, <2>2, <2>3, <2>4, Zenon DEF Register
<1>10. ASSUME NEW c \in Calls, RawRegister(c) PROVE OnceSignalled'
  <2>1. /\ pc[c] = "idle" /\ UNCHANGED <<inPc, cur, reply, ret, err, done>> /\ c \in RawCalls
        /\ pending' = [pending EXCEPT ![RawSeq[c]] = c] /\ Goto(c, "write")
    BY <1>10, Zenon DEF RawRegister, RawNumber
  <2>2. RawSeq[c] \in Seqs
    BY <2>1, Constants, Zenon
  <2> QED
    BY <1>6, <2>1, <2>2, Zenon
<1>11. ASSUME NEW c \in Calls, EncodeFail(c) PROVE OnceSignalled'
  <2>1. /\ pc[c] = "encfail" /\ Goto(c, "sent") /\ UNCHANGED <<inPc, cur, reply, ret>>
        /\ pending' = [pending EXCEPT ![mySeq[c]] = NoCall]
        /\ err' = [err EXCEPT ![c] = "encode"] /\ done' = Signalled({c})
    BY <1>11, Zenon DEF EncodeFail
  <2>2. mySeq[c] \in Seqs /\ \A s \in Seqs : pending[s] = c => mySeq[c] = s
    BY <1>0, <1>4, <2>1, Zenon DEF Carried
  <2>3. pending'[mySeq[c]] = NoCall /\ \A s \in Seqs \ {mySeq[c]} : pending'[s] = pending[s]
    BY <1>0, <2>1, <2>2, Zenon
  <2>4. \A s \in Seqs : pending'[s] # NoCall => pending'[s] = pending[s] /\ pending[s] # c
    BY <2>2, <2>3, Zenon
  <2> QED
    BY <1>7, <2>1, <2>4, Zenon
<1>12. ASSUME NEW c \in Calls, NEW n \in Seqs, NEW e \in {"write", "ctx"}, Complete(n, e),
              NEW l \in {"sent", "end"}, Goto(c, l), pc[c] \notin {"idle", "end"},
              UNCHANGED <<inPc, cur, reply>>, ret' = ret \/ (l = "end" /\ ret' = [ret EXCEPT ![c] = e])
       PROVE  OnceSignalled'
  <2>1. /\ pending'[n] = NoCall /\ \A s \in Seqs \ {n} : pending'[s] = pending[s]
        /\ \A d \in Calls : d # pending[n] => done'[d] = done[d] /\ err'[d] = err[d]
    <3>1. CallTypes /\ Complete(n, e)
      BY <1>12, Zenon
    <3> QED
      BY ONLY <3>1, n \in Seqs, CompleteEffect, Zenon
  <2>2. e # "nil"
    BY <1>12, Zenon
  <2> QED
    BY <1>8, <1>12, <2>1, <2>2, Zenon
<1>13. ASSUME NEW c \in Calls, WriteFail(c) PROVE OnceSignalled'
  BY <1>4, <1>12, <1>13, Zenon DEF WriteFail
<1>14. ASSUME NEW c \in Calls, Cancel(c) PROVE OnceSignalled'
  BY <1>0, <1>12, <1>14, Zenon DEF Cancel
<1>15. ASSUME NEW c \in Calls, RawWriteFail(c) PROVE OnceSignalled'
  BY <1>4, <1>12, <1>15, Zenon DEF RawWriteFail
<1>16. ASSUME NEW c \in Calls, RawCancel(c) PROVE OnceSignalled'
  BY <1>4, <1>12, <1>16, Zenon DEF RawCancel
<1>17. ASSUME NEW c \in Calls, CheckOneway(c) PROVE OnceSignalled'
  <2>1. ~bit[msg[c]]
    BY Zenon DEF NoSilentEnd, PoolTypes
  <2>2. UNCHANGED <<pending, done, inPc, cur, err, reply, ret>> /\ Goto(c, "sent") /\ pc[c] = "check"
    BY <1>17, <2>1, Zenon DEF CheckOneway
  <2> QED
    BY <1>5, <2>2, Zenon
<1>18. ASSUME NEW c \in Calls, RawOneway(c) PROVE OnceSignalled'
  <2>1. /\ pc[c] = "oneway" /\ Goto(c, "end")
        /\ UNCHANGED <<inPc, cur, reply, err>> /\ ret' = [ret EXCEPT ![c] = "nil"]
        /\ pending' = [pending EXCEPT ![mySeq[c]] = NoCall]
        /\ done' = Signalled({pending[mySeq[c]]})
    BY <1>18, Zenon DEF RawOneway
  <2>2. c \in OneWay /\ mySeq[c] \in Seqs
    BY <1>4, <2>1, Zenon DEF NoSilentEnd
  <2>3. pending'[mySeq[c]] = NoCall /\ \A s \in Seqs \ {mySeq[c]} : pending'[s] = pending[s]
    BY <1>0, <2>1, <2>2, Zenon
  <2>4. \A d \in Calls : d # pending[mySeq[c]] => done'[d] = done[d] /\ err'[d] = err[d]
    <3>0. PICK x : x = pending[mySeq[c]] /\ done' = Signalled({x})
      BY <2>1, Zenon
    <3>a. \A d \in Calls : d # x => done'[d] = done[d]
      <4>1. CallTypes /\ done' = Signalled({x})
        BY <3>0, Zenon
      <4> QED
        BY ONLY <4>1, SignalOne, Zenon
    <3>1. \A d \in Calls : d # pending[mySeq[c]] => done'[d] = done[d]
      BY <3>0, <3>a, Zenon
    <3> QED
      BY <2>1, <3>1, Zenon
  <2> QED
    BY <1>8, <2>1, <2>2, <2>3, <2>4, Zenon
<1>19. ASSUME NEW c \in Calls, Encode(c) \/ Write(c) \/ Free(c) \/ RawWrite(c) PROVE OnceSignalled'
  <2>1. UNCHANGED <<pending, done, inPc, cur, err, reply, ret>>
    BY <1>19, Zenon DEF Encode, Write, Free, RawWrite
  <2>2. /\ pc[c] # "end"
        /\ \E l \in {"encfail", "write", "wfail", "free", "check", "oneway", "sent"} : Goto(c, l)
    BY <1>19, Zenon DEF Encode, Write, Free, RawWrite
  <2> QED
    BY <1>5, <2>1, <2>2, Zenon
<1>20. ASSUME NEW c \in Calls, Return(c) PROVE OnceSignalled'
  <2>1. /\ pc[c] = "sent" /\ Goto(c, "end") /\ done[c] > 0 /\ ret' = [ret EXCEPT ![c] = err[c]]
        /\ UNCHANGED <<pending, done, inPc, cur, err, reply>>
    BY <1>20, Zenon DEF Return
  <2>2. ret'[c] = err[c] /\ \A d \in Calls \ {c} : ret'[d] = ret[d]
    BY <1>0, <2>1, Zenon
  <2>3. ret'[c] = "nil" => c \in OneWay \/ reply[c] # NoCall
    BY <2>1, <2>2, Zenon DEF NoFalseSuccess, TwoWay
  <2>4. \A s \in Seqs : pending'[s] # NoCall =>
            /\ pending'[s] \in Calls /\ pending'[s] # NoCall
            /\ \/ pending'[s] = pending[s] /\ err'[pending[s]] = err[pending[s]]
               \/ ~(done[pending'[s]] > 0)
    BY <1>3, <2>1, Zenon
  <2>5. inPc = "deliver" => cur \in Calls /\ cur # NoCall /\ \A s \in Seqs : pending'[s] # cur
    BY <1>0, <1>1, <2>1, Zenon
  <2>6. \A d \in Calls \ {NoCall} : done'[d] = done[d] /\ err'[d] = err[d]
    BY <2>1, Zenon
  <2> QED
    BY <1>0, <2>1, <2>2, <2>3, <2>4, <2>5, <2>6, CallerKeepsOnce, Zenon
<1>21. CASE ReadReply
  <2>1. PICK r \in inbox : /\ cur' = pending[r.seq]
                           /\ pending' = [pending EXCEPT ![r.seq] = NoCall]
                           /\ inPc' = IF pending[r.seq] = NoCall THEN "read" ELSE "deliver"
    BY <1>21, Zenon DEF ReadReply
  <2>2. r.seq \in Seqs
    BY Zenon DEF CallTypes, Replies
  <2>3. UNCHANGED <<pc, err, done, reply, ret>> /\ inPc = "read"
    BY <1>21, Zenon DEF ReadReply
  <2>4. pending'[r.seq] = NoCall /\ \A s \in Seqs \ {r.seq} : pending'[s] = pending[s]
    BY <1>0, <2>1, <2>2, Zenon
  <2>5. \A s \in Seqs : pending'[s] # NoCall => pending'[s] = pending[s] /\ pending[s] # pending[r.seq]
    BY <1>2, <2>2, <2>4, Zenon
  <2>6. \A s \in Seqs : pending[s] # NoCall => ~(done[pending[s]] > 0)
    BY <2>3, Zenon DEF OnceSignalled
  <2>7. inPc' = "deliver" => done'[cur'] = 0 /\ \A s \in Seqs : pending'[s] # cur'
    <3> SUFFICES ASSUME inPc' = "deliver" PROVE done'[cur'] = 0 /\ \A s \in Seqs : pending'[s] # cur'
      BY Zenon
    <3>1. cur' = pending[r.seq] /\ pending[r.seq] # NoCall
      BY <2>1, Zenon
    <3>2. done[pending[r.seq]] \in Nat /\ ~(done[pending[r.seq]] > 0)
      BY <1>0, <1>3, <2>2, <2>6, <3>1, Zenon
    <3>3. done[pending[r.seq]] = 0
      BY ONLY <3>2
    <3> QED
      BY <2>3, <2>5, <3>1, <3>3, Zenon
  <2>8. \A s \in Seqs : pending'[s] # NoCall => ~(done'[pending'[s]] > 0)
    BY <2>3, <2>5, <2>6, Zenon
  <2> QED
    BY <2>3, <2>7, <2>8, Zenon DEF OnceSignalled
<1>22. CASE Deliver
  <2>1. /\ cur \in Calls /\ inPc = "deliver" /\ inPc' \in {"read", "notify"}
        /\ reply'[cur] # NoCall /\ UNCHANGED <<pending, pc, ret>>
        /\ \A d \in Calls \ {cur} : done'[d] = done[d] /\ reply'[d] = reply[d]
    BY <1>22, DeliverEffect, Zenon
  <2>2. \A s \in Seqs : pending[s] # cur
    BY <1>1, <2>1, Zenon
  <2>3. \A s \in Seqs : pending[s] # NoCall => ~(done[pending[s]] > 0)
    BY <2>1, Zenon DEF OnceSignalled
  <2>4. \A s \in Seqs : pending'[s] # NoCall => ~(done'[pending'[s]] > 0)
    BY <1>3, <2>1, <2>2, <2>3, Zenon
  <2>5. \A d \in Calls : pc'[d] = "idle" => done'[d] = 0
    BY <1>1, <2>1, Zenon DEF OnceSignalled
  <2>6. \A d \in TwoWay : ret'[d] = "nil" => reply'[d] # NoCall
    BY <2>1, Zenon DEF OnceSignalled, TwoWay
  <2>7. inPc' # "deliver" /\ \A d \in Calls : pc'[d] # "end" => ret'[d] = "none"
    BY <2>1, Zenon DEF OnceSignalled
  <2> QED
    BY <2>4, <2>5, <2>6, <2>7, Zenon DEF OnceSignalled
<1>23. CASE Stop
  <2>1. inErr # "nil" /\ UNCHANGED <<pc, ret, reply, pending>> /\ inPc' = "exited"
    BY <1>23, Zenon DEF Stop, NoSilentEnd
  <2>2. PICK e : e # "nil" /\ FailPending(e)
    BY <1>23, <2>1, StopEffect, Zenon
  <2>3. /\ \A d \in Calls : (\A s \in Seqs : pending[s] # d) => done'[d] = done[d]
        /\ \A d \in Calls : (\E s \in Seqs : pending[s] = d) => err'[d] = e
    BY <2>2, FailPendingEffect, Zenon
  <2>4. \A s \in Seqs : pending[s] # NoCall => err'[pending[s]] # "nil"
    BY <1>3, <2>2, <2>3, Zenon
  <2>5. \A d \in Calls : pc[d] = "idle" => done'[d] = 0
    BY <1>0, <1>3, <2>3, Zenon DEF OnceSignalled
  <2> QED
    BY <2>1, <2>4, <2>5, Zenon DEF OnceSignalled
<1>24. ASSUME CloseBody, UNCHANGED <<pc, ret, reply, inPc, cur>> PROVE OnceSignalled'
  <2>1. FailPending("ErrShutdown") /\ \A s \in Seqs : pending'[s] = NoCall
    BY <1>24, Zenon DEF CloseBody
  <2>2. \A d \in Calls : (\A s \in Seqs : pending[s] # d) => done'[d] = done[d]
    BY <2>1, FailPendingEffect, Zenon
  <2>3. \A d \in Calls : pc[d] = "idle" => done'[d] = 0
    BY <1>0, <1>3, <2>2, Zenon DEF OnceSignalled
  <2>4. inPc = "deliver" => done'[cur] = 0 /\ cur # NoCall
    BY <1>0, <1>1, <2>2, Zenon
  <2> QED
    BY <1>24, <2>1, <2>3, <2>4, Zenon DEF OnceSignalled
<1>25. (\E k \in Closers : Close(k)) \/ HbClose => CloseBody /\ UNCHANGED <<pc, ret, reply, inPc, cur>>
  BY Zenon DEF Close, HbClose
<1>26. (\E r \in wire : Answer(r)) \/ Quiet
         => /\ UNCHANGED <<pc, ret, reply, pending, done, err, cur>>
            /\ (inPc' = "deliver" => inPc = "deliver") /\ (inPc = "exited" => inPc' = "exited")
  BY Zenon DEF Answer, Quiet
<1>27. CASE /\ UNCHANGED <<pc, ret, reply, pending, done, err, cur>>
            /\ (inPc' = "deliver" => inPc = "deliver") /\ (inPc = "exited" => inPc' = "exited")
  BY <1>27, Zenon DEF OnceSignalled
<1> QED
  BY <1>9, <1>10, <1>11, <1>13, <1>14, <1>15, <1>16, <1>17, <1>18, <1>19, <1>20, <1>21,
     <1>22, <1>23, <1>24, <1>25, <1>26, <1>27, Effects, Zenon DEF Moves

\* The status of a two-way call says whose reply it has.
LEMMA GotOwn ==
  ASSUME TypeInv, RepliesMatch, NoFalseSuccess, OnceSignalled, NEW c \in TwoWay
  PROVE  Got(c) = IF Status(c) = "ok" THEN c ELSE NoCall
<1>1. c \in Calls /\ reply[c] \in {NoCall, c} /\ done[c] \in Nat
  BY Zenon DEF TwoWay, RepliesMatch, TypeInv, TypeOK
<1>2. pc[c] = "idle" => done[c] = 0 /\ ret[c] = "none"
  BY <1>1, Zenon DEF OnceSignalled
<1>3. Ended(c) /\ Outcome(c) = "nil" => reply[c] = c /\ Started(c)
  <2>1. /\ done[c] > 0 /\ err[c] = "nil" => reply[c] # NoCall
        /\ ret[c] = "nil" => reply[c] # NoCall
    BY Zenon DEF NoFalseSuccess, OnceSignalled
  <2>2. /\ Ended(c) /\ Outcome(c) = "nil" => reply[c] # NoCall
        /\ Ended(c) => (done[c] > 0 \/ ret[c] # "none")
    BY <2>1, Zenon DEF Ended, Outcome
  <2>3. ~ (0 > 0)
    OBVIOUS
  <2> QED
    BY <1>1, <1>2, <2>2, <2>3, Zenon DEF Started
<1> QED
  BY <1>3, Zenon DEF Got, Status

\* What a step does to the status of the calls, as CallPromise allows it.
Issues(c) == Status(c) = "idle" /\ Status(c)' \in {"open", "failed"}
Succeeds(c) == Status(c) = "open" /\ Status(c)' = "ok"
Fails(c) == Status(c) = "open" /\ Status(c)' = "failed"
Stays(c) == Status(c)' = Status(c)

PromiseInv ==
  /\ IInv /\ NoSilentEnd /\ NoFalseSuccess /\ Answered /\ OnceSignalled

LEMMA AllowedSteps ==
  ASSUME PromiseInv, PromiseInv',
         \/ \E c \in TwoWay : (Issues(c) \/ Succeeds(c)) /\ \A d \in TwoWay \ {c} : Stays(d)
         \/ \A c \in TwoWay : Fails(c) \/ Stays(c)
  PROVE  [Promise!Next]_<<[c \in TwoWay |-> Status(c)], [c \in TwoWay |-> Got(c)]>>
<1> DEFINE status == [c \in TwoWay |-> Status(c)]
           got == [c \in TwoWay |-> Got(c)]
<1>1. got = [c \in TwoWay |-> IF status[c] = "ok" THEN c ELSE NoCall]
  BY GotOwn, Zenon DEF PromiseInv, IInv
<1>2. got' = [c \in TwoWay |-> IF status'[c] = "ok" THEN c ELSE NoCall]
  <2>1. \A c \in TwoWay : Got(c)' = IF Status(c)' = "ok" THEN c ELSE NoCall
    <3> SUFFICES ASSUME NEW c \in TwoWay PROVE Got(c)' = IF Status(c)' = "ok" THEN c ELSE NoCall
      BY Zenon
    <3>1. c \in Calls /\ reply'[c] \in {NoCall, c} /\ done'[c] \in Nat
      BY Zenon DEF TwoWay, RepliesMatch, TypeInv, TypeOK, PromiseInv, IInv
    <3>2. pc'[c] = "idle" => done'[c] = 0 /\ ret'[c] = "none"
      BY <3>1, Zenon DEF OnceSignalled, PromiseInv
    <3>3. /\ done'[c] > 0 /\ err'[c] = "nil" => reply'[c] # NoCall
          /\ ret'[c] = "nil" => reply'[c] # NoCall
      BY Zenon DEF PromiseInv, NoFalseSuccess, OnceSignalled
    <3>4. Ended(c)' /\ Outcome(c)' = "nil" => reply'[c] = c /\ Started(c)'
      <4>1. /\ Ended(c)' /\ Outcome(c)' = "nil" => reply'[c] # NoCall
            /\ Ended(c)' => (done'[c] > 0 \/ ret'[c] # "none")
        BY <3>3, Zenon DEF Ended, Outcome
      <4>2. ~ (0 > 0)
        OBVIOUS
      <4> QED
        BY <3>1, <3>2, <4>1, <4>2, Zenon DEF Started
    <3> QED
      BY <3>4, Zenon DEF Got, Status
  <2> QED
    BY <2>1, Zenon
<1>3. \A c \in TwoWay : status[c] = Status(c) /\ status'[c] = Status(c)'
  BY Zenon
<1>4. status = [c \in TwoWay |-> status[c]] /\ status' = [c \in TwoWay |-> status'[c]]
  BY Zenon
<1> HIDE DEF status, got
<1>5. ASSUME NEW c \in TwoWay, Issues(c), \A d \in TwoWay \ {c} : Stays(d)
      PROVE  Promise!Issue(c)
  <2>1. /\ status[c] = "idle" /\ status'[c] \in {"open", "failed"}
        /\ \A d \in TwoWay \ {c} : status'[d] = status[d]
    BY <1>3, <1>5, Zenon DEF Issues, Stays
  <2>2. status' = [status EXCEPT ![c] = status'[c]]
    BY <1>4, <2>1, Zenon
  <2>3. got' = got
    BY <1>1, <1>2, <2>1, Zenon
  <2> QED
    BY <2>1, <2>2, <2>3, Zenon DEF Promise!Issue, status, got
<1>6. ASSUME NEW c \in TwoWay, Succeeds(c), \A d \in TwoWay \ {c} : Stays(d)
      PROVE  Promise!Succeed(c)
  <2>1. /\ status[c] = "open" /\ status'[c] = "ok"
        /\ \A d \in TwoWay \ {c} : status'[d] = status[d]
    BY <1>3, <1>6, Zenon DEF Succeeds, Stays
  <2>2. status' = [status EXCEPT ![c] = "ok"]
    BY <1>4, <2>1, Zenon
  <2>3. got' = [got EXCEPT ![c] = c]
    BY <1>1, <1>2, <2>1, Zenon
  <2> QED
    BY <2>1, <2>2, <2>3, Zenon DEF Promise!Succeed, status, got
<1>7. ASSUME \A c \in TwoWay : Fails(c) \/ Stays(c)
      PROVE  (\E S \in SUBSET TwoWay : Promise!Fail(S)) \/ UNCHANGED <<status, got>>
  <2> DEFINE S == {c \in TwoWay : Fails(c)}
  <2>1. /\ \A c \in S : c \in TwoWay /\ status[c] = "open" /\ status'[c] = "failed"
        /\ \A c \in TwoWay : c \notin S => status'[c] = status[c]
    BY <1>3, <1>7, Zenon DEF Fails, Stays
  <2> S \in SUBSET TwoWay
    BY Zenon
  <2> HIDE DEF S
  <2>2. status' = [c \in TwoWay |-> IF c \in S THEN "failed" ELSE status[c]]
    BY <1>4, <2>1, Zenon
  <2>3. got' = got
    BY <1>1, <1>2, <2>1, Zenon
  <2>4. S = {} => status' = status
    BY <1>4, <2>1, Zenon
  <2>5. S # {} => Promise!Fail(S)
    BY <2>1, <2>2, <2>3, Zenon DEF Promise!Fail, status, got
  <2> QED
    BY <2>3, <2>4, <2>5, Zenon
<1> QED
  BY <1>5, <1>6, <1>7, Zenon DEF Promise!Next, status, got

\* A step that changes nothing the user sees of a call.
LEMMA Unseen ==
  ASSUME NEW d \in Calls, pc'[d] = "idle" <=> pc[d] = "idle",
         d \in AsyncCalls => (done'[d] > 0 <=> done[d] > 0) /\ err'[d] = err[d],
         d \notin AsyncCalls => ret'[d] = ret[d]
  PROVE  Stays(d)
BY Zenon DEF Stays, Status, Started, Ended, Outcome

\* A step that signals an error to a call of Go.
LEMMA SignalsError ==
  ASSUME NEW d \in Calls, pc'[d] # "idle", pc[d] # "idle", d \in AsyncCalls,
         done'[d] > 0, err'[d] # "nil", done[d] > 0 => err[d] # "nil"
  PROVE  Fails(d) \/ Stays(d)
BY Zenon DEF Fails, Stays, Status, Started, Ended, Outcome

\* A function that returns an error.
LEMMA ReturnsError ==
  ASSUME NEW d \in Calls, pc'[d] # "idle", pc[d] # "idle", d \notin AsyncCalls,
         ret[d] = "none", ret'[d] \notin {"none", "nil"}
  PROVE  Fails(d)
BY Zenon DEF Fails, Status, Started, Ended, Outcome

LEMMA PromiseStep ==
  ASSUME OneWay \subseteq RawCalls, PromiseInv, [Next]_vars
  PROVE  \/ \E c \in TwoWay : (Issues(c) \/ Succeeds(c)) /\ \A d \in TwoWay \ {c} : Stays(d)
         \/ \A c \in TwoWay : Fails(c) \/ Stays(c)
<1> CallTypes /\ PoolTypes /\ TypeInv /\ Numbers /\ Carried /\ OnceSignalled
  BY PartOfTypeInv, Zenon DEF PromiseInv, IInv
<1> TwoWay \subseteq Calls
  BY Zenon DEF TwoWay
<1>a. AsyncCalls \subseteq TwoWay /\ Calls \ RawCalls \subseteq TwoWay
  BY CallKinds, Zenon DEF TwoWay, Calls, CallKinds
<1>b. \A c \in AsyncCalls : c \notin RawCalls /\ c \notin SyncCalls \cup BeatCalls
  BY CallKinds, Zenon DEF CallKinds
<1>c. ret \in [Calls -> Errors \cup {"none"}] /\ err \in [Calls -> Errors]
  BY Zenon DEF TypeInv, TypeOK
<1>d. /\ \A c \in Calls : ctxSeq[c] \in Seqs
      /\ \A c \in Calls : pc[c] \in {"encfail", "wfail", "oneway"} => mySeq[c] \in Seqs /\ mySeq[c] # -1
      /\ \A c \in Calls : c \in RawCalls /\ pc[c] = "sent" => mySeq[c] \in Seqs
      /\ \A c \in RawCalls : pc[c] # "encfail"
      /\ NoCall \notin Calls
  BY Constants, Zenon DEF CallTypes, Numbered
<1> USE DEF notCaller, lockVars, callVars, poolVars, netVars, inputVars,
            chanVars, hbVars, userVars, notInput
<1>1. /\ \A d \in Calls, s \in Seqs : pending[s] = d => pc[d] # "idle"
      /\ \A d \in Calls, s \in Seqs : pending[s] = d /\ done[d] > 0 => err[d] # "nil"
      /\ \A d \in Calls : pc[d] # "end" => ret[d] = "none"
      /\ \A d \in Calls : pc[d] = "idle" => done[d] = 0
  <2>1. \A d \in Calls, s \in Seqs : pending[s] = d => pc[d] # "idle"
    BY <1>d, Entries, Zenon
  <2>2. \A d \in Calls, s \in Seqs : pending[s] = d /\ done[d] > 0 => err[d] # "nil"
    BY <1>d, Zenon DEF OnceSignalled
  <2>3. /\ \A d \in Calls : pc[d] # "end" => ret[d] = "none"
        /\ \A d \in Calls : pc[d] = "idle" => done[d] = 0
    BY Zenon DEF OnceSignalled
  <2> QED
    BY <2>1, <2>2, <2>3, Zenon
<1>2. ASSUME NEW c \in Calls, Register(c)
      PROVE  c \in TwoWay /\ Issues(c) /\ \A d \in TwoWay \ {c} : Stays(d)
  <2>1. pc[c] = "idle" /\ c \in TwoWay /\ ret' = ret
    BY <1>a, <1>2, Zenon DEF Register
  <2>2. CASE /\ done' = Signalled({c}) /\ Goto(c, "sent")
             /\ \E e \in {"ErrShutdown", "ErrUnsupportedCodec"} : err' = [err EXCEPT ![c] = e]
    <3>1. \A d \in TwoWay \ {c} : pc'[d] = pc[d] /\ done'[d] = done[d] /\ err'[d] = err[d] /\ ret'[d] = ret[d]
      <4>1. pc'[c] = "sent" /\ \A d \in Calls \ {c} : pc'[d] = pc[d]
        BY <2>2, GotoMoves, Zenon
      <4>2. \A d \in Calls \ {c} : done'[d] = done[d]
        BY <2>2, SignalOne
      <4>3. \A d \in Calls \ {c} : err'[d] = err[d]
        BY <1>c, <2>2, Zenon
      <4> QED
        BY <2>1, <4>1, <4>2, <4>3, Zenon
    <3>2. \A d \in TwoWay \ {c} : Stays(d)
      BY <3>1, Unseen, Zenon
    <3>3. pc'[c] = "sent" /\ err'[c] # "nil" /\ done'[c] > 0 /\ ret'[c] = "none"
      <4>1. pc'[c] = "sent" /\ ret'[c] = "none"
        BY <1>1, <2>1, <2>2, GotoMoves, Zenon
      <4>2. err'[c] # "nil"
        BY <1>c, <2>2, Zenon
      <4>3. done'[c] > 0
        BY <2>2, SignalOne, Zenon
      <4> QED
        BY <4>1, <4>2, <4>3, Zenon
    <3>4. Issues(c)
      BY <2>1, <3>3, Zenon DEF Issues, Status, Started, Ended, Outcome
    <3> QED
      BY <2>1, <3>2, <3>4, Zenon
  <2>3. CASE Goto(c, "encode") /\ UNCHANGED <<err, done>>
    <3>1. \A d \in TwoWay \ {c} : pc'[d] = pc[d] /\ done'[d] = done[d] /\ err'[d] = err[d] /\ ret'[d] = ret[d]
      BY <2>1, <2>3, GotoMoves, Zenon
    <3>2. \A d \in TwoWay \ {c} : Stays(d)
      BY <3>1, Unseen, Zenon
    <3>3. pc'[c] = "encode" /\ done'[c] = 0 /\ ret'[c] = "none"
      BY <1>1, <2>1, <2>3, GotoMoves, Zenon
    <3>4. Issues(c)
      BY <2>1, <3>3 DEF Issues, Status, Started, Ended, Outcome
    <3> QED
      BY <2>1, <3>2, <3>4, Zenon
  <2> QED
    BY <1>2, <2>2, <2>3, Zenon DEF Register
<1>3. ASSUME NEW c \in Calls, RawRegister(c)
      PROVE  (c \in TwoWay => Issues(c)) /\ \A d \in TwoWay \ {c} : Stays(d)
  <2>1. pc[c] = "idle" /\ UNCHANGED <<done, err, ret>> /\ Goto(c, "write")
    BY <1>3, Zenon DEF RawRegister
  <2>2. \A d \in TwoWay \ {c} : pc'[d] = pc[d] /\ done'[d] = done[d] /\ err'[d] = err[d] /\ ret'[d] = ret[d]
    BY <2>1, GotoMoves, Zenon
  <2>3. \A d \in TwoWay \ {c} : Stays(d)
    BY <2>2, Unseen, Zenon
  <2>4. pc'[c] = "write" /\ done'[c] = 0 /\ ret'[c] = "none"
    BY <1>1, <2>1, GotoMoves, Zenon
  <2>5. Issues(c)
    BY <2>1, <2>4 DEF Issues, Status, Started, Ended, Outcome
  <2> QED
    BY <2>3, <2>5, Zenon
<1>4. ASSUME NEW c \in Calls, EncodeFail(c) PROVE \A d \in TwoWay : Fails(d) \/ Stays(d)
  <2>1. /\ pc[c] = "encfail" /\ Goto(c, "sent") /\ ret' = ret /\ c \notin RawCalls
        /\ err' = [err EXCEPT ![c] = "encode"] /\ done' = Signalled({c})
    BY <1>d, <1>4, Zenon DEF EncodeFail
  <2>2. done[c] > 0 => err[c] # "nil"
    <3>1. reply[c] = NoCall /\ c \in TwoWay
      BY <1>a, <2>1, Zenon DEF PromiseInv, Answered, Written
    <3> QED
      BY <3>1, Zenon DEF PromiseInv, NoFalseSuccess
  <2>a. pc'[c] = "sent" /\ \A d \in Calls \ {c} : pc'[d] = pc[d]
    BY <2>1, GotoMoves, Zenon
  <2>b. done'[c] > 0 /\ \A d \in Calls \ {c} : done'[d] = done[d]
    BY <2>1, SignalOne
  <2>c. err'[c] = "encode" /\ \A d \in Calls \ {c} : err'[d] = err[d]
    BY <1>c, <2>1, Zenon
  <2>3. \A d \in TwoWay \ {c} : pc'[d] = pc[d] /\ done'[d] = done[d] /\ err'[d] = err[d] /\ ret'[d] = ret[d]
    BY <2>1, <2>a, <2>b, <2>c, Zenon
  <2>4. \A d \in TwoWay \ {c} : Stays(d)
    BY <2>3, Unseen, Zenon
  <2>5. /\ pc'[c] = "sent" /\ err'[c] = "encode" /\ done'[c] > 0 /\ ret'[c] = ret[c]
    BY <2>1, <2>a, <2>b, <2>c, Zenon
  <2>6. Fails(c) \/ Stays(c)
    BY <2>1, <2>2, <2>5, SignalsError, Unseen, Zenon
  <2> QED
    BY <2>4, <2>6, Zenon
<1>5. ASSUME NEW c \in Calls, NEW n \in Seqs, NEW e, e # "nil",
             NEW l \in {"sent", "end"}, Complete(n, e), Goto(c, l), pc[c] \notin {"idle", "end"},
             e # "none", ret' = ret \/ (c \notin AsyncCalls /\ ret' = [ret EXCEPT ![c] = e])
      PROVE  \A d \in TwoWay : Fails(d) \/ Stays(d)
  <2> SUFFICES ASSUME NEW d \in TwoWay PROVE Fails(d) \/ Stays(d)
    BY Zenon
  <2>1. (pc'[d] = "idle" <=> pc[d] = "idle") /\ (d = c => pc[d] # "idle" /\ pc'[d] # "idle")
    <3>1. pc'[c] = l /\ \A b \in Calls \ {c} : pc'[b] = pc[b]
      BY <1>5, GotoMoves, Zenon
    <3> QED
      BY <1>5, <3>1, Zenon
  <2>a. /\ d # pending[n] => done'[d] = done[d] /\ err'[d] = err[d]
        /\ d = pending[n] => done'[d] > 0 /\ err'[d] = e
    <3>0. CallTypes /\ Complete(n, e)
      BY <1>5, Zenon
    <3>1. \A b \in Calls : b # pending[n] => done'[b] = done[b] /\ err'[b] = err[b]
      BY ONLY <3>0, n \in Seqs, CompleteEffect, Zenon
    <3>2. \A b \in Calls : b = pending[n] => done'[b] > 0 /\ err'[b] = e
      BY ONLY <3>0, n \in Seqs, CompleteSignals, Zenon
    <3>3. d \in Calls
      BY Zenon DEF TwoWay
    <3> QED
      BY <3>1, <3>2, <3>3, Zenon
  <2>2. CASE d = c /\ c \notin AsyncCalls /\ ret' = [ret EXCEPT ![c] = e]
    <3>1. ret[d] = "none" /\ ret'[d] = e /\ e \notin {"none", "nil"}
      BY <1>c, <1>1, <1>5, <2>2, Zenon
    <3> QED
      BY <2>1, <2>2, <3>1, ReturnsError, Zenon
  <2>3. CASE d \notin AsyncCalls /\ ~(d = c /\ ret' = [ret EXCEPT ![c] = e])
    <3>1. ret'[d] = ret[d]
      BY <1>c, <1>5, <2>3, Zenon
    <3> QED
      BY <2>1, <2>3, <3>1, Unseen, Zenon
  <2>4. CASE d \in AsyncCalls /\ d # pending[n]
    <3>1. done'[d] = done[d] /\ err'[d] = err[d]
      BY <2>a, <2>4, Zenon
    <3> QED
      BY <2>1, <2>4, <3>1, Unseen, Zenon
  <2>5. CASE d \in AsyncCalls /\ d = pending[n]
    <3>1. done'[d] > 0 /\ err'[d] = e
      BY <2>a, <2>5, Zenon
    <3>2. pc[d] # "idle" /\ (done[d] > 0 => err[d] # "nil")
      BY <1>1, <1>5, <2>5, Zenon
    <3> QED
      BY <1>5, <2>1, <2>5, <3>1, <3>2, SignalsError, Zenon
  <2> QED
    BY <1>5, <2>2, <2>3, <2>4, <2>5, Zenon
<1>6. ASSUME NEW c \in Calls, WriteFail(c) PROVE \A d \in TwoWay : Fails(d) \/ Stays(d)
  BY <1>b, <1>d, <1>5, <1>6, Zenon DEF WriteFail
<1>7. ASSUME NEW c \in Calls, Cancel(c) PROVE \A d \in TwoWay : Fails(d) \/ Stays(d)
  BY <1>b, <1>d, <1>5, <1>7, Zenon DEF Cancel
<1>8. ASSUME NEW c \in Calls, RawWriteFail(c) PROVE \A d \in TwoWay : Fails(d) \/ Stays(d)
  BY <1>b, <1>d, <1>5, <1>8, Zenon DEF RawWriteFail
<1>9. ASSUME NEW c \in Calls, RawCancel(c) PROVE \A d \in TwoWay : Fails(d) \/ Stays(d)
  BY <1>b, <1>d, <1>5, <1>9, Zenon DEF RawCancel
<1>10. ASSUME NEW c \in Calls, CheckOneway(c) PROVE \A d \in TwoWay : Stays(d)
  <2>1. ~bit[msg[c]]
    BY Zenon DEF PromiseInv, NoSilentEnd, PoolTypes
  <2>2. \A d \in TwoWay : (pc'[d] = "idle" <=> pc[d] = "idle") /\ done'[d] = done[d] /\ err'[d] = err[d] /\ ret'[d] = ret[d]
    <3>1. pc[c] = "check" /\ Goto(c, "sent") /\ UNCHANGED <<done, err, ret>>
      BY <1>10, <2>1, Zenon DEF CheckOneway
    <3> QED
      BY <3>1, GotoMoves, Zenon
  <2> QED
    BY <2>2, Unseen, Zenon
<1>11. ASSUME NEW c \in Calls, RawOneway(c) PROVE \A d \in TwoWay : Stays(d)
  <2>1. /\ pc[c] = "oneway" /\ Goto(c, "end") /\ err' = err /\ ret' = [ret EXCEPT ![c] = "nil"]
        /\ done' = Signalled({pending[mySeq[c]]})
    BY <1>11, Zenon DEF RawOneway
  <2>2. c \in OneWay /\ pending[mySeq[c]] \in {c, NoCall}
    BY <1>d, <2>1, Entries, Zenon DEF PromiseInv, NoSilentEnd
  <2>3. \A d \in TwoWay : d # c /\ d # pending[mySeq[c]]
    BY <1>d, <2>2, Zenon DEF TwoWay
  <2>4. \A d \in TwoWay : done'[d] = done[d]
    BY <2>1, <2>3, SignalOne, Zenon
  <2>5. \A d \in TwoWay : pc'[d] = pc[d]
    BY <2>1, <2>3, GotoMoves, Zenon
  <2>6. \A d \in TwoWay : ret'[d] = ret[d] /\ err'[d] = err[d]
    BY <1>c, <2>1, <2>3, Zenon
  <2> QED
    BY <2>4, <2>5, <2>6, Unseen, Zenon
<1>12. ASSUME NEW c \in Calls, Encode(c) \/ Write(c) \/ Free(c) \/ RawWrite(c) PROVE \A d \in TwoWay : Stays(d)
  <2>1. UNCHANGED <<done, err, ret>>
    BY <1>12, Zenon DEF Encode, Write, Free, RawWrite
  <2>2. \A d \in TwoWay : pc'[d] = "idle" <=> pc[d] = "idle"
    <3>1. pc[c] # "idle" /\ \E l \in {"encfail", "write", "wfail", "free", "check", "oneway", "sent"} : Goto(c, l)
      BY <1>12, Zenon DEF Encode, Write, Free, RawWrite
    <3> QED
      BY <3>1, GotoMoves, Zenon
  <2> QED
    BY <2>1, <2>2, Unseen, Zenon
<1>13. ASSUME NEW c \in Calls, Return(c)
       PROVE  \/ c \in TwoWay /\ Succeeds(c) /\ \A d \in TwoWay \ {c} : Stays(d)
              \/ \A d \in TwoWay : Fails(d) \/ Stays(d)
  <2>1. /\ pc[c] = "sent" /\ Goto(c, "end") /\ UNCHANGED <<done, err>> /\ c \notin AsyncCalls
        /\ ret' = [ret EXCEPT ![c] = err[c]]
    BY <1>13, Zenon DEF Return
  <2>2. \A d \in TwoWay \ {c} : pc'[d] = pc[d] /\ done'[d] = done[d] /\ err'[d] = err[d] /\ ret'[d] = ret[d]
    <3>1. \A d \in Calls \ {c} : pc'[d] = pc[d]
      BY <2>1, GotoMoves, Zenon
    <3> QED
      BY <1>c, <2>1, <3>1, Zenon
  <2>3. \A d \in TwoWay \ {c} : Stays(d)
    BY <2>2, Unseen, Zenon
  <2>4. pc'[c] = "end" /\ ret[c] = "none" /\ ret'[c] = err[c] /\ err[c] # "none"
    <3>1. pc'[c] = "end"
      BY <2>1, GotoMoves, Zenon
    <3>2. "none" \notin Errors
      BY Zenon DEF Errors
    <3> QED
      BY <1>c, <1>1, <2>1, <3>1, <3>2, Zenon
  <2>5. CASE err[c] = "nil"
    BY <2>1, <2>3, <2>4, <2>5, Zenon DEF Succeeds, Status, Started, Ended, Outcome
  <2>6. CASE err[c] # "nil"
    BY <2>1, <2>3, <2>4, <2>6, ReturnsError, Zenon
  <2> QED
    BY <2>3, <2>5, <2>6, Zenon
<1>14. CASE Deliver
  <2>1. PICK c \in Calls : c = cur
    BY <1>14, DeliverEffect, Zenon
  <2>2. /\ inPc = "deliver" /\ UNCHANGED <<pc, ret>> /\ done'[c] > 0
        /\ \A d \in Calls \ {c} : done'[d] = done[d] /\ err'[d] = err[d]
    BY <1>14, <2>1, DeliverEffect, Zenon
  <2>3. pc[c] # "idle" /\ done[c] = 0
    BY <2>1, <2>2, Zenon DEF PromiseInv, Answered, Written, OnceSignalled
  <2>5. \A d \in TwoWay \ {c} : Stays(d)
    BY <2>2, Unseen, Zenon
  <2>6. CASE c \notin AsyncCalls
    <3>1. c \in TwoWay => Stays(c)
      BY <2>2, <2>6, Unseen, Zenon
    <3> QED
      BY <2>5, <3>1, Zenon
  <2>7. CASE c \in AsyncCalls
    <3>1. c \in TwoWay /\ done'[c] > 0 /\ pc'[c] # "idle"
      BY <1>a, <2>2, <2>3, <2>7, Zenon
    <3>2. Succeeds(c) \/ Fails(c)
      BY <2>3, <2>7, <3>1 DEF Succeeds, Fails, Status, Started, Ended, Outcome
    <3> QED
      BY <2>5, <3>1, <3>2, Zenon
  <2> QED
    BY <2>6, <2>7, Zenon
<1>15. ASSUME NEW e, e # "nil", FailPending(e), UNCHANGED <<pc, ret>>
       PROVE  \A d \in TwoWay : Fails(d) \/ Stays(d)
  <2> SUFFICES ASSUME NEW d \in TwoWay PROVE Fails(d) \/ Stays(d)
    BY Zenon
  <2>a. /\ (\A s \in Seqs : pending[s] # d) => done'[d] = done[d] /\ err'[d] = err[d]
        /\ (\E s \in Seqs : pending[s] = d) => done'[d] > 0 /\ err'[d] = e
    BY <1>15, FailPendingEffect, Zenon
  <2>1. CASE d \notin AsyncCalls \/ \A s \in Seqs : pending[s] # d
    <3>1. d \in AsyncCalls => done'[d] = done[d] /\ err'[d] = err[d]
      BY <2>a, <2>1, Zenon
    <3> QED
      BY <1>15, <3>1, Unseen, Zenon
  <2>2. ASSUME d \in AsyncCalls, NEW s \in Seqs, pending[s] = d PROVE Fails(d) \/ Stays(d)
    <3>1. done'[d] > 0 /\ err'[d] = e
      BY <2>a, <2>2, Zenon
    <3>2. pc[d] # "idle" /\ (done[d] > 0 => err[d] # "nil")
      BY <1>1, <2>2, Zenon
    <3> QED
      BY <1>15, <2>2, <3>1, <3>2, SignalsError, Zenon
  <2> QED
    BY <2>1, <2>2, Zenon
<1>16. CASE Stop
  <2>1. inErr # "nil" /\ UNCHANGED <<pc, ret>>
    BY <1>16, Zenon DEF Stop, PromiseInv, NoSilentEnd
  <2>2. PICK e : e # "nil" /\ FailPending(e)
    BY <1>16, <2>1, StopEffect, Zenon
  <2> QED
    BY <1>15, <2>1, <2>2, Zenon
<1>17. ASSUME (\E k \in Closers : Close(k)) \/ HbClose PROVE \A d \in TwoWay : Fails(d) \/ Stays(d)
  <2>1. FailPending("ErrShutdown") /\ UNCHANGED <<pc, ret>>
    BY <1>17, Zenon DEF Close, HbClose, CloseBody
  <2> QED
    BY <1>15, <2>1, Zenon
<1>18. ASSUME (\E r \in wire : Answer(r)) \/ ReadReply \/ Quiet PROVE \A d \in TwoWay : Stays(d)
  <2>1. UNCHANGED <<pc, done, err, ret>>
    BY <1>18, Zenon DEF Answer, ReadReply, Quiet
  <2> QED
    BY <2>1, Unseen, Zenon
<1>19. ASSUME NEW c \in Calls, RawRegister(c)
       PROVE  \/ \E b \in TwoWay : Issues(b) /\ \A d \in TwoWay \ {b} : Stays(d)
              \/ \A d \in TwoWay : Stays(d)
  BY <1>3, <1>19, Zenon
<1> QED
  BY <1>2, <1>19, <1>4, <1>6, <1>7, <1>8, <1>9, <1>10, <1>11, <1>12, <1>13, <1>14,
     <1>16, <1>17, <1>18, Effects, Zenon DEF Moves

LEMMA PromiseInvNext ==
  ASSUME RawSeqsFresh, OneWay \subseteq RawCalls
  PROVE  PromiseInv /\ [Next]_vars => PromiseInv'
BY IInvNext, PartOfTypeInv, NoSilentEndNext, FalseSuccessNext, AnsweredNext,
   OnceSignalledNext, Zenon DEF PromiseInv, IInv

\* If the users of SendRaw choose numbers nobody else uses and no one-way call
\* is made with Call and Go, the client does with two-way calls what CallPromise
\* allows and nothing else: each ends at most once, with its own reply or an
\* error, and stays as it ended.
THEOREM PromiseKept ==
  ASSUME RawSeqsFresh, OneWay \subseteq RawCalls
  PROVE  Spec => KeepsPromise
<1>1. Init => PromiseInv /\ Promise!Init
  <2> SUFFICES ASSUME Init PROVE PromiseInv /\ Promise!Init
    BY Zenon
  <2>1. NoSilentEnd /\ NoFalseSuccess
    BY DEF Init, NoSilentEnd, NoFalseSuccess, TwoWay
  <2>2. Answered /\ OnceSignalled
    BY Zenon DEF Init, Answered, OnceSignalled, TwoWay
  <2>3. \A c \in TwoWay : Status(c) = "idle" /\ Got(c) = NoCall
    BY Zenon DEF Init, TwoWay, Status, Got, Started, Ended
  <2> QED
    BY <2>1, <2>2, <2>3, IInvInit, Zenon DEF PromiseInv, Promise!Init
<1>2. PromiseInv /\ [Next]_vars => PromiseInv'
  BY PromiseInvNext, Zenon
<1>3. PromiseInv /\ PromiseInv' /\ [Next]_vars
        => [Promise!Next]_<<[c \in TwoWay |-> Status(c)], [c \in TwoWay |-> Got(c)]>>
  BY PromiseStep, AllowedSteps, Zenon
<1> QED
  BY <1>1, <1>2, <1>3, PTL DEF Spec, KeepsPromise, Promise!Spec
=============================================================================
