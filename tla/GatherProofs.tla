---------------------------- MODULE GatherProofs ----------------------------
(***************************************************************************)
(* Broadcast, Fork and Inform over any number of servers: an error is      *)
(* real, and Fork's reply is ready when it returns.                        *)
(***************************************************************************)
EXTENDS Gather, FiniteSetTheorems, TLAPS

\* The servers whose result the caller has not taken from done.
Unsignalled(k) == gpc[k] \in {"call", "signal"} \/ (mode = "Fork" /\ gpc[k] \in {"set", "set2"})
Waiting == {k \in clients : Unsignalled(k)} \cup done

Typed ==
  /\ mode \in Modes /\ clients \subseteq Servers /\ done \subseteq clients
  /\ pc \in {"start", "collect", "check", "returned"}
  /\ gpc \in [Servers -> {"none", "call", "signal", "append", "set", "set2", "receipt", "end"}]
  /\ res \in [Servers -> {"none", "ok", "failed"}]
  /\ errs \subseteq Servers \cup {Timer}
  /\ reply \in [Words -> Servers \cup {NoServer}]
  /\ receipts \subseteq Servers /\ retReceipts \subseteq receipts
  /\ ret \in {"none", "nil", "error", "ErrXClientShutdown", "ErrXClientNoServer"}

\* A goroutine and the result of its call are in step.
InStep ==
  /\ \A k \in Servers :
       /\ gpc[k] # "none" => k \in clients
       /\ gpc[k] \in {"none", "call"} <=> res[k] = "none"
       /\ gpc[k] \in {"set", "set2"} => res[k] = "ok"
       /\ gpc[k] = "append" => res[k] = "failed"
       /\ k \in done => ~Unsignalled(k) /\ gpc[k] # "none"
  /\ pc = "start" => clients = {} /\ done = {} /\ errs = {} /\ left = 0
  /\ ret # "none" => pc = "returned"

\* l counts the results that are still to come.
Counted == left = Cardinality(Waiting)

Recorded == \A k \in errs : k = Timer \/ (k \in clients /\ res[k] = "failed")

\* While Fork waits, every result that it took was a failure.
NoneTaken ==
  mode = "Fork" =>
    /\ pc \in {"collect", "check"} => \A k \in clients \ Waiting : res[k] = "failed"
    /\ pc = "check" /\ Timer \notin errs => left = 0

\* Fork's goroutines copy the whole reply before they signal.
Copied ==
  mode = "Fork" =>
    /\ \A w \in Words : reply[w] # NoServer => reply[w] \in Servers /\ Ok(reply[w])
    /\ \A k \in Servers :
         /\ gpc[k] = "set2" => reply[1] # NoServer
         /\ Ok(k) /\ gpc[k] \notin {"set", "set2"} => reply[1] # NoServer /\ reply[2] # NoServer

Outcome ==
  /\ ErrorIsReal
  /\ mode = "Fork" /\ ret = "nil" =>
       \/ reply[1] # NoServer /\ reply[2] # NoServer
       \/ \A k \in clients : res[k] = "failed"

IInv == Typed /\ InStep /\ Counted /\ Recorded /\ NoneTaken /\ Copied /\ Outcome

-----------------------------------------------------------------------------
\* Before it starts, the caller expects nothing.
LEMMA InitIInv == Init => IInv
<1> SUFFICES ASSUME Init PROVE IInv
  OBVIOUS
<1> USE DEF Init, Unsignalled
<1>1. Typed /\ InStep /\ Recorded /\ NoneTaken /\ Copied /\ Outcome
  BY DEF Typed, InStep, Recorded, NoneTaken, Copied, Outcome, ErrorIsReal, Ok, Words, Timer
<1>2. Waiting = {}
  BY DEF Waiting
<1>3. Counted
  BY <1>2, FS_EmptySet DEF Counted
<1> QED BY <1>1, <1>3 DEF IInv

\* The servers form a finite set, and so do those that are waited for.
LEMMA WaitingFinite == IInv => IsFiniteSet(Waiting) /\ Waiting \subseteq Servers /\ left \in Nat
<1> SUFFICES ASSUME IInv PROVE IsFiniteSet(Waiting) /\ Waiting \subseteq Servers /\ left \in Nat
  OBVIOUS
<1>1. Waiting \subseteq Servers
  BY DEF IInv, Typed, Waiting
<1>2. IsFiniteSet(Waiting)
  BY <1>1, GatherConstants, FS_Subset
<1>3. left \in Nat
  BY <1>2, FS_CardinalityType DEF IInv, Counted
<1> QED BY <1>1, <1>2, <1>3

\* The caller starts a goroutine for each server, or refuses.
LEMMA StartStep == IInv /\ (Start \/ Refused) => IInv'
<1> SUFFICES ASSUME IInv, Start \/ Refused PROVE IInv'
  OBVIOUS
<1>1. CASE Refused
  BY <1>1 DEF Refused, IInv, Typed, InStep, Counted, Recorded, NoneTaken, Copied, Outcome, ErrorIsReal,
     Ok, Waiting, Unsignalled
<1>2. CASE Start
  <2> USE <1>2 DEF Start
  <2>1. /\ clients = {} /\ done = {} /\ errs = {} /\ ret = "none" /\ clients' \subseteq Servers
        /\ \A k \in Servers : gpc[k] = "none" /\ res[k] = "none"
    BY DEF IInv, Typed, InStep
  <2>2. Typed'
    BY <2>1 DEF IInv, Typed
  <2>3. InStep'
    BY <2>1 DEF IInv, InStep, Unsignalled, Typed
  <2>4. Waiting' = clients'
    BY <2>1 DEF Waiting, Unsignalled
  <2>5. Counted'
    BY <2>4 DEF Counted, Expected
  <2>6. Recorded' /\ NoneTaken' /\ Copied' /\ Outcome'
    BY <2>1, <2>4 DEF IInv, Recorded, NoneTaken, Copied, Outcome, ErrorIsReal, Ok, Typed
  <2> QED BY <2>2, <2>3, <2>5, <2>6 DEF IInv
<1> QED BY <1>1, <1>2

\* The caller takes a result.
LEMMA CollectStep == IInv /\ Collect => IInv'
<1> SUFFICES ASSUME IInv, Collect PROVE IInv'
  OBVIOUS
<1> USE DEF Collect
<1>1. PICK k \in done :
       /\ done' = done \ {k}
       /\ left' = left - 1
       /\ IF mode = "Fork" /\ res[k] = "ok"
          THEN pc' = "returned" /\ ret' = "nil"
          ELSE pc' = (IF Stops(res[k] = "ok", left') THEN "check" ELSE "collect") /\ UNCHANGED ret
  OBVIOUS
<1>2. k \in clients /\ k \in Servers /\ ~Unsignalled(k) /\ gpc[k] # "none"
  BY <1>1 DEF IInv, Typed, InStep
<1>3. Waiting' = Waiting \ {k} /\ k \in Waiting
  BY <1>1, <1>2 DEF Waiting, Unsignalled
<1>4. Typed'
  BY <1>1 DEF IInv, Typed
<1>5. InStep'
  BY <1>1 DEF IInv, InStep, Unsignalled
<1>6. Counted'
  BY <1>1, <1>3, WaitingFinite, FS_RemoveElement, Zenon DEF IInv, Counted
<1>7. Recorded' /\ Copied'
  BY DEF IInv, Recorded, Copied, Ok
<1>8. NoneTaken'
  <2> SUFFICES ASSUME mode = "Fork", pc' \in {"collect", "check"}
               PROVE  /\ \A j \in clients \ Waiting' : res[j] = "failed"
                      /\ pc' = "check" => left' = 0
    BY DEF NoneTaken
  <2>1. res[k] = "failed"
    BY <1>1, <1>2 DEF IInv, InStep, Typed, Unsignalled
  <2>2. \A j \in clients \ Waiting' : res[j] = "failed"
    BY <1>3, <2>1 DEF IInv, NoneTaken
  <2>3. pc' = "check" => left' = 0
    BY <1>1, <2>1 DEF Stops
  <2> QED BY <2>2, <2>3
<1>9. Outcome'
  BY <1>1, <1>2 DEF IInv, Outcome, ErrorIsReal, InStep, Copied, Unsignalled, Ok, Typed
<1> QED BY <1>4, <1>5, <1>6, <1>7, <1>8, <1>9 DEF IInv

\* The timer, and the last look at the errors.
LEMMA CallerStep == IInv /\ (TimeOut \/ Check) => IInv'
<1> SUFFICES ASSUME IInv, TimeOut \/ Check PROVE IInv'
  OBVIOUS
<1>0. (Waiting = Waiting)' /\ Waiting' = Waiting
  BY DEF TimeOut, Check, Waiting, Unsignalled
<1>1. CASE TimeOut
  BY <1>0, <1>1 DEF TimeOut, IInv, Typed, InStep, Counted, Recorded, NoneTaken, Copied, Outcome,
     ErrorIsReal, Ok, Unsignalled
<1>2. CASE Check
  <2> USE <1>2 DEF Check
  <2>1. Typed' /\ InStep' /\ Counted' /\ Recorded' /\ Copied' /\ NoneTaken'
    BY <1>0 DEF IInv, Typed, InStep, Counted, Recorded, Copied, NoneTaken, Ok, Unsignalled
  <2>2. ASSUME mode = "Fork", Timer \notin errs PROVE \A k \in clients : res[k] = "failed"
    <3>1. Waiting = {}
      BY <2>2, WaitingFinite, FS_EmptySet DEF IInv, NoneTaken, Counted
    <3> QED BY <2>2, <3>1 DEF IInv, NoneTaken
  <2>3. Outcome'
    BY <2>2 DEF IInv, Outcome, ErrorIsReal, Recorded, InStep, Typed
  <2> QED BY <2>1, <2>3 DEF IInv
<1> QED BY <1>1, <1>2

\* A goroutine's call and what it does with the outcome.
LEMMA GoroutineStep == ASSUME NEW k \in Servers PROVE IInv /\ (CallReturns(k) \/ After(k)) => IInv'
<1> SUFFICES ASSUME IInv, CallReturns(k) \/ After(k) PROVE IInv'
  OBVIOUS
<1>1. k \in clients
  BY DEF IInv, InStep, Typed, CallReturns, After, Signal, Append, SetReply, AppendReceipt
<1>2. CASE CallReturns(k)
  <2> USE <1>2 DEF CallReturns
  <2>1. res[k] = "none" /\ ~Ok(k) /\ gpc'[k] \in {"set", "signal"}
    BY DEF IInv, InStep, Typed, AfterCall, Ok
  <2>2. Typed'
    BY DEF IInv, Typed, AfterCall
  <2>3. /\ \A j \in Servers \ {k} : gpc'[j] = gpc[j] /\ res'[j] = res[j]
        /\ res'[k] \in {"ok", "failed"}
        /\ gpc'[k] = IF mode = "Fork" /\ res'[k] = "ok" THEN "set" ELSE "signal"
    BY DEF IInv, Typed, AfterCall
  <2>4. Waiting' = Waiting
    BY <2>1, <2>3, <1>1 DEF Waiting, Unsignalled, IInv, Typed
  <2>5. InStep'
    BY <2>1, <2>3, <1>1 DEF IInv, InStep, Unsignalled, Typed
  <2>6. Counted' /\ Recorded'
    BY <2>1, <2>3, <2>4 DEF IInv, Counted, Recorded, Typed
  <2>9. k \in Waiting
    BY <1>1 DEF Waiting, Unsignalled
  <2>10. NoneTaken'
    BY <2>3, <2>4, <2>9 DEF IInv, NoneTaken, Typed
  <2>7. Copied'
    BY <2>1, <2>3 DEF IInv, Copied, Ok, Typed
  <2>8. Outcome'
    BY <2>1, <2>3 DEF IInv, Outcome, ErrorIsReal, Typed
  <2> QED BY <2>2, <2>5, <2>6, <2>7, <2>8, <2>10 DEF IInv
<1>3. CASE Signal(k)
  <2> USE <1>3 DEF Signal
  <2>1. Waiting' = Waiting
    BY <1>1 DEF Waiting, Unsignalled, IInv, Typed
  <2>2. Typed' /\ InStep'
    BY <1>1 DEF IInv, Typed, InStep, Unsignalled
  <2>3. Counted' /\ Recorded' /\ NoneTaken'
    BY <2>1 DEF IInv, Counted, Recorded, NoneTaken
  <2>4. Copied' /\ Outcome'
    BY DEF IInv, Copied, Outcome, ErrorIsReal, Ok, Typed
  <2> QED BY <2>2, <2>3, <2>4 DEF IInv
<1>4. CASE Append(k)
  <2> USE <1>4 DEF Append, Last
  <2>1. Waiting' = Waiting
    BY <1>1 DEF Waiting, Unsignalled, IInv, Typed
  <2>2. Typed' /\ InStep'
    BY <1>1 DEF IInv, Typed, InStep, Unsignalled
  <2>3. Counted' /\ Recorded' /\ NoneTaken'
    BY <1>1, <2>1 DEF IInv, Counted, Recorded, NoneTaken, InStep
  <2>4. Copied' /\ Outcome'
    BY DEF IInv, Copied, Outcome, ErrorIsReal, Ok, Typed
  <2> QED BY <2>2, <2>3, <2>4 DEF IInv
<1>5. CASE SetReply(k)
  <2> USE <1>5 DEF SetReply, Last
  <2>1. Waiting' = Waiting
    BY <1>1 DEF Waiting, Unsignalled, IInv, Typed
  <2>2. Typed' /\ InStep'
    BY <1>1 DEF IInv, Typed, InStep, Unsignalled, Words
  <2>3. Counted' /\ Recorded' /\ NoneTaken'
    BY <2>1 DEF IInv, Counted, Recorded, NoneTaken
  <2>4. Copied'
    BY GatherConstants DEF IInv, Copied, InStep, Ok, Typed, Words
  <2>5. Outcome'
    BY GatherConstants DEF IInv, Outcome, ErrorIsReal, Typed, Words
  <2> QED BY <2>2, <2>3, <2>4, <2>5 DEF IInv
<1>6. CASE AppendReceipt(k)
  <2> USE <1>6 DEF AppendReceipt
  <2>1. Waiting' = Waiting
    BY <1>1 DEF Waiting, Unsignalled, IInv, Typed
  <2>2. Typed' /\ InStep'
    BY <1>1 DEF IInv, Typed, InStep, Unsignalled
  <2>3. Counted' /\ Recorded' /\ NoneTaken' /\ Copied' /\ Outcome'
    BY <2>1 DEF IInv, Counted, Recorded, NoneTaken, Copied, Outcome, ErrorIsReal, Ok, Typed
  <2> QED BY <2>2, <2>3 DEF IInv
<1> QED BY <1>2, <1>3, <1>4, <1>5, <1>6 DEF After

\* IInv is inductive.
LEMMA Inductive == IInv /\ [Next]_vars => IInv'
<1> SUFFICES ASSUME IInv, [Next]_vars PROVE IInv'
  OBVIOUS
<1>1. CASE UNCHANGED vars
  BY <1>1 DEF vars, IInv, Typed, InStep, Counted, Recorded, NoneTaken, Copied, Outcome, ErrorIsReal, Ok,
     Waiting, Unsignalled
<1>2. CASE Next
  BY <1>2, StartStep, CollectStep, CallerStep, GoroutineStep DEF Next
<1> QED BY <1>1, <1>2

\* So it always holds.
LEMMA Invariance == Spec => []IInv
  BY InitIInv, Inductive, PTL DEF Spec

\* The types, among them that l never becomes negative: the caller never waits
\* for more results than goroutines send.
THEOREM GatherTypes == Spec => []TypeOK
<1>1. IInv => TypeOK
  <2> SUFFICES ASSUME IInv PROVE TypeOK
    OBVIOUS
  <2>1. Cardinality(Waiting) <= Cardinality(Servers) /\ Cardinality(Servers) \in Nat
    BY WaitingFinite, GatherConstants, FS_Subset, FS_CardinalityType
  <2> QED BY <2>1, WaitingFinite DEF IInv, Typed, Counted, TypeOK
<1> QED BY <1>1, Invariance, PTL

\* Broadcast, Fork and Inform return an error only if calls have failed: all of
\* Fork's, one of the others', or the timer has fired.
THEOREM ErrorsAreReal == Spec => []ErrorIsReal
<1>1. IInv => ErrorIsReal
  BY DEF IInv, Outcome
<1> QED BY <1>1, Invariance, PTL

\* Fork's goroutines copy the reply before they signal, so it is there when Fork
\* returns, however many of them write to it at the same time.
THEOREM ForkRepliesReady == Spec => []ForkReplyReady
<1>1. IInv => ForkReplyReady
  BY DEF IInv, Outcome, Copied, ForkReplyReady, Ok, Words, Typed
<1> QED BY <1>1, Invariance, PTL
=============================================================================
