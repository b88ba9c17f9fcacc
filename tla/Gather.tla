------------------------------- MODULE Gather -------------------------------
(***************************************************************************)
(* One call of Broadcast, Fork or Inform of an xClient                     *)
(* (client/xclient_broadcast.go, client/xclient_fork.go,                   *)
(* client/xclient.go): the caller starts a goroutine for each server it    *)
(* has a client for and collects their results from the channel done.      *)
(* A failed call is one that removeClient does not follow, a ServiceError  *)
(* or a passed deadline, or one whose client removeClient closes without   *)
(* harm: the cache of clients is not part of this module.                  *)
(***************************************************************************)
EXTENDS Integers, FiniteSets

CONSTANTS
  Servers,        \* the keys of c.servers
  Modes,          \* the methods called, of "Broadcast", "Fork" and "Inform"
  Unreachable,    \* the servers getCachedClientWithoutLock may fail for
  CanHang,        \* the servers whose call may never return
  CanTimeOut,     \* the minute of the timer may pass
  NoServer        \* no server

ASSUME GatherConstants ==
  /\ IsFiniteSet(Servers) /\ NoServer \notin Servers
  /\ Modes \subseteq {"Broadcast", "Fork", "Inform"}
  /\ Unreachable \subseteq Servers /\ CanHang \subseteq Servers
  /\ CanTimeOut \in BOOLEAN

VARIABLES
  mode,       \* the method called
  clients,    \* the servers the caller has a client for
  pc,         \* the caller: "start", "collect", "check" or "returned"
  left,       \* l, the results it still waits for
  done,       \* the servers whose result is in the channel
  gpc,        \* of each server: the place of its goroutine
  res,        \* of each server: "none", "ok" or "failed"
  errs,       \* who appended an error to the MultiError
  reply,      \* the servers whose reply the words of the caller's variable hold
  receipts,   \* the servers whose Receipt was appended
  ret,        \* what the caller returned: "none", "nil" or "error"
  retReceipts \* and the receipts it returned

vars == <<mode, clients, pc, left, done, gpc, res, errs, reply, receipts, ret, retReceipts>>

Timer == "timer"     \* appends an error too
Words == 1..2        \* no lock protects *reply, which has more than one word

TypeOK ==
  /\ mode \in Modes
  /\ clients \subseteq Servers
  /\ pc \in {"start", "collect", "check", "returned"}
  /\ left \in 0..Cardinality(Servers)
  /\ done \subseteq clients
  /\ gpc \in [Servers -> {"none", "call", "signal", "append", "set", "set2", "receipt", "end"}]
  /\ res \in [Servers -> {"none", "ok", "failed"}]
  /\ errs \subseteq Servers \cup {Timer}
  /\ reply \in [Words -> Servers \cup {NoServer}]
  /\ receipts \subseteq Servers /\ retReceipts \subseteq receipts
  /\ ret \in {"none", "nil", "error", "ErrXClientShutdown", "ErrXClientNoServer"}

Init ==
  /\ mode \in Modes
  /\ clients = {} /\ pc = "start" /\ left = 0 /\ done = {}
  /\ gpc = [k \in Servers |-> "none"] /\ res = [k \in Servers |-> "none"]
  /\ errs = {} /\ reply = [w \in Words |-> NoServer] /\ receipts = {}
  /\ ret = "none" /\ retReceipts = {}
-----------------------------------------------------------------------------
(* The caller *)

\* if c.isShutdown
Refused ==
  /\ pc = "start"
  /\ pc' = "returned"
  /\ ret' = "ErrXClientShutdown"
  /\ UNCHANGED <<mode, clients, left, done, gpc, res, errs, reply, receipts, retReceipts>>

\* l := len(clients)
Expected == Cardinality(clients')

\* The critical section of c.mu, and the goroutines.  A server without a
\* client is skipped.
Start ==
  /\ pc = "start"
  /\ \E S \in SUBSET Unreachable : clients' = Servers \ S
  /\ left' = Expected
  /\ gpc' = [k \in Servers |-> IF k \in clients' THEN "call" ELSE "none"]
  /\ IF clients' = {} THEN pc' = "returned" /\ ret' = "ErrXClientNoServer"
                      ELSE pc' = "collect" /\ UNCHANGED ret
  /\ UNCHANGED <<mode, done, res, errs, reply, receipts, retReceipts>>

\* Mutant: Fork gives up at the first failure, as Broadcast does.
StopsAtFailure(ok, l) == IF mode = "Inform" THEN l = 0 ELSE l = 0 \/ ~ok

\* The conditions of break check.
Stops(ok, l) == l = 0 \/ (mode = "Broadcast" /\ ~ok)

\* case result := <-done
Collect ==
  /\ pc = "collect"
  /\ \E k \in done :
       /\ done' = done \ {k}
       /\ left' = left - 1
       /\ IF mode = "Fork" /\ res[k] = "ok"
          THEN pc' = "returned" /\ ret' = "nil"
          ELSE pc' = (IF Stops(res[k] = "ok", left') THEN "check" ELSE "collect") /\ UNCHANGED ret
  /\ UNCHANGED <<mode, clients, gpc, res, errs, reply, receipts, retReceipts>>

\* case <-timeout.C
TimeOut ==
  /\ CanTimeOut
  /\ pc = "collect"
  /\ errs' = errs \cup {Timer}
  /\ pc' = "check"
  /\ UNCHANGED <<mode, clients, left, done, gpc, res, reply, receipts, ret, retReceipts>>

\* if err.Error() == "[]"
Check ==
  /\ pc = "check"
  /\ pc' = "returned"
  /\ ret' = IF errs = {} THEN "nil" ELSE "error"
  /\ retReceipts' = receipts
  /\ UNCHANGED <<mode, clients, left, done, gpc, res, errs, reply, receipts>>
-----------------------------------------------------------------------------
(* The goroutine of a server *)

\* Mutant: Fork signals before it copies the reply, as Broadcast does.
SignalFirst(k) == "signal"

\* The step that follows wrapCall: only Fork copies the reply before it
\* signals.
AfterCall(k) == IF mode = "Fork" /\ res'[k] = "ok" THEN "set" ELSE "signal"

\* wrapCall returns.
CallReturns(k) ==
  /\ gpc[k] = "call"
  /\ \E r \in {"ok", "failed"} : res' = [res EXCEPT ![k] = r]
  /\ gpc' = [gpc EXCEPT ![k] = AfterCall(k)]
  /\ UNCHANGED <<mode, clients, pc, left, done, errs, reply, receipts, ret, retReceipts>>

\* The last step of the goroutine but for Inform's receipt.
Last == IF mode = "Inform" THEN "receipt" ELSE "end"

\* Mutant: the channel holds one result.
DoneCapOne == 1

\* done := make(chan bool, l)
DoneCap == Cardinality(clients)

\* done <- e == nil
Signal(k) ==
  /\ gpc[k] = "signal"
  /\ Cardinality(done) < DoneCap
  /\ done' = done \cup {k}
  /\ gpc' = [gpc EXCEPT ![k] = IF res[k] = "failed" THEN "append"
                               ELSE IF mode = "Fork" THEN "end" ELSE "set"]
  /\ UNCHANGED <<mode, clients, pc, left, res, errs, reply, receipts, ret, retReceipts>>

\* err.Append(e)
Append(k) ==
  /\ gpc[k] = "append"
  /\ errs' = errs \cup {k}
  /\ gpc' = [gpc EXCEPT ![k] = Last]
  /\ UNCHANGED <<mode, clients, pc, left, done, res, reply, receipts, ret, retReceipts>>

\* reflect.ValueOf(reply).Elem().Set(...), a word at a time
SetReply(k) ==
  /\ gpc[k] \in {"set", "set2"}
  /\ reply' = [reply EXCEPT ![IF gpc[k] = "set" THEN 1 ELSE 2] = k]
  /\ gpc' = [gpc EXCEPT ![k] = IF gpc[k] = "set" THEN "set2"
                               ELSE IF mode = "Fork" THEN "signal" ELSE Last]
  /\ UNCHANGED <<mode, clients, pc, left, done, res, errs, receipts, ret, retReceipts>>

\* receipts = append(receipts, Receipt{...}), under receiptsLock
AppendReceipt(k) ==
  /\ gpc[k] = "receipt"
  /\ receipts' = receipts \cup {k}
  /\ gpc' = [gpc EXCEPT ![k] = "end"]
  /\ UNCHANGED <<mode, clients, pc, left, done, res, errs, reply, ret, retReceipts>>
-----------------------------------------------------------------------------
After(k) == Signal(k) \/ Append(k) \/ SetReply(k) \/ AppendReceipt(k)

Next ==
  \/ Refused \/ Start \/ Collect \/ TimeOut \/ Check
  \/ \E k \in Servers : CallReturns(k) \/ After(k)

Spec == Init /\ [][Next]_vars

\* The caller and the goroutines run, the timer fires, and the call to a
\* server that does not hang returns.
Fairness ==
  /\ WF_vars(Refused \/ Start \/ Collect \/ Check) /\ WF_vars(TimeOut)
  /\ \A k \in Servers : WF_vars(After(k))
  /\ \A k \in Servers \ CanHang : WF_vars(CallReturns(k))

FairSpec == Spec /\ Fairness
-----------------------------------------------------------------------------
(* Properties *)

Ok(k) == res[k] = "ok"

\* Whoever returns an error without waiting for the timer has a reason for it:
\* for Fork the failure of every server it has a client for, for Broadcast
\* and Inform that of one.
ErrorIsReal ==
  ret = "error" /\ Timer \notin errs =>
    IF mode = "Fork" THEN \A k \in clients : res[k] = "failed"
                     ELSE \E k \in clients : res[k] = "failed"

\* When Fork returns nil although only some of its calls have succeeded, the
\* caller's reply already holds theirs: no word of it is unset or comes from
\* a call that failed.
ForkReplyReady ==
  mode = "Fork" /\ ret = "nil" /\ (\E k \in clients : Ok(k)) =>
    \A w \in Words : reply[w] # NoServer /\ Ok(reply[w])

\* The caller returns, whichever servers hang, and the goroutine of a server
\* that answered ends, although nobody receives from done any more.
EveryoneEnds ==
  /\ (pc = "start") ~> (pc = "returned")
  /\ \A k \in Servers : (gpc[k] = "signal") ~> (gpc[k] = "end")
=============================================================================
