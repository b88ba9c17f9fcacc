------------------------------ MODULE XClient ------------------------------
(***************************************************************************)
(* An xClient (client/xclient.go, client/xclient_call.go,                  *)
(* client/xclient_cache_client.go, client/circuit_breaker.go): goroutines  *)
(* that run Call or SendRaw under one of the fail modes, or their share of *)
(* Inform, Broadcast and Fork, over the cache of clients, the breakers and *)
(* Close.                                                                  *)
(*                                                                         *)
(* A critical section of c.mu is one step, but for the one that connects:  *)
(* generateClient stores the breaker, connects and counts a failure while  *)
(* others ask the breaker, which takes no lock.  Each load and each store  *)
(* of a breaker's atomics is a step.  A client is a connection that is up  *)
(* until its connection is lost or it is closed.  Closing a *Client that   *)
(* is not up any more is a fatal error of the process (see RpcClient); the *)
(* clients of a CacheClientBuilder, and its cache, are those of the user.  *)
(***************************************************************************)
EXTENDS Integers, FiniteSets

CONSTANTS
  Callers,      \* goroutines, one operation each
  Kinds,        \* what each of them may run: "Call", "SendRaw", "Sweep"
  Modes,        \* the fail modes considered
  Servers,      \* the keys discovery may list
  Lists,        \* the lists it may report, the first of them included
  Builder,      \* the servers of a network with a CacheClientBuilder
  MaxClients,   \* bound on the connections made
  Retries,      \* option.Retries
  Threshold,    \* of the breakers, 0 if option.GenBreaker = nil
  CanClose,     \* the user may close the xClient
  NoServer, NoClient

Clients == 1..MaxClients
Keys == Servers \cup {NoServer}       \* NoServer: the key ""

ASSUME XClientConstants ==
  /\ IsFiniteSet(Callers)
  /\ Kinds \in [Callers -> SUBSET {"Call", "SendRaw", "Sweep"}]
  /\ Modes \subseteq {"Failfast", "Failtry", "Failover", "Failbackup"}
  /\ Builder \subseteq Servers /\ NoServer \notin Servers
  /\ Lists \subseteq SUBSET Servers
  /\ MaxClients \in Nat /\ NoClient \notin Clients
  /\ Retries \in Nat /\ Threshold \in Nat
  /\ CanClose \in BOOLEAN

VARIABLES
  mode, kind,     \* c.failMode; what each goroutine runs
  isShutdown,
  listed,         \* the servers the selector knows
  cached,         \* c.cachedClient, and the cache of a builder
  st, home,       \* of each client: "unmade", "up" or "down" (closed, or lost); its server
  brk,            \* of each key: the breaker
  dials, cleared, \* of each key, since the breaker's window last passed: the
                  \* connections that failed, and who has set failures to 0
  op,             \* of each goroutine: its place and its locals
  calls,          \* of each goroutine: the calls of Failbackup
  tries, last,    \* of each goroutine: calls made, the outcome of the last one
  fatal           \* the process has ended

cnxVars == <<cached, st, home>>
brkVars == <<brk, dials, cleared>>
histVars == <<tries, last>>
vars == <<mode, kind, isShutdown, listed, cnxVars, brkVars, op, calls, histVars, fatal>>

\* Every error for want of a client (ErrXClientShutdown, ErrXClientNoServer,
\* ErrBreakerOpen, "this xClient is closed", that of Connect), which no
\* condition of the code tells apart; and what a call may return
AcquireErrors == {"noClient"}
Outcomes == {"nil", "ServiceError", "ctx", "conn", "ErrServerUnavailable"}
Errors == AcquireErrors \cup Outcomes

Places == {"start", "go", "select", "check", "ready", "reset", "restart", "find", "sweep", "generate",
           "dial", "fail", "set", "sent", "attempt", "remove", "close", "wait", "returned"}

\* k, cl, err, e: the locals of these names.  k0, cl0, err1: those of Failbackup
\* that its calls of Go do not touch.  at: where selectClient or
\* getCachedClient was called.
Locals == [pc : Places, at : {"first", "retry", "go1", "go2", "end"},
           k : Keys, cl : Clients \cup {NoClient}, err : Errors, e : Errors,
           k0 : Keys, cl0 : Clients \cup {NoClient}, err1 : Errors, left : Int]

Idle == [pc |-> "start", at |-> "first", k |-> NoServer, cl |-> NoClient, err |-> "nil",
         e |-> "nil", k0 |-> NoServer, cl0 |-> NoClient, err1 |-> "nil", left |-> -1]

TypeOK ==
  /\ mode \in Modes /\ kind \in [Callers -> {"Call", "SendRaw", "Sweep"}]
  /\ isShutdown \in BOOLEAN /\ fatal \in BOOLEAN
  /\ listed \in SUBSET Servers
  /\ cached \in [Keys -> Clients \cup {NoClient}]
  /\ st \in [Clients -> {"unmade", "up", "down"}]
  /\ home \in [Clients -> Keys]
  /\ brk \in [Keys -> [known : BOOLEAN, failures : Nat, expired : BOOLEAN]]
  /\ dials \in [Keys -> Nat] /\ cleared \in [Keys -> SUBSET Callers]
  /\ op \in [Callers -> Locals]
  /\ calls \in [Callers -> [1..2 -> {"no", "up", "dead"}]]
  /\ tries \in [Callers -> Nat]
  /\ last \in [Callers -> Outcomes \cup {"none"}]

Init ==
  /\ mode \in Modes
  /\ kind \in [Callers -> {"Call", "SendRaw", "Sweep"}] /\ \A p \in Callers : kind[p] \in Kinds[p]
  /\ isShutdown = FALSE /\ fatal = FALSE
  /\ listed \in Lists
  /\ cached = [k \in Keys |-> NoClient]
  /\ st = [c \in Clients |-> "unmade"] /\ home = [c \in Clients |-> NoServer]
  /\ brk = [k \in Keys |-> [known |-> FALSE, failures |-> 0, expired |-> TRUE]]
  /\ dials = [k \in Keys |-> 0] /\ cleared = [k \in Keys |-> {}]
  /\ op = [p \in Callers |-> Idle]
  /\ calls = [p \in Callers |-> [i \in 1..2 |-> "no"]]
  /\ tries = [p \in Callers |-> 0] /\ last = [p \in Callers |-> "none"]

Up(c) == c # NoClient /\ st[c] = "up"

\* client.Close: for a *Client that is not up, the fatal second unlock.
Closed(c) == [st EXCEPT ![c] = IF @ = "up" THEN "down" ELSE @]
CloseFatal(c) == ~Up(c) /\ home[c] \notin Builder

At(p, l) == ~fatal /\ op[p].pc = l
Become(p, o) == op' = [op EXCEPT ![p] = o]
Goto(p, l) == op' = [op EXCEPT ![p].pc = l]
Ended(r) == [Idle EXCEPT !.pc = "returned", !.err = r]
Return(p, r) == Become(p, Ended(r))

\* c.mu is not held by one that connects.
Unlocked == \A p \in Callers : op[p].pc \notin {"dial", "fail"}
-----------------------------------------------------------------------------
(* Call and SendRaw, between two calls of a client *)

\* SendRaw knows no Failbackup: its default case is that of Failfast.
Looping == mode \in {"Failtry", "Failover"}
BacksUp(p) == mode = "Failbackup" /\ kind[p] = "Call"

\* The condition of the loop over retries
GoesOn(n) == n >= 0

\* Mutant: the error of the last attempt is lost when a new client was found.
TurnForgets(o) ==
  IF GoesOn(o.left)
  THEN [o EXCEPT !.pc = IF o.cl = NoClient THEN "remove" ELSE "attempt", !.left = o.left - 1]
  ELSE Ended(o.e)

\* The head of the loop.  Without a client there is no call, and whatever err
\* is, uncoverError(err) holds: a call that ended otherwise has returned.
Turn(o) ==
  IF GoesOn(o.left)
  THEN [o EXCEPT !.pc = IF o.cl = NoClient THEN "remove" ELSE "attempt", !.left = o.left - 1]
  ELSE Ended(IF o.err = "nil" THEN o.e ELSE o.err)

\* What follows the first selectClient.
First(p, o) ==
  CASE mode = "Failfast" /\ o.e # "nil" -> Ended(o.e)
    [] Looping    -> Turn([o EXCEPT !.err = o.e, !.left = Retries])
    [] BacksUp(p) -> [o EXCEPT !.pc = "go", !.at = "go1", !.k0 = o.k, !.cl0 = o.cl]
    [] OTHER      -> [o EXCEPT !.pc = "attempt", !.at = "end", !.err = o.e]

\* selectClient or getCachedClient returns the client c or the error r.
Got(p, k, c, r) ==
  LET o == [op[p] EXCEPT !.k = k, !.cl = c, !.e = r] IN
  Become(p, CASE o.at = "first" -> First(p, o)
            [] o.at = "retry" -> Turn(o)
            [] OTHER          -> [o EXCEPT !.pc = "sent"])
-----------------------------------------------------------------------------
(* selectClient and getCachedClient *)

\* c.isShutdown, and what Ready loads first: whether the window has passed.
Checked(p, k) ==
  LET b == brk[k]
      Goes == CASE ~b.known             -> "find"
                 [] b.known /\ b.expired  -> "reset"
                 [] b.known /\ ~b.expired -> "ready"
  IN IF isShutdown THEN Got(p, k, NoClient, "noClient")
     ELSE op' = [op EXCEPT ![p].k = k, ![p].pc = Goes]

\* getCachedClient for the key of before, in Failtry
Check(p) ==
  /\ At(p, "check")
  /\ Checked(p, op[p].k)
  /\ UNCHANGED <<mode, kind, isShutdown, listed, cnxVars, brkVars, calls, histVars, fatal>>

\* selectClient: the selector under mu, and the check.  A selector returns ""
\* if it has no server, and some of them also when they find none.
Select(p) ==
  /\ At(p, "select") /\ Unlocked
  /\ \/ Got(p, NoServer, NoClient, "noClient")
     \/ \E k \in listed : Checked(p, k)
  /\ UNCHANGED <<mode, kind, isShutdown, listed, cnxVars, brkVars, calls, histVars, fatal>>

\* Mutant: the breaker is always ready.
NeverOpen(b) == FALSE

\* failures >= failureThreshold
Open(b) == b.failures >= Threshold

\* The second load of Ready
Ready(p) ==
  /\ At(p, "ready")
  /\ IF Open(brk[op[p].k]) THEN Got(p, op[p].k, NoClient, "noClient") ELSE Goto(p, "find")
  /\ UNCHANGED <<mode, kind, isShutdown, listed, cnxVars, brkVars, calls, histVars, fatal>>

\* reset stores failures, then lastFailureTime.
ResetFailures(p) ==
  /\ At(p, "reset")
  /\ brk' = [brk EXCEPT ![op[p].k].failures = 0]
  /\ cleared' = [cleared EXCEPT ![op[p].k] = @ \cup {p}]
  /\ Goto(p, "restart")
  /\ UNCHANGED <<mode, kind, isShutdown, listed, cnxVars, dials, calls, histVars, fatal>>

ResetTime(p) ==
  /\ At(p, "restart")
  /\ brk' = [brk EXCEPT ![op[p].k].expired = FALSE]
  /\ Goto(p, "find")
  /\ UNCHANGED <<mode, kind, isShutdown, listed, cnxVars, dials, cleared, calls, histVars, fatal>>

\* deleteCachedClient, for k and the client c
Delete(k, c) ==
  /\ cached' = [cached EXCEPT ![k] = NoClient]
  /\ st' = (IF c = NoClient THEN st ELSE Closed(c))
  /\ fatal' = (c # NoClient /\ CloseFatal(c))

findCachedClient(k) == cached[k]

\* findCachedClient under mu: a client that is up is used, another one deleted.
Find(p) ==
  /\ At(p, "find") /\ Unlocked
  /\ LET k == op[p].k  c == findCachedClient(k) IN
       IF Up(c) THEN Got(p, k, c, "nil") /\ UNCHANGED <<cached, st, fatal>>
       ELSE Goto(p, "generate") /\ Delete(k, c)
  /\ UNCHANGED <<mode, kind, isShutdown, listed, home, brkVars, calls, histVars>>

\* A breaker is stored for k, unless a builder makes the clients.
Stored(k) == k \notin Builder /\ Threshold > 0

LoadOrStore(k) ==
  /\ brk' = (IF Stored(k) THEN [brk EXCEPT ![k].known = TRUE] ELSE brk)
  /\ UNCHANGED <<dials, cleared>>

\* slGroup.Do under mu: generateClient, up to Connect
Generate(p) ==
  /\ At(p, "generate") /\ Unlocked
  /\ LoadOrStore(op[p].k)
  /\ Goto(p, "dial")
  /\ UNCHANGED <<mode, kind, isShutdown, listed, cnxVars, calls, histVars, fatal>>

setCachedClient(k, c) == cached' = [cached EXCEPT ![k] = c]

\* The next client: its number has no meaning.
Fresh(c) == st[c] = "unmade" /\ \A d \in Clients : d < c => st[d] # "unmade"

\* It is getCachedClientWithoutLock that makes a client.
Sweeps(p) == op[p].at = "end"

\* client.Connect succeeds: c is the new client.  The lock is released, and
\* taken again to cache c, but by Inform, which has cached it when it is.
Connect(p, c) ==
  /\ op[p].k # NoServer /\ Fresh(c)
  /\ st' = [st EXCEPT ![c] = "up"] /\ home' = [home EXCEPT ![c] = op[p].k]
  /\ IF Sweeps(p)
     THEN setCachedClient(op[p].k, c) /\ op' = [op EXCEPT ![p].pc = "attempt", ![p].cl = c]
     ELSE UNCHANGED cached /\ op' = [op EXCEPT ![p].pc = "set", ![p].cl = c]
  /\ UNCHANGED brkVars

\* generateClient returns the error, and the lock is released.
NotMade(p) ==
  IF Sweeps(p) THEN Return(p, "noClient") ELSE Got(p, op[p].k, NoClient, "noClient")

\* client.Connect fails: breaker.Fail adds to failures first.
ConnectFails(p) ==
  /\ IF Stored(op[p].k)
     THEN /\ brk' = [brk EXCEPT ![op[p].k].failures = @ + 1]
          /\ dials' = [dials EXCEPT ![op[p].k] = @ + 1]
          /\ Goto(p, "fail")
     ELSE UNCHANGED <<brk, dials>> /\ NotMade(p)
  /\ UNCHANGED <<cnxVars, cleared>>

Dial(p) ==
  /\ At(p, "dial")
  /\ (\E c \in Clients : Connect(p, c)) \/ ConnectFails(p)
  /\ UNCHANGED <<mode, kind, isShutdown, listed, calls, histVars, fatal>>

\* and stores lastFailureTime then.
FailTime(p) ==
  /\ At(p, "fail")
  /\ brk' = [brk EXCEPT ![op[p].k].expired = FALSE]
  /\ NotMade(p)
  /\ UNCHANGED <<mode, kind, isShutdown, listed, cnxVars, dials, cleared, calls, histVars, fatal>>

\* setCachedClient under mu
Set(p) ==
  /\ At(p, "set") /\ Unlocked
  /\ setCachedClient(op[p].k, op[p].cl)
  /\ Got(p, op[p].k, op[p].cl, "nil")
  /\ UNCHANGED <<mode, kind, isShutdown, listed, st, home, brkVars, calls, histVars, fatal>>

\* getCachedClientWithoutLock: the share of one server in the critical section
\* of Inform, Broadcast or Fork, which asks no breaker.  A server without a
\* client is left out.
Sweep(p) ==
  /\ At(p, "sweep") /\ Unlocked
  /\ \/ listed = {} /\ Return(p, "noClient") /\ UNCHANGED <<cached, st, brkVars, fatal>>
     \/ \E k \in listed :
          LET c == findCachedClient(k)
              Goes(l, d) == [op EXCEPT ![p].pc = l, ![p].at = "end", ![p].k = k, ![p].cl = d]
          IN IF Up(c) THEN op' = Goes("attempt", c) /\ UNCHANGED <<cached, st, brkVars, fatal>>
             ELSE op' = Goes("dial", NoClient) /\ Delete(k, c) /\ LoadOrStore(k)
  /\ UNCHANGED <<mode, kind, isShutdown, listed, home, calls, histVars>>
-----------------------------------------------------------------------------
(* Call, SendRaw and Inform *)

\* if c.isShutdown
Begin(p, l) ==
  /\ At(p, "start")
  /\ IF isShutdown THEN Return(p, "noClient") ELSE Goto(p, l)
  /\ UNCHANGED <<mode, kind, isShutdown, listed, cnxVars, brkVars, calls, histVars, fatal>>

Call(p) == kind[p] = "Call" /\ Begin(p, "select")
SendRaw(p) == kind[p] = "SendRaw" /\ Begin(p, "select")
Inform(p) == kind[p] = "Sweep" /\ Begin(p, "sweep")

\* What wrapCall or wrapSendRaw may return for the client c.  A call on a
\* client that is not up fails, unless its context ends first.  "conn" is every
\* error that uncoverError does not except; a client may be up after it.
OutcomesOf(c) ==
  CASE c = NoClient -> {"ErrServerUnavailable"}
    [] Up(c)        -> {"nil", "ServiceError", "ctx", "conn"}
    [] OTHER        -> {"ctx", "conn"}

uncoverError(r) == r \notin {"ServiceError", "ctx"}

\* Mutant: an error of the service does not end it.
EndsAtContext(r) == r \in {"nil", "ctx"}

\* The outcomes after which the loop over retries ends
Ends(r) == r \in {"nil", "ctx", "ServiceError"}

\* Failtry asks for a client of the same key, Failover selects anew.
AgainAt == IF mode = "Failtry" THEN "check" ELSE "select"

\* The rest of a loop's body, or the return.
Onward(p, err) ==
  IF op[p].at \in {"first", "retry"}
  THEN op' = [op EXCEPT ![p].err = err, ![p].pc = AgainAt, ![p].at = "retry",
                        ![p].cl = NoClient]
  ELSE Return(p, err)

\* The goroutine goes on with err after a call that ended with r.
Continue(p, r, err) ==
  IF r # "nil" /\ uncoverError(r)
  THEN op' = [op EXCEPT ![p].err = err, ![p].pc = "remove"]
  ELSE Onward(p, err)

Tried(p, r) ==
  /\ tries' = [tries EXCEPT ![p] = @ + 1] /\ last' = [last EXCEPT ![p] = r]
  /\ UNCHANGED <<mode, kind, isShutdown, listed, cnxVars, brkVars, calls, fatal>>

\* wrapCall, in a loop or after it
AttemptCall(p) ==
  /\ At(p, "attempt") /\ kind[p] # "SendRaw"
  /\ \E r \in OutcomesOf(op[p].cl) :
       /\ Tried(p, r)
       /\ IF op[p].at # "end" /\ Ends(r) THEN Return(p, r) ELSE Continue(p, r, r)

\* wrapSendRaw: in the loops err is a variable of their bodies, and the default
\* case returns nil.
AttemptRaw(p) ==
  /\ At(p, "attempt") /\ kind[p] = "SendRaw"
  /\ \E r \in OutcomesOf(op[p].cl) :
       /\ Tried(p, r)
       /\ IF op[p].at # "end" /\ Ends(r) THEN Return(p, r)
          ELSE Continue(p, r, IF op[p].at = "end" THEN "nil" ELSE op[p].err)

\* Mutant: whatever is cached for k is deleted.
SameKey(k, c) == TRUE

\* cl == client
SameClient(k, c) == findCachedClient(k) = c

\* What follows removeClient.
AfterRemove(p) == Onward(p, op[p].err)

\* removeClient, under mu
Remove(p) ==
  /\ At(p, "remove") /\ Unlocked
  /\ LET k == op[p].k  c == op[p].cl IN
       /\ IF SameClient(k, c) THEN Delete(k, c) ELSE UNCHANGED <<cached, st, fatal>>
       /\ IF c = NoClient THEN AfterRemove(p) ELSE Goto(p, "close")
  /\ UNCHANGED <<mode, kind, isShutdown, listed, home, brkVars, calls, histVars>>

\* and client.Close after it
CloseRemoved(p) ==
  /\ At(p, "close")
  /\ st' = Closed(op[p].cl)
  /\ fatal' = CloseFatal(op[p].cl)
  /\ AfterRemove(p)
  /\ UNCHANGED <<mode, kind, isShutdown, listed, cached, home, brkVars, calls, histVars>>
-----------------------------------------------------------------------------
(* Failbackup *)

\* c.Go, up to its selectClient
Go(p) ==
  /\ At(p, "go")
  /\ IF isShutdown THEN Got(p, op[p].k, NoClient, "noClient") ELSE Goto(p, "select")
  /\ UNCHANGED <<mode, kind, isShutdown, listed, cnxVars, brkVars, calls, histVars, fatal>>

\* Mutant: the key of the second selection with the client of the first.
BlamedLast(o) == [o EXCEPT !.cl = o.cl0]

\* The client that removeClient gets when the second Go fails: the one Call
\* selected before both of them.
Blamed(o) == [o EXCEPT !.k = o.k0, !.cl = o.cl0]

\* The rest of Go: client.Go puts the call on its way.  When the second one
\* cannot be made, Call removes a client and returns err1.
Sent(p) ==
  /\ At(p, "sent")
  /\ LET o == op[p]  i == IF o.at = "go1" THEN 1 ELSE 2 IN
       /\ IF o.at = "go2" /\ o.e # "nil"
          THEN Become(p, [Blamed(o) EXCEPT !.pc = "remove", !.at = "end", !.err = o.err1])
          ELSE op' = [op EXCEPT ![p].pc = "wait", ![p].err1 = IF i = 1 THEN o.e ELSE @]
       /\ IF o.e = "nil"
          THEN /\ calls' = [calls EXCEPT ![p][i] = IF Up(o.cl) THEN "up" ELSE "dead"]
               /\ tries' = [tries EXCEPT ![p] = @ + 1]
          ELSE UNCHANGED <<calls, tries>>
  /\ UNCHANGED <<mode, kind, isShutdown, listed, cnxVars, brkVars, last, fatal>>

\* case call := <-call1, and <-call2
Receive(p) ==
  /\ At(p, "wait")
  /\ \E i \in 1..2, r \in {"nil", "ServiceError", "conn"} :
       /\ calls[p][i] = "up" \/ (calls[p][i] = "dead" /\ r = "conn")
       /\ Return(p, r) /\ last' = [last EXCEPT ![p] = r]
  /\ UNCHANGED <<mode, kind, isShutdown, listed, cnxVars, brkVars, calls, tries, fatal>>

\* case <-ctx.Done()
ContextDone(p) ==
  /\ At(p, "wait")
  /\ Return(p, "ctx")
  /\ UNCHANGED <<mode, kind, isShutdown, listed, cnxVars, brkVars, calls, histVars, fatal>>

\* case <-t.C
BackupLatency(p) ==
  /\ At(p, "wait") /\ op[p].at = "go1"
  /\ op' = [op EXCEPT ![p].pc = "go", ![p].at = "go2"]
  /\ UNCHANGED <<mode, kind, isShutdown, listed, cnxVars, brkVars, calls, histVars, fatal>>
-----------------------------------------------------------------------------
(* The rest of the program and the world *)

\* Close of the xClient closes what is in c.cachedClient, not a builder's cache.
Own == {k \in Servers \ Builder : cached[k] # NoClient}

Close ==
  /\ CanClose /\ ~fatal /\ ~isShutdown /\ Unlocked
  /\ isShutdown' = TRUE
  /\ cached' = [k \in Keys |-> IF k \in Own THEN NoClient ELSE cached[k]]
  /\ st' = [c \in Clients |-> IF st[c] = "up" /\ (\E k \in Own : cached[k] = c)
                              THEN "down" ELSE st[c]]
  /\ fatal' = (\E k \in Own : ~Up(cached[k]))
  /\ UNCHANGED <<mode, kind, listed, home, brkVars, op, calls, histVars>>

\* watch: UpdateServer under mu
Update ==
  /\ ~fatal /\ Unlocked
  /\ \E L \in Lists : L # listed /\ listed' = L
  /\ UNCHANGED <<mode, kind, isShutdown, cnxVars, brkVars, op, calls, histVars, fatal>>

\* input ends with an error of the connection.
ConnLost(c) ==
  /\ ~fatal /\ Up(c)
  /\ st' = [st EXCEPT ![c] = "down"]
  /\ UNCHANGED <<mode, kind, isShutdown, listed, cached, home, brkVars, op, calls, histVars, fatal>>

\* The window of a breaker passes.
WindowPasses(k) ==
  /\ ~fatal /\ brk[k].known /\ ~brk[k].expired
  /\ brk' = [brk EXCEPT ![k].expired = TRUE]
  /\ dials' = [dials EXCEPT ![k] = 0] /\ cleared' = [cleared EXCEPT ![k] = {}]
  /\ UNCHANGED <<mode, kind, isShutdown, listed, cnxVars, op, calls, histVars, fatal>>
-----------------------------------------------------------------------------
Acquire(p) == \/ Select(p) \/ Check(p) \/ Ready(p) \/ ResetFailures(p) \/ ResetTime(p)
              \/ Find(p) \/ Sweep(p) \/ Generate(p) \/ Dial(p) \/ FailTime(p) \/ Set(p)
Proceed(p) == \/ AttemptCall(p) \/ AttemptRaw(p) \/ Remove(p) \/ CloseRemoved(p)
Backup(p) == Go(p) \/ Sent(p) \/ Receive(p) \/ ContextDone(p)

Next ==
  \/ \E p \in Callers :
       \/ Call(p) \/ SendRaw(p) \/ Inform(p) \/ Acquire(p) \/ Proceed(p) \/ Backup(p) \/ BackupLatency(p)
  \/ Close \/ Update
  \/ \E c \in Clients : ConnLost(c)
  \/ \E k \in Keys : WindowPasses(k)

Spec == Init /\ [][Next]_vars
-----------------------------------------------------------------------------
(* Properties *)

Returned(p) == op[p].pc = "returned"

\* Whoever removes or caches a client does it under the key of its server,
\* although Failover changes both between two attempts and Failbackup removes
\* a client that it selected two selections before.
RightServer ==
  /\ \A k \in Keys : cached[k] # NoClient => home[cached[k]] = k
  /\ \A p \in Callers :
       /\ op[p].pc \in {"set", "attempt", "remove", "close"} /\ op[p].cl # NoClient
            => home[op[p].cl] = op[p].k
       /\ op[p].cl0 # NoClient => home[op[p].cl0] = op[p].k0

\* Call returns nil only if the last of its calls on a client did, with one
\* exception: Failbackup returns err1, the nil of having sent the first call,
\* when it cannot send the second one, and no other call of it is unanswered
\* then (xclient_call.go:140-144).
SuccessIsReal ==
  \A p \in Callers : kind[p] = "Call" /\ Returned(p) /\ op[p].err = "nil" =>
    \/ last[p] = "nil"
    \/ mode = "Failbackup" /\ last[p] = "none" /\ calls[p][1] # "no" /\ calls[p][2] = "no"

\* An operation is not tried again once it was answered, be it by an error of
\* the service, nor once its context has ended; the attempts of a loop are at
\* most option.Retries + 1.
AnswerEndsCall ==
  [][\A p \in Callers : tries'[p] # tries[p] =>
       /\ last[p] \notin {"nil", "ServiceError", "ctx"}
       /\ mode # "Failbackup" => tries[p] <= Retries]_vars

\* A client that is up leaves the cache only because the xClient is closed or
\* because the very goroutine that used it failed with it: whoever failed on an
\* older client of that server does not take away the one that replaced it.
EvictsOwnClient ==
  [][\A k \in Keys : cached[k] # NoClient /\ Up(cached[k]) /\ cached'[k] = NoClient =>
       \/ isShutdown'
       \/ \E p \in Callers : op[p].pc = "remove" /\ op[p].cl = cached[k]]_vars

\* From one passing of a breaker's window to the next, however the two stores
\* of fail and of reset and the two loads of ready interleave, connections to
\* its server fail at most Threshold - 1 times and once for each goroutine: one
\* that asked before the breaker opened, or that runs Inform and does not ask.
\* They may fail as often again for each goroutine that found the window over
\* and sets failures to 0, however late it does (circuit_breaker.go:71-106).
BreakerHolds ==
  \A k \in Keys : Threshold > 0 =>
    dials[k] <= (Cardinality(cleared[k]) + 1) * (Threshold - 1 + Cardinality(Callers))
=============================================================================
