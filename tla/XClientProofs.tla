---------------------------- MODULE XClientProofs ----------------------------
(***************************************************************************)
(* The cache of clients of an xClient, the course of its operations and    *)
(* its breakers, for any number of goroutines, servers, connections and    *)
(* retries, and any threshold.                                             *)
(***************************************************************************)
EXTENDS XClient, FiniteSetTheorems, TLAPS

\* The client c, if there is one, was made for the key k.
Fits(c, k, h, s) == c # NoClient => h[c] = k /\ s[c] # "unmade"

\* The locals of a goroutine name a client together with its key.
Sound(o, h, s) ==
  /\ o \in Locals
  /\ o.pc \in {"set", "attempt", "remove", "close"} => Fits(o.cl, o.k, h, s)
  /\ o.pc \in {"set", "close"} => o.cl # NoClient
  /\ Fits(o.cl0, o.k0, h, s)

CacheOK ==
  /\ cached \in [Keys -> Clients \cup {NoClient}]
  /\ st \in [Clients -> {"unmade", "up", "down"}] /\ home \in [Clients -> Keys]
  /\ \A k \in Keys : Fits(cached[k], k, home, st)

IInv ==
  /\ listed \subseteq Servers
  /\ CacheOK
  /\ op \in [Callers -> Locals]
  /\ \A p \in Callers : Sound(op[p], home, st)

\* A client keeps its server once it was made.
Lasting == \A c \in Clients : st[c] # "unmade" => st'[c] # "unmade" /\ home'[c] = home[c]

\* A new xClient has no clients.
LEMMA InitIInv == Init => IInv
  BY XClientConstants DEF Init, IInv, CacheOK, Sound, Fits, Idle, Locals, Places, Keys, Errors, AcquireErrors,
     Outcomes

\* A step of the goroutine p.
LEMMA StepOf ==
  ASSUME IInv, NEW p \in Callers, NEW o, op' = [op EXCEPT ![p] = o], Sound(o, home', st'),
         Lasting, CacheOK', UNCHANGED listed
  PROVE  IInv'
<1>1. op' \in [Callers -> Locals]
  BY Zenon DEF IInv, Sound
<1>2. ASSUME NEW q \in Callers PROVE Sound(op'[q], home', st')
  <2>1. CASE q = p
    BY <2>1, Zenon DEF IInv
  <2>2. CASE q # p
    <3>1. op'[q] = op[q] /\ op[q] \in Locals /\ Sound(op[q], home, st)
      BY <2>2, Zenon DEF IInv
    <3>2. op[q].cl \in Clients \cup {NoClient} /\ op[q].cl0 \in Clients \cup {NoClient}
      BY <3>1, Zenon DEF Locals
    <3> QED BY <3>1, <3>2, Zenon DEF Sound, Fits, Lasting
  <2> QED BY <2>1, <2>2, Zenon
<1> QED BY <1>1, <1>2, Zenon DEF IInv

\* The locals before anything happened.
LEMMA IdleTyped == Idle \in Locals
  BY DEF Idle, Locals, Places, Keys, Errors, AcquireErrors, Outcomes

\* A goroutine that returned holds no client.
LEMMA EndedSound == ASSUME NEW r \in Errors, NEW h, NEW s PROVE Sound(Ended(r), h, s)
<1>1. Ended(r) \in Locals
  BY IdleTyped, Zenon DEF Ended, Locals, Places
<1>2. Ended(r).pc = "returned" /\ Ended(r).cl0 = NoClient
  BY IdleTyped, Zenon DEF Ended, Idle
<1> QED BY <1>1, <1>2, Zenon DEF Sound, Fits

\* The head of the loop over retries goes on with the client it has.
LEMMA TurnSound ==
  ASSUME NEW o \in Locals, NEW h, NEW s, Fits(o.cl, o.k, h, s), Fits(o.cl0, o.k0, h, s)
  PROVE  Sound(Turn(o), h, s)
<1>1. CASE GoesOn(o.left)
  <2> DEFINE l == IF o.cl = NoClient THEN "remove" ELSE "attempt"
  <2>1. l \in Places /\ l \in {"remove", "attempt"} /\ o.left - 1 \in Int
    BY DEF Locals, Places
  <2>2. Turn(o) = [o EXCEPT !.pc = l, !.left = o.left - 1]
    BY <1>1, Zenon DEF Turn
  <2> HIDE DEF l
  <2>3. Turn(o) \in Locals
    BY <2>1, <2>2, Zenon DEF Locals
  <2>4. /\ Turn(o).cl = o.cl /\ Turn(o).k = o.k /\ Turn(o).cl0 = o.cl0 /\ Turn(o).k0 = o.k0
        /\ Turn(o).pc = l
    BY <2>2, Zenon DEF Locals
  <2> QED BY <2>1, <2>3, <2>4, Zenon DEF Sound
<1>2. CASE ~GoesOn(o.left)
  <2>1. o.e \in Errors /\ o.err \in Errors
    BY Zenon DEF Locals
  <2>2. Turn(o) = Ended(o.e) \/ Turn(o) = Ended(o.err)
    BY <1>2, Zenon DEF Turn
  <2> QED BY <2>1, <2>2, EndedSound, Zenon
<1> QED BY <1>1, <1>2, Zenon

\* So does what follows the first selectClient, under every fail mode.
LEMMA FirstSound ==
  ASSUME NEW p, NEW o \in Locals, NEW h, NEW s, Fits(o.cl, o.k, h, s), Fits(o.cl0, o.k0, h, s)
  PROVE  Sound(First(p, o), h, s)
<1> DEFINE o1 == [o EXCEPT !.err = o.e, !.left = Retries]
           o2 == [o EXCEPT !.pc = "go", !.at = "go1", !.k0 = o.k, !.cl0 = o.cl]
           o3 == [o EXCEPT !.pc = "attempt", !.at = "end", !.err = o.e]
<1>1. \/ First(p, o) = Ended(o.e) \/ First(p, o) = Turn(o1)
      \/ First(p, o) = o2 \/ First(p, o) = o3
  <2>1. CASE mode = "Failfast" /\ o.e # "nil"
    BY <2>1, Zenon DEF First, Looping, BacksUp
  <2>2. CASE mode = "Failfast" /\ o.e = "nil"
    BY <2>2, Zenon DEF First, Looping, BacksUp
  <2>3. CASE mode # "Failfast" /\ Looping
    BY <2>3, Zenon DEF First, Looping, BacksUp
  <2>4. CASE mode # "Failfast" /\ ~Looping /\ BacksUp(p)
    BY <2>4, Zenon DEF First, Looping, BacksUp
  <2>5. CASE mode # "Failfast" /\ ~Looping /\ ~BacksUp(p)
    BY <2>5, Zenon DEF First
  <2> QED BY <2>1, <2>2, <2>3, <2>4, <2>5, Zenon
<1>2. o.e \in Errors /\ Retries \in Int
  BY XClientConstants DEF Locals
<1>3. o1 \in Locals
  BY <1>2, Zenon DEF Locals
<1>4. o1.cl = o.cl /\ o1.k = o.k /\ o1.cl0 = o.cl0 /\ o1.k0 = o.k0
  BY Zenon DEF Locals
<1>5. o2 \in Locals
  BY Zenon DEF Locals, Places
<1>6. o2.pc = "go" /\ o2.cl0 = o.cl /\ o2.k0 = o.k
  BY Zenon DEF Locals
<1>7. o3 \in Locals
  BY Zenon DEF Locals, Places
<1>8. o3.pc = "attempt" /\ o3.cl = o.cl /\ o3.k = o.k /\ o3.cl0 = o.cl0 /\ o3.k0 = o.k0
  BY Zenon DEF Locals
<1> HIDE DEF o1, o2, o3
<1>9. Sound(Turn(o1), h, s)
  BY <1>3, <1>4, TurnSound, Zenon
<1>10. Sound(o2, h, s) /\ Sound(o3, h, s)
  BY <1>5, <1>6, <1>7, <1>8, Zenon DEF Sound
<1> QED BY <1>1, <1>2, <1>9, <1>10, EndedSound, Zenon

\* selectClient and getCachedClient return a client with its key.
LEMMA GotSound ==
  ASSUME NEW p \in Callers, op \in [Callers -> Locals], Sound(op[p], home, st),
         NEW k \in Keys, NEW c \in Clients \cup {NoClient}, Fits(c, k, home, st), NEW r \in Errors,
         Got(p, k, c, r)
  PROVE  \E o : op' = [op EXCEPT ![p] = o] /\ Sound(o, home, st)
<1> DEFINE o == [op[p] EXCEPT !.k = k, !.cl = c, !.e = r]
           o1 == [o EXCEPT !.pc = "sent"]
<1>1. o \in Locals
  BY Zenon DEF Locals
<1>2. o.k = k /\ o.cl = c /\ o.cl0 = op[p].cl0 /\ o.k0 = op[p].k0
  BY Zenon DEF Locals
<1>3. \/ op' = [op EXCEPT ![p] = First(p, o)]
      \/ op' = [op EXCEPT ![p] = Turn(o)]
      \/ op' = [op EXCEPT ![p] = o1]
  BY Zenon DEF Got, Become
<1> HIDE DEF o
<1>4. Fits(o.cl, o.k, home, st) /\ Fits(o.cl0, o.k0, home, st)
  BY <1>2, Zenon DEF Sound
<1>5. o1 \in Locals /\ o1.pc = "sent" /\ o1.cl0 = o.cl0 /\ o1.k0 = o.k0
  BY <1>1, Zenon DEF Locals, Places
<1> HIDE DEF o1
<1>6. Sound(o1, home, st)
  BY <1>4, <1>5, Zenon DEF Sound
<1> QED BY <1>1, <1>3, <1>4, <1>6, FirstSound, TurnSound, Zenon

\* Clients are closed and leave the cache, no other is made.
Dropped ==
  /\ UNCHANGED <<home, listed>>
  /\ st' \in [Clients -> {"unmade", "up", "down"}] /\ \A c \in Clients : st[c] # "unmade" => st'[c] # "unmade"
  /\ cached' \in [Keys -> Clients \cup {NoClient}] /\ \A k \in Keys : cached'[k] \in {cached[k], NoClient}

\* That keeps the cache in order,
LEMMA DroppedCache == IInv /\ Dropped => Lasting /\ CacheOK'
  BY Zenon DEF IInv, Dropped, Lasting, CacheOK, Fits

\* and a goroutine may go on at the same time.
LEMMA DropStep ==
  ASSUME IInv, Dropped, NEW p \in Callers, NEW o, op' = [op EXCEPT ![p] = o], Sound(o, home, st)
  PROVE  IInv'
<1>1. o.cl \in Clients \cup {NoClient} /\ o.cl0 \in Clients \cup {NoClient}
  BY Zenon DEF Sound, Locals
<1>2. Sound(o, home', st')
  BY <1>1, Zenon DEF Sound, Fits, Dropped
<1> QED BY <1>2, DroppedCache, StepOf, Zenon DEF Dropped

\* Nothing of it need happen.
LEMMA SameDropped == IInv /\ UNCHANGED <<cached, st, home, listed>> => Dropped
  BY Zenon DEF IInv, CacheOK, Dropped

\* deleteCachedClient does only that.
LEMMA DeleteDrops ==
  ASSUME IInv, NEW k \in Keys, NEW c \in Clients \cup {NoClient}, Delete(k, c), UNCHANGED <<home, listed>>
  PROVE  Dropped
  BY XClientConstants, Zenon DEF IInv, CacheOK, Dropped, Delete, Closed

\* A goroutine that holds no client to use or to close.
LEMMA GotoSound ==
  ASSUME NEW o, NEW h, NEW s, Sound(o, h, s), NEW l \in Places \ {"set", "attempt", "remove", "close"},
         NEW k \in Keys
  PROVE  Sound([o EXCEPT !.pc = l], h, s) /\ Sound([o EXCEPT !.k = k, !.pc = l], h, s)
<1> DEFINE o1 == [o EXCEPT !.pc = l]
           o2 == [o EXCEPT !.k = k, !.pc = l]
<1>1. o1 \in Locals /\ o2 \in Locals
  BY Zenon DEF Sound, Locals
<1>2. o1.pc = l /\ o1.cl0 = o.cl0 /\ o1.k0 = o.k0 /\ o2.pc = l /\ o2.cl0 = o.cl0 /\ o2.k0 = o.k0
  BY Zenon DEF Sound, Locals
<1> HIDE DEF o1, o2
<1>3. Sound(o1, h, s) /\ Sound(o2, h, s)
  BY <1>1, <1>2, Zenon DEF Sound
<1> QED BY <1>3, Zenon DEF o1, o2

\* Return, Goto, Got and Onward of a goroutine, while clients may be dropped.
LEMMA ReturnStep ==
  ASSUME IInv, Dropped, NEW p \in Callers, NEW r \in Errors, Return(p, r)
  PROVE  IInv'
<1>1. op' = [op EXCEPT ![p] = Ended(r)]
  BY Zenon DEF Return, Become
<1> QED BY <1>1, EndedSound, DropStep, Zenon

LEMMA GotoStep ==
  ASSUME IInv, Dropped, NEW p \in Callers, NEW l \in Places \ {"set", "attempt", "remove", "close"},
         Goto(p, l)
  PROVE  IInv'
<1>1. op' = [op EXCEPT ![p] = [op[p] EXCEPT !.pc = l]]
  BY Zenon DEF Goto
<1>2. Sound([op[p] EXCEPT !.pc = l], home, st)
  BY GotoSound, Zenon DEF IInv, Keys
<1> QED BY <1>1, <1>2, DropStep, Zenon

LEMMA GotStep ==
  ASSUME IInv, Dropped, NEW p \in Callers, NEW k \in Keys, NEW c \in Clients \cup {NoClient},
         Fits(c, k, home, st), NEW r \in Errors, Got(p, k, c, r)
  PROVE  IInv'
<1>1. PICK o : op' = [op EXCEPT ![p] = o] /\ Sound(o, home, st)
  BY GotSound, Zenon DEF IInv
<1> QED BY <1>1, DropStep, Zenon

LEMMA OnwardStep ==
  ASSUME IInv, Dropped, NEW p \in Callers, NEW r \in Errors, Onward(p, r)
  PROVE  IInv'
<1>1. CASE op[p].at \in {"first", "retry"}
  <2> DEFINE o == [op[p] EXCEPT !.err = r, !.pc = AgainAt, !.at = "retry", !.cl = NoClient]
  <2>1. op[p] \in Locals /\ Sound(op[p], home, st) /\ AgainAt \in {"check", "select"}
    BY Zenon DEF IInv, AgainAt
  <2>2. op' = [op EXCEPT ![p] = o]
    BY <1>1, Zenon DEF Onward
  <2>3. o \in Locals
    BY <2>1, Zenon DEF Locals, Places
  <2>4. o.pc = AgainAt /\ o.cl0 = op[p].cl0 /\ o.k0 = op[p].k0
    BY <2>1, Zenon DEF Locals
  <2> HIDE DEF o
  <2>5. Sound(o, home, st)
    BY <2>1, <2>3, <2>4, Zenon DEF Sound
  <2> QED BY <2>2, <2>5, DropStep, Zenon
<1>2. CASE op[p].at \notin {"first", "retry"}
  BY <1>2, ReturnStep, Zenon DEF Onward
<1> QED BY <1>1, <1>2, Zenon

LEMMA CheckedStep ==
  ASSUME IInv, Dropped, NEW p \in Callers, NEW k \in Keys, Checked(p, k)
  PROVE  IInv'
<1>1. \/ Got(p, k, NoClient, "noClient")
      \/ \E l \in {"ready", "reset", "find"} : op' = [op EXCEPT ![p] = [op[p] EXCEPT !.k = k, !.pc = l]]
  BY Zenon DEF Checked
<1>2. CASE Got(p, k, NoClient, "noClient")
  BY <1>2, GotStep, Zenon DEF Fits, Errors, AcquireErrors
<1>3. ASSUME NEW l \in {"ready", "reset", "find"}, op' = [op EXCEPT ![p] = [op[p] EXCEPT !.k = k, !.pc = l]] PROVE IInv'
  <2>1. Sound([op[p] EXCEPT !.k = k, !.pc = l], home, st)
    BY <1>3, GotoSound, Zenon DEF IInv, Places
  <2> QED BY <1>3, <2>1, DropStep, Zenon
<1> QED BY <1>1, <1>2, <1>3, Zenon
-----------------------------------------------------------------------------
USE DEF cnxVars, brkVars, At

\* generateClient makes a client for the key of p,
LEMMA ConnectStep ==
  ASSUME IInv, NEW p \in Callers, NEW c \in Clients, Connect(p, c), UNCHANGED listed
  PROVE  IInv'
<1> DEFINE l == IF Sweeps(p) THEN "attempt" ELSE "set"
           o == [op[p] EXCEPT !.pc = l, !.cl = c]
<1>0. op[p] \in Locals /\ op[p].k \in Keys /\ Sound(op[p], home, st) /\ l \in {"attempt", "set"} /\ c # NoClient
  BY XClientConstants, Zenon DEF IInv, Locals
<1>1. op' = [op EXCEPT ![p] = o]
  BY Zenon DEF Connect
<1>2. /\ st[c] = "unmade" /\ st' = [st EXCEPT ![c] = "up"] /\ home' = [home EXCEPT ![c] = op[p].k]
      /\ cached' = cached \/ cached' = [cached EXCEPT ![op[p].k] = c]
  BY Zenon DEF Connect, Fresh, setCachedClient
<1>3. Lasting /\ home'[c] = op[p].k /\ st'[c] = "up"
  BY <1>0, <1>2, Zenon DEF IInv, CacheOK, Lasting
<1>4. CacheOK'
  <2>1. /\ cached' \in [Keys -> Clients \cup {NoClient}]
        /\ st' \in [Clients -> {"unmade", "up", "down"}] /\ home' \in [Clients -> Keys]
    BY <1>0, <1>2, Zenon DEF IInv, CacheOK
  <2>2. \A j \in Keys : Fits(cached'[j], j, home', st')
    <3> SUFFICES ASSUME NEW j \in Keys PROVE Fits(cached'[j], j, home', st')
      BY Zenon
    <3>1. Fits(cached[j], j, home, st) /\ cached[j] \in Clients \cup {NoClient}
      BY Zenon DEF IInv, CacheOK
    <3>2. Fits(cached[j], j, home', st')
      BY <1>3, <3>1, Zenon DEF Fits, Lasting
    <3>3. cached'[j] = cached[j] \/ (j = op[p].k /\ cached'[j] = c)
      BY <1>0, <1>2, Zenon DEF IInv, CacheOK
    <3> QED BY <1>3, <3>2, <3>3, Zenon DEF Fits
  <2> QED BY <2>1, <2>2, Zenon DEF CacheOK
<1> HIDE DEF l
<1>5. o \in Locals
  BY <1>0, Zenon DEF Locals, Places
<1>6. o.pc = l /\ o.cl = c /\ o.k = op[p].k /\ o.cl0 = op[p].cl0 /\ o.k0 = op[p].k0
  BY <1>0, Zenon DEF Locals
<1>7. Fits(op[p].cl0, op[p].k0, home', st')
  BY <1>0, <1>3, Zenon DEF Sound, Fits, Lasting, Locals
<1> HIDE DEF o
<1>8. Sound(o, home', st')
  BY <1>0, <1>3, <1>5, <1>6, <1>7, Zenon DEF Sound, Fits
<1> QED BY <1>1, <1>3, <1>4, <1>8, StepOf, Zenon

\* or none.
LEMMA NotMadeStep ==
  ASSUME IInv, Dropped, NEW p \in Callers, NotMade(p)
  PROVE  IInv'
<1>1. op[p].k \in Keys
  BY Zenon DEF IInv, Locals
<1>2. CASE Return(p, "noClient")
  BY <1>2, ReturnStep, Zenon DEF Errors, AcquireErrors
<1>3. CASE Got(p, op[p].k, NoClient, "noClient")
  BY <1>1, <1>3, GotStep, Zenon DEF Fits, Errors, AcquireErrors
<1> QED BY <1>2, <1>3, Zenon DEF NotMade

\* Inform, Broadcast and Fork find a client or are to make one.
LEMMA SweepStep == ASSUME IInv, NEW p \in Callers, Sweep(p) PROVE IInv'
<1> DEFINE Goes(k, l, d) == [op EXCEPT ![p].pc = l, ![p].at = "end", ![p].k = k, ![p].cl = d]
<1>1. CASE Return(p, "noClient") /\ UNCHANGED <<cached, st>>
  <2>1. Dropped
    BY <1>1, SameDropped, Zenon DEF Sweep
  <2> QED BY <1>1, <2>1, ReturnStep, Zenon DEF Errors, AcquireErrors
<1>2. ASSUME NEW k \in listed, NEW l \in {"attempt", "dial"}, NEW d \in {cached[k], NoClient},
             op' = Goes(k, l, d), Dropped
      PROVE  IInv'
  <2> DEFINE o == [op[p] EXCEPT !.pc = l, !.at = "end", !.k = k, !.cl = d]
  <2>1. /\ op[p] \in Locals /\ Sound(op[p], home, st)
        /\ k \in Keys /\ d \in Clients \cup {NoClient} /\ Fits(d, k, home, st)
    <3>1. op[p] \in Locals /\ Sound(op[p], home, st) /\ k \in Keys
      BY Zenon DEF IInv, Keys
    <3>2. cached[k] \in Clients \cup {NoClient} /\ Fits(cached[k], k, home, st) /\ Fits(NoClient, k, home, st)
      BY <3>1, Zenon DEF IInv, CacheOK, Fits
    <3> QED BY <3>1, <3>2, Zenon
  <2>2. o \in Locals
    BY <2>1, Zenon DEF Locals, Places
  <2>3. o.pc = l /\ o.cl = d /\ o.k = k /\ o.cl0 = op[p].cl0 /\ o.k0 = op[p].k0
    BY <2>1, Zenon DEF Locals
  <2>4. op' = [op EXCEPT ![p] = o]
    BY <1>2, Zenon
  <2> HIDE DEF o
  <2>5. Sound(o, home, st)
    BY <2>1, <2>2, <2>3, Zenon DEF Sound
  <2> QED BY <1>2, <2>4, <2>5, DropStep, Zenon
<1>3. ASSUME NEW k \in listed, op' = Goes(k, "attempt", cached[k]), UNCHANGED <<cached, st>> PROVE IInv'
  <2>1. Dropped
    BY <1>3, SameDropped, Zenon DEF Sweep
  <2> QED BY <1>2, <1>3, <2>1, Zenon
<1>4. ASSUME NEW k \in listed, op' = Goes(k, "dial", NoClient), Delete(k, cached[k]) PROVE IInv'
  <2>1. k \in Keys /\ cached[k] \in Clients \cup {NoClient} /\ UNCHANGED <<home, listed>>
    BY Zenon DEF IInv, CacheOK, Keys, Sweep
  <2>2. Dropped
    BY <1>4, <2>1, DeleteDrops, Zenon
  <2> QED BY <1>2, <1>4, <2>2, Zenon
<1> HIDE DEF Goes
<1>5. \/ Return(p, "noClient") /\ UNCHANGED <<cached, st>>
      \/ \E k \in listed : op' = Goes(k, "attempt", cached[k]) /\ UNCHANGED <<cached, st>>
      \/ \E k \in listed : op' = Goes(k, "dial", NoClient) /\ Delete(k, cached[k])
  BY Zenon DEF Sweep, findCachedClient, Goes
<1> QED BY <1>1, <1>3, <1>4, <1>5, Zenon

\* What selectClient and getCachedClient do to the goroutine p.
LEMMA AcquireStep == ASSUME IInv, NEW p \in Callers, Acquire(p) PROVE IInv'
<1>0. op[p] \in Locals /\ op[p].k \in Keys /\ Sound(op[p], home, st)
  BY Zenon DEF IInv, Locals
<1>1. CASE Select(p)
  <2>1. Dropped
    BY <1>1, SameDropped, Zenon DEF Select
  <2>2. CASE Got(p, NoServer, NoClient, "noClient")
    BY <2>1, <2>2, GotStep, Zenon DEF Fits, Errors, AcquireErrors, Keys
  <2>3. ASSUME NEW k \in listed, Checked(p, k) PROVE IInv'
    BY <2>1, <2>3, CheckedStep, Zenon DEF IInv, Keys
  <2> QED BY <1>1, <2>2, <2>3, Zenon DEF Select
<1>2. CASE Check(p)
  BY <1>0, <1>2, SameDropped, CheckedStep, Zenon DEF Check
<1>3. CASE ResetFailures(p)
  BY <1>3, SameDropped, GotoStep, Zenon DEF ResetFailures, Places
<1>4. CASE ResetTime(p)
  BY <1>4, SameDropped, GotoStep, Zenon DEF ResetTime, Places
<1>5. CASE Find(p)
  <2> DEFINE k == op[p].k
             c == cached[op[p].k]
  <2>1. k \in Keys /\ c \in Clients \cup {NoClient} /\ Fits(c, k, home, st)
    BY <1>0, Zenon DEF IInv, CacheOK
  <2>2. CASE Up(c)
    <3>1. Dropped /\ Got(p, k, c, "nil")
      BY <1>5, <2>2, SameDropped, Zenon DEF Find, findCachedClient
    <3> QED BY <2>1, <3>1, GotStep, Zenon DEF Errors, Outcomes
  <2>3. CASE ~Up(c)
    <3>1. Goto(p, "generate") /\ Delete(k, c) /\ UNCHANGED <<home, listed>>
      BY <1>5, <2>3, Zenon DEF Find, findCachedClient
    <3>2. Dropped
      BY <2>1, <3>1, DeleteDrops, Zenon
    <3> QED BY <3>1, <3>2, GotoStep, Zenon DEF Places
  <2> QED BY <2>2, <2>3, Zenon
<1>6. CASE Generate(p)
  BY <1>6, SameDropped, GotoStep, Zenon DEF Generate, LoadOrStore, Places
<1>7. CASE Set(p)
  <2>1. op[p].cl \in Clients /\ Fits(op[p].cl, op[p].k, home, st)
    BY <1>0, <1>7, Zenon DEF Set, Sound, Locals
  <2>2. PICK o : op' = [op EXCEPT ![p] = o] /\ Sound(o, home, st)
    BY <1>0, <1>7, <2>1, GotSound, Zenon DEF Set, IInv, Errors, Outcomes
  <2>3. Lasting /\ CacheOK'
    BY <1>0, <1>7, <2>1, Zenon DEF Set, setCachedClient, IInv, CacheOK, Lasting, Fits
  <2>4. Sound(o, home', st') /\ UNCHANGED listed
    BY <1>7, <2>2, Zenon DEF Set
  <2> QED BY <2>2, <2>3, <2>4, StepOf, Zenon
<1>8. CASE Ready(p)
  <2>1. Dropped
    BY <1>8, SameDropped, Zenon DEF Ready
  <2>2. CASE Got(p, op[p].k, NoClient, "noClient")
    BY <1>0, <2>1, <2>2, GotStep, Zenon DEF Fits, Errors, AcquireErrors
  <2>3. CASE Goto(p, "find")
    BY <2>1, <2>3, GotoStep, Zenon DEF Places
  <2> QED BY <1>8, <2>2, <2>3, Zenon DEF Ready
<1>9. CASE Dial(p)
  <2>1. ASSUME NEW c \in Clients, Connect(p, c) PROVE IInv'
    BY <1>9, <2>1, ConnectStep, Zenon DEF Dial
  <2>2. CASE ConnectFails(p)
    <3>1. Dropped
      BY <1>9, <2>2, SameDropped, Zenon DEF Dial, ConnectFails
    <3>2. CASE Goto(p, "fail")
      BY <3>1, <3>2, GotoStep, Zenon DEF Places
    <3>3. CASE NotMade(p)
      BY <3>1, <3>3, NotMadeStep, Zenon
    <3> QED BY <2>2, <3>2, <3>3, Zenon DEF ConnectFails
  <2> QED BY <1>9, <2>1, <2>2, Zenon DEF Dial
<1>10. CASE FailTime(p)
  BY <1>10, SameDropped, NotMadeStep, Zenon DEF FailTime
<1> QED BY <1>1, <1>2, <1>3, <1>4, <1>5, <1>6, <1>7, <1>8, <1>9, <1>10, SweepStep, Zenon DEF Acquire

\* A goroutine goes on after an attempt or fails with its client.
LEMMA ProceedStep == ASSUME IInv, NEW p \in Callers, Proceed(p) PROVE IInv'
<1>0. op[p] \in Locals /\ op[p].k \in Keys /\ op[p].cl \in Clients \cup {NoClient} /\ op[p].err \in Errors
      /\ Sound(op[p], home, st)
  BY Zenon DEF IInv, Locals
<1>1. ASSUME Dropped, op[p].pc = "attempt", NEW r \in Outcomes, NEW e \in Errors,
             Return(p, r) \/ Continue(p, r, e)
      PROVE  IInv'
  <2>1. CASE Return(p, r)
    BY <1>1, <2>1, ReturnStep, Zenon DEF Errors
  <2>2. CASE Onward(p, e)
    BY <1>1, <2>2, OnwardStep, Zenon
  <2>3. CASE op' = [op EXCEPT ![p].err = e, ![p].pc = "remove"]
    <3> DEFINE o == [op[p] EXCEPT !.err = e, !.pc = "remove"]
    <3>1. o \in Locals
      BY <1>0, Zenon DEF Locals, Places
    <3>2. o.pc = "remove" /\ o.cl = op[p].cl /\ o.k = op[p].k /\ o.cl0 = op[p].cl0 /\ o.k0 = op[p].k0
      BY <1>0, Zenon DEF Locals
    <3>3. op' = [op EXCEPT ![p] = o]
      BY <2>3, Zenon
    <3> HIDE DEF o
    <3>4. Sound(o, home, st)
      BY <1>0, <1>1, <3>1, <3>2, Zenon DEF Sound
    <3> QED BY <1>1, <3>3, <3>4, DropStep, Zenon
  <2> QED BY <1>1, <2>1, <2>2, <2>3, Zenon DEF Continue
<1>2. \A c : OutcomesOf(c) \subseteq Outcomes
  BY Zenon DEF OutcomesOf, Outcomes
<1>3. CASE AttemptCall(p)
  <2>1. PICK r \in OutcomesOf(op[p].cl) : Tried(p, r) /\ (Return(p, r) \/ Continue(p, r, r))
    BY <1>3, Zenon DEF AttemptCall
  <2>2. Dropped
    BY <2>1, SameDropped, Zenon DEF Tried
  <2> QED BY <1>1, <1>2, <1>3, <2>1, <2>2, Zenon DEF AttemptCall, Errors
<1>4. CASE AttemptRaw(p)
  <2>1. PICK r \in OutcomesOf(op[p].cl) :
          /\ Tried(p, r)
          /\ Return(p, r) \/ Continue(p, r, IF op[p].at = "end" THEN "nil" ELSE op[p].err)
    BY <1>4, Zenon DEF AttemptRaw
  <2>2. Dropped
    BY <2>1, SameDropped, Zenon DEF Tried
  <2>3. (IF op[p].at = "end" THEN "nil" ELSE op[p].err) \in Errors
    BY <1>0, Zenon DEF Errors, Outcomes
  <2> QED BY <1>1, <1>2, <1>4, <2>1, <2>2, <2>3, Zenon DEF AttemptRaw
<1>5. CASE Remove(p)
  <2>1. Dropped
    <3>1. CASE SameClient(op[p].k, op[p].cl)
      BY <1>0, <1>5, <3>1, DeleteDrops, Zenon DEF Remove
    <3>2. CASE ~SameClient(op[p].k, op[p].cl)
      BY <1>5, <3>2, SameDropped, Zenon DEF Remove
    <3> QED BY <3>1, <3>2, Zenon
  <2>2. CASE op[p].cl = NoClient
    BY <1>0, <1>5, <2>1, <2>2, OnwardStep, Zenon DEF Remove, AfterRemove
  <2>3. CASE op[p].cl # NoClient
    <3> DEFINE o == [op[p] EXCEPT !.pc = "close"]
    <3>1. o \in Locals
      BY <1>0, Zenon DEF Locals, Places
    <3>2. o.pc = "close" /\ o.cl = op[p].cl /\ o.k = op[p].k /\ o.cl0 = op[p].cl0 /\ o.k0 = op[p].k0
      BY <1>0, Zenon DEF Locals
    <3>3. op' = [op EXCEPT ![p] = o]
      BY <1>5, <2>3, Zenon DEF Remove, Goto
    <3> HIDE DEF o
    <3>4. Sound(o, home, st)
      BY <1>0, <1>5, <2>3, <3>1, <3>2, Zenon DEF Sound, Remove
    <3> QED BY <2>1, <3>3, <3>4, DropStep, Zenon
  <2> QED BY <2>2, <2>3, Zenon
<1>6. CASE CloseRemoved(p)
  <2>1. Dropped
    BY <1>0, <1>6, Zenon DEF CloseRemoved, Closed, Dropped, IInv, CacheOK
  <2> QED BY <1>0, <1>6, <2>1, OnwardStep, Zenon DEF CloseRemoved, AfterRemove
<1> QED BY <1>3, <1>4, <1>5, <1>6, Zenon DEF Proceed

\* Failbackup keeps the key of its first selection with the client.
LEMMA BackupStep == ASSUME IInv, NEW p \in Callers, Backup(p) \/ BackupLatency(p) PROVE IInv'
<1>0. op[p] \in Locals /\ op[p].k \in Keys /\ Sound(op[p], home, st)
  BY Zenon DEF IInv, Locals
<1>1. Dropped
  BY SameDropped, Zenon DEF Backup, BackupLatency, Go, Sent, Receive, ContextDone
<1>2. CASE Go(p)
  <2>1. CASE Got(p, op[p].k, NoClient, "noClient")
    BY <1>0, <1>1, <2>1, GotStep, Zenon DEF Fits, Errors, AcquireErrors
  <2>2. CASE Goto(p, "select")
    BY <1>1, <2>2, GotoStep, Zenon DEF Places
  <2> QED BY <1>2, <2>1, <2>2, Zenon DEF Go
<1>3. CASE Sent(p)
  <2> DEFINE o1 == [Blamed(op[p]) EXCEPT !.pc = "remove", !.at = "end", !.err = op[p].err1]
             o2(x) == [op[p] EXCEPT !.pc = "wait", !.err1 = x]
  <2>1. op' = [op EXCEPT ![p] = o1] \/ \E x \in Errors : op' = [op EXCEPT ![p] = o2(x)]
    <3>0. op[p].e \in Errors /\ op[p].err1 \in Errors
      BY <1>0, Zenon DEF Locals
    <3>1. CASE op[p].at = "go2" /\ op[p].e # "nil"
      BY <1>3, <3>1, Zenon DEF Sent, Become
    <3>2. CASE op[p].at = "go1"
      BY <1>3, <3>0, <3>2, Zenon DEF Sent
    <3>3. CASE op[p].at # "go1" /\ ~(op[p].at = "go2" /\ op[p].e # "nil")
      BY <1>3, <3>0, <3>3, Zenon DEF Sent
    <3> QED BY <3>1, <3>2, <3>3, Zenon
  <2>2. o1 \in Locals
    BY <1>0, Zenon DEF Locals, Places, Blamed
  <2>3. o1.pc = "remove" /\ o1.cl = op[p].cl0 /\ o1.k = op[p].k0 /\ o1.cl0 = op[p].cl0 /\ o1.k0 = op[p].k0
    BY <1>0, Zenon DEF Locals, Blamed
  <2>4. \A x \in Errors : o2(x) \in Locals
    BY <1>0, Zenon DEF Locals, Places
  <2>5. \A x \in Errors : o2(x).pc = "wait" /\ o2(x).cl0 = op[p].cl0 /\ o2(x).k0 = op[p].k0
    BY <1>0, Zenon DEF Locals
  <2> HIDE DEF o1, o2
  <2>6. Sound(o1, home, st) /\ \A x \in Errors : Sound(o2(x), home, st)
    BY <1>0, <2>2, <2>3, <2>4, <2>5, Zenon DEF Sound
  <2> QED BY <1>1, <2>1, <2>6, DropStep, Zenon
<1>4. CASE Receive(p)
  BY <1>1, <1>4, ReturnStep, Zenon DEF Receive, Errors, Outcomes
<1>5. CASE ContextDone(p)
  BY <1>1, <1>5, ReturnStep, Zenon DEF ContextDone, Errors, Outcomes
<1>6. CASE BackupLatency(p)
  <2> DEFINE o == [op[p] EXCEPT !.pc = "go", !.at = "go2"]
  <2>1. o \in Locals
    BY <1>0, Zenon DEF Locals, Places
  <2>2. o.pc = "go" /\ o.cl0 = op[p].cl0 /\ o.k0 = op[p].k0
    BY <1>0, Zenon DEF Locals
  <2>3. op' = [op EXCEPT ![p] = o]
    BY <1>6, Zenon DEF BackupLatency
  <2> HIDE DEF o
  <2>4. Sound(o, home, st)
    BY <1>0, <2>1, <2>2, Zenon DEF Sound
  <2> QED BY <1>1, <2>3, <2>4, DropStep, Zenon
<1> QED BY <1>2, <1>3, <1>4, <1>5, <1>6, Zenon DEF Backup

\* The first check of isShutdown.
LEMMA BeginStep == ASSUME IInv, NEW p \in Callers, Call(p) \/ SendRaw(p) \/ Inform(p) PROVE IInv'
<1>1. Dropped
  BY SameDropped, Zenon DEF Call, SendRaw, Inform, Begin
<1>2. Return(p, "noClient") \/ Goto(p, "select") \/ Goto(p, "sweep")
  BY Zenon DEF Call, SendRaw, Inform, Begin
<1> QED BY <1>1, <1>2, ReturnStep, GotoStep, Zenon DEF Places, Errors, AcquireErrors

\* The steps of no goroutine.
LEMMA WorldStep ==
  ASSUME IInv,
         \/ Close \/ Update \/ (\E c \in Clients : ConnLost(c)) \/ (\E k \in Keys : WindowPasses(k))
         \/ UNCHANGED vars
  PROVE  IInv'
<1>1. UNCHANGED op /\ UNCHANGED home /\ listed' \subseteq Servers
  BY XClientConstants, Zenon DEF Close, Update, ConnLost, WindowPasses, vars, IInv
<1>2. Lasting /\ CacheOK'
  <2>1. CASE Close
    BY <2>1, XClientConstants, Zenon DEF Close, IInv, CacheOK, Lasting, Fits
  <2>2. CASE \E c \in Clients : ConnLost(c)
    BY <2>2 DEF ConnLost, IInv, CacheOK, Lasting, Fits
  <2>3. CASE Update \/ (\E k \in Keys : WindowPasses(k)) \/ UNCHANGED vars
    BY <2>3, Zenon DEF Update, WindowPasses, vars, IInv, CacheOK, Lasting, Fits
  <2> QED BY <2>1, <2>2, <2>3, Zenon
<1>3. ASSUME NEW p \in Callers PROVE Sound(op[p], home', st')
  <2>1. op[p].cl \in Clients \cup {NoClient} /\ op[p].cl0 \in Clients \cup {NoClient}
    BY Zenon DEF IInv, Locals
  <2> QED BY <1>1, <1>2, <2>1, Zenon DEF IInv, Sound, Fits, Lasting
<1> QED BY <1>1, <1>2, <1>3, Zenon DEF IInv

\* IInv is inductive.
LEMMA Invariance == Spec => []IInv
<1>1. IInv /\ [Next]_vars => IInv'
  BY AcquireStep, ProceedStep, BackupStep, BeginStep, WorldStep, Zenon DEF Next
<1> QED BY <1>1, InitIInv, PTL DEF Spec
-----------------------------------------------------------------------------
\* Every cached client, and every client that a goroutine uses, removes or
\* closes, belongs to the server under whose key it is cached or removed.
THEOREM ClientsOfTheirServers == Spec => []RightServer
<1>1. IInv => RightServer
  BY Zenon DEF IInv, CacheOK, Sound, Fits, RightServer
<1> QED BY <1>1, Invariance, PTL

\* Whoever failed with an old client of a server does not take away the one that
\* replaced it: a client that is up leaves the cache only by Close, or by a
\* goroutine whose own call on it failed.
THEOREM EvictionsAreOwn == Spec => EvictsOwnClient
<1> DEFINE Own1 == \A k \in Keys : cached[k] # NoClient /\ Up(cached[k]) /\ cached'[k] = NoClient =>
                     \/ isShutdown'
                     \/ \E p \in Callers : op[p].pc = "remove" /\ op[p].cl = cached[k]
<1>1. IInv /\ [Next]_vars => [Own1]_vars
  <2> SUFFICES ASSUME IInv, Next PROVE Own1
    BY Zenon
  <2>1. ASSUME UNCHANGED cached PROVE Own1
    BY <2>1, Zenon
  <2>2. ASSUME NEW p \in Callers, Find(p) PROVE Own1
    BY <2>2, Zenon DEF Find, findCachedClient, Delete, IInv, CacheOK
  <2>3. ASSUME NEW p \in Callers, Set(p) PROVE Own1
    BY <2>3, Zenon DEF Set, setCachedClient, IInv, CacheOK, Sound
  <2>4. ASSUME NEW p \in Callers, Remove(p) PROVE Own1
    BY <2>4, Zenon DEF Remove, SameClient, findCachedClient, Delete, IInv, CacheOK
  <2>5. ASSUME NEW p \in Callers, Sweep(p) PROVE Own1
    BY <2>5, Zenon DEF Sweep, findCachedClient, Delete, IInv, CacheOK
  <2>11. ASSUME NEW p \in Callers, Dial(p) PROVE Own1
    <3>1. CASE UNCHANGED cached
      BY <2>1, <3>1
    <3>2. ASSUME NEW c \in Clients, setCachedClient(op[p].k, c) PROVE Own1
      BY <3>2, XClientConstants, Zenon DEF setCachedClient, IInv, CacheOK
    <3> QED BY <2>11, <3>1, <3>2, Zenon DEF Dial, Connect, ConnectFails
  <2>6. CASE Close
    BY <2>6, Zenon DEF Close
  <2> HIDE DEF Own1
  <2>7. ASSUME NEW p \in Callers, Acquire(p) PROVE Own1
    BY <2>1, <2>2, <2>3, <2>5, <2>7, <2>11, Zenon DEF Acquire, Select, Check, Ready, ResetFailures, ResetTime, Generate,
       FailTime
  <2>8. ASSUME NEW p \in Callers, Proceed(p) PROVE Own1
    BY <2>1, <2>4, <2>8, Zenon DEF Proceed, AttemptCall, AttemptRaw, Tried, CloseRemoved
  <2>9. ASSUME NEW p \in Callers,
               Backup(p) \/ BackupLatency(p) \/ Call(p) \/ SendRaw(p) \/ Inform(p)
        PROVE  Own1
    BY <2>1, <2>9, Zenon DEF Backup, Go, Sent, Receive, ContextDone, BackupLatency, Call, SendRaw, Inform, Begin
  <2>10. CASE Update \/ (\E c \in Clients : ConnLost(c)) \/ (\E k \in Keys : WindowPasses(k))
    BY <2>1, <2>10, Zenon DEF Update, ConnLost, WindowPasses
  <2> QED BY <2>6, <2>7, <2>8, <2>9, <2>10, Zenon DEF Next
<1> QED BY <1>1, Invariance, PTL DEF Spec, EvictsOwnClient
-----------------------------------------------------------------------------
(* The course of an operation: its attempts and what it may report *)

Acquiring == {"start", "select", "check", "ready", "reset", "restart", "find", "sweep", "generate", "dial", "fail",
              "set"}
Answers == {"nil", "ServiceError", "ctx"}

\* The goroutine p with the locals o has made t attempts, the last one with the
\* outcome l: it has no answer yet, and the loop has an attempt to spend for
\* each that is left.
OnCourse(p, o, t, l) ==
  /\ o.pc \in {"start", "sweep"} => o.at = "first"
  /\ o.pc \in Acquiring /\ o.at = "end" => o.pc \in {"dial", "fail"}
  /\ o.pc = "sweep" \/ (o.pc \in Acquiring /\ o.at = "end") => kind[p] = "Sweep"
  /\ o.pc \in {"go", "sent", "wait"} => o.at \in {"go1", "go2"}
  /\ o.at \in {"go1", "go2"} => BacksUp(p)
  /\ o.pc # "returned" => l \notin Answers
  /\ o.pc \in Acquiring /\ o.at \in {"first", "end"} => t = 0
  /\ o.pc = "attempt" => /\ ~BacksUp(p)
                         /\ IF o.at = "end" THEN t = 0 ELSE o.left >= -1 /\ t + o.left < Retries
  /\ o.at = "retry" \/ (o.at = "first" /\ o.pc \in {"remove", "close"}) =>
       ~BacksUp(p) /\ o.left >= -1 /\ t + o.left <= Retries

\* Failbackup has sent its first call and not the second.
Vain(p, cs) == BacksUp(p) /\ cs[1] # "no" /\ cs[2] = "no"

\* A nil that Call may return without an attempt is the one of having sent the
\* first call of Failbackup.
Honest(p, o, l, cs) ==
  /\ BacksUp(p) /\ o.pc # "returned" => l = "none"
  /\ o.at = "retry" => o.err # "nil"
  /\ o.pc \in {"remove", "close"} => o.err # "nil" \/ (o.at = "end" /\ Vain(p, cs))
  /\ o.pc # "returned" /\ o.at # "end" /\ ~(o.at = "go2" /\ o.pc = "wait") => cs[2] = "no"
  /\ (o.at = "go2" \/ (o.at = "go1" /\ o.pc = "wait")) /\ o.err1 = "nil" => cs[1] # "no"
  /\ o.pc = "returned" /\ o.err = "nil" => l = "nil" \/ (l = "none" /\ Vain(p, cs))

Sane(p, o, t, l, cs) == OnCourse(p, o, t, l) /\ (kind[p] = "Call" => Honest(p, o, l, cs))

History ==
  /\ tries \in [Callers -> Nat] /\ last \in [Callers -> Outcomes \cup {"none"}]
  /\ calls \in [Callers -> [1..2 -> {"no", "up", "dead"}]]

CourseInv == History /\ \A p \in Callers : Sane(p, op[p], tries[p], last[p], calls[p])

\* A goroutine that returned is done; for Call its error tells how.
LEMMA EndedSane ==
  ASSUME NEW p, NEW r, NEW t, NEW l, NEW cs,
         kind[p] = "Call" /\ r = "nil" => l = "nil" \/ (l = "none" /\ Vain(p, cs))
  PROVE  Sane(p, Ended(r), t, l, cs)
<1>1. Ended(r).pc = "returned" /\ Ended(r).at = "first" /\ Ended(r).err = r
  BY Zenon DEF Ended, Idle
<1> QED BY <1>1, Zenon DEF Sane, OnCourse, Honest, Acquiring

\* On the way to a client nothing changes.
LEMMA MoveSane ==
  ASSUME NEW p, NEW o, NEW n, NEW t, NEW l, NEW cs, Sane(p, o, t, l, cs),
         o.pc \in Acquiring \cup {"go"}, n.pc \in Acquiring \ {"start", "sweep"},
         n.pc \in {"dial", "fail"} \/ o.at # "end",
         n.at = o.at, n.err = o.err, n.err1 = o.err1, n.left = o.left
  PROVE  Sane(p, n, t, l, cs)
<1>1. OnCourse(p, n, t, l)
  BY Zenon DEF Sane, OnCourse, Acquiring
<1>2. kind[p] = "Call" => Honest(p, n, l, cs)
  BY Zenon DEF Sane, OnCourse, Honest, Acquiring
<1> QED BY <1>1, <1>2, Zenon DEF Sane

\* The head of the loop: without another attempt the last error is returned.
LEMMA TurnSane ==
  ASSUME NEW p, NEW o \in Locals, NEW t \in Nat, NEW l, NEW cs,
         ~BacksUp(p), o.at \in {"first", "retry"}, l \notin Answers,
         o.left >= -1, t + o.left <= Retries,
         kind[p] = "Call" => cs[2] = "no",
         kind[p] = "Call" => o.err # "nil" \/ (o.at = "first" /\ o.cl # NoClient /\ GoesOn(o.left))
  PROVE  Sane(p, Turn(o), t, l, cs)
<1>1. CASE GoesOn(o.left)
  <2> DEFINE n == [o EXCEPT !.pc = IF o.cl = NoClient THEN "remove" ELSE "attempt", !.left = o.left - 1]
  <2>1. Turn(o) = n
    BY <1>1, Zenon DEF Turn
  <2>2. /\ n.pc = IF o.cl = NoClient THEN "remove" ELSE "attempt"
        /\ n.at = o.at /\ n.err = o.err /\ n.left = o.left - 1
    BY Zenon DEF Locals
  <2>3. o.left \in Int /\ o.left >= 0 /\ Retries \in Nat
    BY <1>1, XClientConstants, Zenon DEF GoesOn, Locals
  <2> HIDE DEF n
  <2>4. OnCourse(p, n, t, l)
    BY <2>2, <2>3 DEF OnCourse, Acquiring
  <2>5. kind[p] = "Call" => Honest(p, n, l, cs)
    BY <2>2, Zenon DEF Honest, Acquiring
  <2> QED BY <2>1, <2>4, <2>5, Zenon DEF Sane
<1>2. CASE ~GoesOn(o.left)
  <2>1. Turn(o) = Ended(IF o.err = "nil" THEN o.e ELSE o.err)
    BY <1>2, Zenon DEF Turn
  <2>2. kind[p] = "Call" => o.err # "nil"
    BY <1>2, Zenon
  <2> QED BY <2>1, <2>2, EndedSane, Zenon
<1> QED BY <1>1, <1>2, Zenon

\* What follows the first selectClient.
LEMMA FirstSane ==
  ASSUME NEW p, NEW o \in Locals, NEW l, NEW cs,
         o.at = "first", l \notin Answers, BacksUp(p) => l = "none",
         kind[p] = "Call" => cs[2] = "no", o.cl = NoClient <=> o.e # "nil"
  PROVE  Sane(p, First(p, o), 0, l, cs)
<1> DEFINE o1 == [o EXCEPT !.err = o.e, !.left = Retries]
           o2 == [o EXCEPT !.pc = "go", !.at = "go1", !.k0 = o.k, !.cl0 = o.cl]
           o3 == [o EXCEPT !.pc = "attempt", !.at = "end", !.err = o.e]
<1>0. Retries \in Nat /\ Retries \in Int /\ o.e \in Errors
  BY XClientConstants DEF Locals
<1>1. CASE mode = "Failfast" /\ o.e # "nil"
  BY <1>1, EndedSane, Zenon DEF First, Looping, BacksUp
<1>2. CASE Looping
  <2>1. First(p, o) = Turn(o1)
    BY <1>2, Zenon DEF First, Looping, BacksUp
  <2>2. o1 \in Locals
    BY <1>0, Zenon DEF Locals
  <2>3. o1.at = "first" /\ o1.left = Retries /\ o1.err = o.e /\ o1.cl = o.cl
    BY Zenon DEF Locals
  <2> HIDE DEF o1
  <2>4. ~BacksUp(p) /\ GoesOn(o1.left) /\ o1.left >= -1 /\ 0 + o1.left <= Retries
    BY <1>0, <1>2, <2>3 DEF Looping, BacksUp, GoesOn
  <2>5. Sane(p, Turn(o1), 0, l, cs)
    BY <2>2, <2>3, <2>4, TurnSane, Zenon
  <2> QED BY <2>1, <2>5, Zenon
<1>3. CASE BacksUp(p)
  <2>1. First(p, o) = o2
    BY <1>3, Zenon DEF First, Looping, BacksUp
  <2>2. o2.pc = "go" /\ o2.at = "go1"
    BY Zenon DEF Locals
  <2> HIDE DEF o2
  <2>3. Sane(p, o2, 0, l, cs)
    BY <1>3, <2>2, Zenon DEF Sane, OnCourse, Honest, Acquiring
  <2> QED BY <2>1, <2>3, Zenon
<1>4. CASE ~(mode = "Failfast" /\ o.e # "nil") /\ ~Looping /\ ~BacksUp(p)
  <2>1. First(p, o) = o3
    BY <1>4, Zenon DEF First
  <2>2. o3.pc = "attempt" /\ o3.at = "end"
    BY Zenon DEF Locals
  <2> HIDE DEF o3
  <2>3. Sane(p, o3, 0, l, cs)
    BY <1>4, <2>2, Zenon DEF Sane, OnCourse, Honest, Acquiring
  <2> QED BY <2>1, <2>3, Zenon
<1> QED BY <1>1, <1>2, <1>3, <1>4, Zenon

\* selectClient and getCachedClient return a client, or an error without one.
LEMMA GotSane ==
  ASSUME NEW p \in Callers, op[p] \in Locals, NEW t \in Nat, NEW l, NEW cs, Sane(p, op[p], t, l, cs),
         op[p].pc \in Acquiring \cup {"go"}, op[p].at # "end",
         NEW k \in Keys, NEW c \in Clients \cup {NoClient}, NEW r \in Errors, c = NoClient <=> r # "nil",
         Got(p, k, c, r)
  PROVE  \E o : op' = [op EXCEPT ![p] = o] /\ Sane(p, o, t, l, cs)
<1> DEFINE o == [op[p] EXCEPT !.k = k, !.cl = c, !.e = r]
           o1 == [o EXCEPT !.pc = "sent"]
<1>1. o \in Locals
  BY Zenon DEF Locals
<1>2. /\ o.cl = c /\ o.e = r /\ o.pc = op[p].pc /\ o.at = op[p].at /\ o.left = op[p].left
      /\ o.err = op[p].err /\ o.err1 = op[p].err1
  BY Zenon DEF Locals
<1>3. /\ o.at = "first" => op' = [op EXCEPT ![p] = First(p, o)]
      /\ o.at = "retry" => op' = [op EXCEPT ![p] = Turn(o)]
      /\ o.at \notin {"first", "retry"} => op' = [op EXCEPT ![p] = o1]
  BY Zenon DEF Got, Become
<1> HIDE DEF o
<1>4. BacksUp(p) => kind[p] = "Call"
  BY Zenon DEF BacksUp
<1>5. CASE o.at = "first"
  <2>1. t = 0 /\ l \notin Answers
    BY <1>2, <1>5, Zenon DEF Sane, OnCourse, Acquiring
  <2>2. BacksUp(p) => l = "none"
    BY <1>4, Zenon DEF Sane, Honest, Acquiring
  <2>3. kind[p] = "Call" => cs[2] = "no"
    BY <1>2, <1>5, Zenon DEF Sane, Honest, Acquiring
  <2>4. Sane(p, First(p, o), t, l, cs)
    BY <1>1, <1>2, <1>5, <2>1, <2>2, <2>3, FirstSane, Zenon
  <2> QED BY <1>3, <1>5, <2>4, Zenon
<1>6. CASE o.at = "retry"
  <2>1. l \notin Answers /\ ~BacksUp(p) /\ o.left >= -1 /\ t + o.left <= Retries
    BY <1>2, <1>6, Zenon DEF Sane, OnCourse, Acquiring
  <2>2. kind[p] = "Call" => o.err # "nil" /\ cs[2] = "no"
    BY <1>2, <1>6, Zenon DEF Sane, Honest, Acquiring
  <2>3. Sane(p, Turn(o), t, l, cs)
    BY <1>1, <1>6, <2>1, <2>2, TurnSane, Zenon
  <2> QED BY <1>3, <1>6, <2>3, Zenon
<1>7. CASE o.at \notin {"first", "retry"}
  <2>1. o1.pc = "sent" /\ o1.at = o.at /\ o1.err1 = o.err1
    BY <1>1, Zenon DEF Locals
  <2>2. o.at \in {"go1", "go2"} /\ o.pc \in Acquiring \cup {"go"}
    BY <1>1, <1>2, <1>7, Zenon DEF Sane, OnCourse, Acquiring, Locals
  <2> HIDE DEF o1
  <2>3. OnCourse(p, o1, t, l)
    BY <1>2, <2>1, <2>2, Zenon DEF Sane, OnCourse, Acquiring
  <2>4. kind[p] = "Call" => Honest(p, o1, l, cs)
    BY <1>2, <2>1, <2>2, Zenon DEF Sane, Honest, Acquiring
  <2> QED BY <1>3, <1>7, <2>3, <2>4, Zenon DEF Sane
<1> QED BY <1>5, <1>6, <1>7, Zenon

\* A step of the goroutine p alone.
LEMMA SaneStep ==
  ASSUME CourseInv, op \in [Callers -> Locals], UNCHANGED <<mode, kind>>,
         NEW p \in Callers, NEW o, op' = [op EXCEPT ![p] = o],
         NEW t \in Nat, tries' = [tries EXCEPT ![p] = t],
         NEW l \in Outcomes \cup {"none"}, last' = [last EXCEPT ![p] = l],
         NEW cs \in [1..2 -> {"no", "up", "dead"}], calls' = [calls EXCEPT ![p] = cs],
         Sane(p, o, t, l, cs)
  PROVE  CourseInv'
<1>1. History'
  BY Zenon DEF CourseInv, History
<1>2. ASSUME NEW q \in Callers PROVE Sane(q, op[q], tries[q], last[q], calls[q])'
  <2>1. CASE q = p
    <3>1. op'[q] = o /\ tries'[q] = t /\ last'[q] = l /\ calls'[q] = cs
      BY <2>1, Zenon DEF CourseInv, History
    <3>2. Sane(q, op'[q], tries'[q], last'[q], calls'[q])
      BY <2>1, <3>1, Zenon
    <3> QED BY <3>2, Zenon DEF Sane, OnCourse, Honest, Vain, BacksUp
  <2>2. CASE q # p
    <3>1. op'[q] = op[q] /\ tries'[q] = tries[q] /\ last'[q] = last[q] /\ calls'[q] = calls[q]
      BY <2>2, Zenon DEF CourseInv, History
    <3>2. Sane(q, op'[q], tries'[q], last'[q], calls'[q])
      BY <3>1, Zenon DEF CourseInv
    <3> QED BY <3>2, Zenon DEF Sane, OnCourse, Honest, Vain, BacksUp
  <2> QED BY <2>1, <2>2, Zenon
<1> QED BY <1>1, <1>2, Zenon DEF CourseInv

\* A step of p that neither calls nor is answered.
LEMMA QuietStep ==
  ASSUME CourseInv, op \in [Callers -> Locals], UNCHANGED <<mode, kind, calls, histVars>>,
         NEW p \in Callers, NEW o, op' = [op EXCEPT ![p] = o],
         Sane(p, o, tries[p], last[p], calls[p])
  PROVE  CourseInv'
<1>1. /\ tries' = [tries EXCEPT ![p] = tries[p]] /\ tries[p] \in Nat
      /\ last' = [last EXCEPT ![p] = last[p]] /\ last[p] \in Outcomes \cup {"none"}
      /\ calls' = [calls EXCEPT ![p] = calls[p]] /\ calls[p] \in [1..2 -> {"no", "up", "dead"}]
  BY Zenon DEF CourseInv, History, histVars
<1> QED BY <1>1, SaneStep, Zenon

LEMMA GotQuiet ==
  ASSUME CourseInv, op \in [Callers -> Locals], UNCHANGED <<mode, kind, calls, histVars>>,
         NEW p \in Callers, op[p].pc \in Acquiring \cup {"go"}, op[p].at # "end",
         NEW k \in Keys, NEW c \in Clients \cup {NoClient}, NEW r \in Errors, c = NoClient <=> r # "nil",
         Got(p, k, c, r)
  PROVE  CourseInv'
<1>1. PICK o : op' = [op EXCEPT ![p] = o] /\ Sane(p, o, tries[p], last[p], calls[p])
  BY GotSane, Zenon DEF CourseInv, History
<1> QED BY <1>1, QuietStep, Zenon

LEMMA MoveQuiet ==
  ASSUME CourseInv, op \in [Callers -> Locals], UNCHANGED <<mode, kind, calls, histVars>>,
         NEW p \in Callers, op[p].pc \in Acquiring \cup {"go"}, NEW l \in Acquiring \ {"start", "sweep"}, NEW k, NEW c,
         l \in {"dial", "fail"} \/ op[p].at # "end",
         \/ op' = [op EXCEPT ![p].pc = l]
         \/ op' = [op EXCEPT ![p].k = k, ![p].pc = l]
         \/ op' = [op EXCEPT ![p].pc = l, ![p].cl = c]
  PROVE  CourseInv'
<1>1. PICK o \in {[op[p] EXCEPT !.pc = l], [op[p] EXCEPT !.k = k, !.pc = l], [op[p] EXCEPT !.pc = l, !.cl = c]} :
        op' = [op EXCEPT ![p] = o]
  BY Zenon
<1>2. o.pc = l /\ o.at = op[p].at /\ o.err = op[p].err /\ o.err1 = op[p].err1 /\ o.left = op[p].left
  <2>0. op[p] \in Locals
    BY Zenon
  <2>1. CASE o = [op[p] EXCEPT !.pc = l]
    BY <2>0, <2>1, Zenon DEF Locals
  <2>2. CASE o = [op[p] EXCEPT !.k = k, !.pc = l]
    BY <2>0, <2>2, Zenon DEF Locals
  <2>3. CASE o = [op[p] EXCEPT !.pc = l, !.cl = c]
    BY <2>0, <2>3, Zenon DEF Locals
  <2> QED
    BY <1>1, <2>1, <2>2, <2>3, Zenon
<1>3. Sane(p, o, tries[p], last[p], calls[p])
  BY <1>2, MoveSane, Zenon DEF CourseInv
<1> QED BY <1>1, <1>3, QuietStep, Zenon

LEMMA CheckedQuiet ==
  ASSUME CourseInv, op \in [Callers -> Locals], UNCHANGED <<mode, kind, calls, histVars>>,
         NEW p \in Callers, op[p].pc \in Acquiring, op[p].at # "end", NEW k \in Keys, Checked(p, k)
  PROVE  CourseInv'
<1>1. \/ Got(p, k, NoClient, "noClient")
      \/ \E l \in {"ready", "reset", "find"} : op' = [op EXCEPT ![p].k = k, ![p].pc = l]
  BY Zenon DEF Checked
<1>2. CASE Got(p, k, NoClient, "noClient")
  BY <1>2, GotQuiet, Zenon DEF Errors, AcquireErrors
<1>3. ASSUME NEW l \in {"ready", "reset", "find"}, op' = [op EXCEPT ![p].k = k, ![p].pc = l] PROVE CourseInv'
  BY <1>3, MoveQuiet, Zenon DEF Acquiring
<1> QED BY <1>1, <1>2, <1>3, Zenon

LEMMA NotMadeQuiet ==
  ASSUME CourseInv, op \in [Callers -> Locals], UNCHANGED <<mode, kind, calls, histVars>>,
         NEW p \in Callers, op[p].pc \in {"dial", "fail"}, NotMade(p)
  PROVE  CourseInv'
<1>0. op[p].k \in Keys /\ Sane(p, op[p], tries[p], last[p], calls[p])
  BY Zenon DEF Locals, CourseInv
<1>1. CASE Return(p, "noClient")
  <2>1. op' = [op EXCEPT ![p] = Ended("noClient")] /\ Sane(p, Ended("noClient"), tries[p], last[p], calls[p])
    BY <1>1, EndedSane, Zenon DEF Return, Become
  <2> QED BY <2>1, QuietStep, Zenon
<1>2. CASE ~Sweeps(p) /\ Got(p, op[p].k, NoClient, "noClient")
  <2>1. op[p].at # "end" /\ op[p].pc \in Acquiring /\ "noClient" \in Errors /\ "noClient" # "nil"
    BY <1>2, Zenon DEF Sweeps, Errors, AcquireErrors, Acquiring
  <2> QED BY <1>0, <1>2, <2>1, GotQuiet, Zenon
<1> QED BY <1>1, <1>2, Zenon DEF NotMade

\* Inform, Broadcast and Fork go on with a client, or are to make one.
LEMMA SweepQuiet ==
  ASSUME CourseInv, op \in [Callers -> Locals], UNCHANGED <<mode, kind, calls, histVars>>,
         NEW p \in Callers, op[p].pc = "sweep" \/ (op[p].pc = "dial" /\ Sweeps(p)),
         NEW l \in {"attempt", "dial"}, NEW k, NEW d,
         \/ op' = [op EXCEPT ![p].pc = l, ![p].at = "end", ![p].k = k, ![p].cl = d]
         \/ Sweeps(p) /\ op' = [op EXCEPT ![p].pc = l, ![p].cl = d]
  PROVE  CourseInv'
<1>0. op[p] \in Locals /\ Sane(p, op[p], tries[p], last[p], calls[p])
  BY Zenon DEF CourseInv
<1>1. PICK o \in {[op[p] EXCEPT !.pc = l, !.at = "end", !.k = k, !.cl = d], [op[p] EXCEPT !.pc = l, !.cl = d]} :
        op' = [op EXCEPT ![p] = o] /\ (o = [op[p] EXCEPT !.pc = l, !.cl = d] => Sweeps(p))
  <2> DEFINE o1 == [op[p] EXCEPT !.pc = l, !.at = "end", !.k = k, !.cl = d]
             o2 == [op[p] EXCEPT !.pc = l, !.cl = d]
  <2>1. o1.at = "end" /\ o2.at = op[p].at
    BY <1>0, Zenon DEF Locals
  <2>2. op' = [op EXCEPT ![p] = o1] \/ (Sweeps(p) /\ op' = [op EXCEPT ![p] = o2])
    BY Zenon
  <2> HIDE DEF o1, o2
  <2>3. o1 = o2 => Sweeps(p)
    BY <2>1, Zenon DEF Sweeps
  <2>4. \E o \in {o1, o2} : op' = [op EXCEPT ![p] = o] /\ (o = o2 => Sweeps(p))
    BY <2>2, <2>3, Zenon
  <2> QED BY <2>4, Zenon DEF o1, o2
<1>2. o.pc = l /\ o.at = "end"
  <2>1. CASE o = [op[p] EXCEPT !.pc = l, !.at = "end", !.k = k, !.cl = d]
    BY <1>0, <2>1, Zenon DEF Locals
  <2>2. CASE o = [op[p] EXCEPT !.pc = l, !.cl = d]
    BY <1>0, <1>1, <2>2, Zenon DEF Locals, Sweeps
  <2> QED BY <1>1, <2>1, <2>2, Zenon
<1>3. kind[p] = "Sweep" /\ tries[p] = 0 /\ last[p] \notin Answers
  BY <1>0, Zenon DEF Sane, OnCourse, Acquiring, Sweeps
<1>4. Sane(p, o, tries[p], last[p], calls[p])
  BY <1>2, <1>3, Zenon DEF Sane, OnCourse, Acquiring, BacksUp
<1> QED BY <1>1, <1>4, QuietStep, Zenon

LEMMA AcquireCourse == ASSUME IInv, CourseInv, NEW p \in Callers, Acquire(p) PROVE CourseInv'
<1>0. /\ op \in [Callers -> Locals] /\ op[p].k \in Keys /\ Sound(op[p], home, st)
      /\ op[p].pc \in Acquiring \ {"dial", "fail"} => op[p].at # "end"
  BY Zenon DEF IInv, Locals, CourseInv, Sane, OnCourse
<1>1. UNCHANGED <<mode, kind, calls, histVars>>
  BY Zenon DEF Acquire, Select, Check, Ready, ResetFailures, ResetTime, Find, Sweep, Generate, Dial, FailTime, Set
<1>2. CASE Select(p)
  <2>1. CASE Got(p, NoServer, NoClient, "noClient")
    BY <1>0, <1>1, <1>2, <2>1, GotQuiet, Zenon DEF Select, Errors, AcquireErrors, Keys, Acquiring
  <2>2. ASSUME NEW k \in listed, Checked(p, k) PROVE CourseInv'
    BY <1>0, <1>1, <1>2, <2>2, CheckedQuiet, Zenon DEF IInv, Select, Keys, Acquiring
  <2> QED BY <1>2, <2>1, <2>2, Zenon DEF Select
<1>3. CASE Check(p)
  BY <1>0, <1>1, <1>3, CheckedQuiet, Zenon DEF Check, Acquiring
<1>4. CASE ResetFailures(p)
  BY <1>0, <1>1, <1>4, MoveQuiet, Zenon DEF ResetFailures, Goto, Acquiring
<1>5. CASE ResetTime(p)
  BY <1>0, <1>1, <1>5, MoveQuiet, Zenon DEF ResetTime, Goto, Acquiring
<1>6. CASE Find(p)
  <2>1. CASE Up(cached[op[p].k])
    <3>1. op[p].pc = "find" /\ Got(p, op[p].k, cached[op[p].k], "nil")
      BY <1>6, <2>1, Zenon DEF Find, findCachedClient
    <3>2. cached[op[p].k] \in Clients \cup {NoClient} /\ cached[op[p].k] # NoClient
      BY <1>0, <2>1, Zenon DEF IInv, CacheOK, Up
    <3> QED BY <1>0, <1>1, <3>1, <3>2, GotQuiet, Zenon DEF Errors, Outcomes, Acquiring
  <2>2. CASE ~Up(cached[op[p].k])
    <3>1. op[p].pc = "find" /\ op' = [op EXCEPT ![p].pc = "generate"]
      BY <1>6, <2>2, Zenon DEF Find, findCachedClient, Goto
    <3> QED BY <1>0, <1>1, <3>1, MoveQuiet, Zenon DEF Acquiring
  <2> QED BY <2>1, <2>2, Zenon
<1>7. CASE Generate(p)
  BY <1>0, <1>1, <1>7, MoveQuiet, Zenon DEF Generate, Goto, Acquiring
<1>8. CASE Set(p)
  <2>1. op[p].pc = "set" /\ op[p].cl \in Clients /\ op[p].cl # NoClient /\ Got(p, op[p].k, op[p].cl, "nil")
    BY <1>0, <1>8, Zenon DEF Set, Sound, Locals
  <2> QED BY <1>0, <1>1, <2>1, GotQuiet, Zenon DEF Errors, Outcomes, Acquiring
<1>9. CASE Ready(p)
  <2>1. CASE Got(p, op[p].k, NoClient, "noClient")
    <3>1. op[p].pc \in Acquiring \ {"dial", "fail"} /\ "noClient" \in Errors /\ "noClient" # "nil"
      BY <1>9, Zenon DEF Ready, Errors, AcquireErrors, Acquiring
    <3> QED BY <1>0, <1>1, <2>1, <3>1, GotQuiet, Zenon
  <2>2. CASE Goto(p, "find")
    BY <1>0, <1>1, <1>9, <2>2, MoveQuiet, Zenon DEF Ready, Goto, Acquiring
  <2> QED BY <1>9, <2>1, <2>2, Zenon DEF Ready
<1>10. CASE Sweep(p)
  <2>1. CASE Return(p, "noClient")
    <3>1. op' = [op EXCEPT ![p] = Ended("noClient")] /\ Sane(p, Ended("noClient"), tries[p], last[p], calls[p])
      BY <2>1, EndedSane, Zenon DEF Return, Become
    <3> QED BY <1>0, <1>1, <3>1, QuietStep, Zenon
  <2>2. ASSUME NEW k, NEW l \in {"attempt", "dial"}, NEW d,
               op' = [op EXCEPT ![p].pc = l, ![p].at = "end", ![p].k = k, ![p].cl = d]
        PROVE  CourseInv'
    BY <1>0, <1>1, <1>10, <2>2, SweepQuiet, Zenon DEF Sweep
  <2> QED BY <1>10, <2>1, <2>2, Zenon DEF Sweep
<1>11. CASE Dial(p)
  <2>0. op[p].pc = "dial"
    BY <1>11, Zenon DEF Dial
  <2>1. ASSUME NEW c, Sweeps(p), op' = [op EXCEPT ![p].pc = "attempt", ![p].cl = c] PROVE CourseInv'
    BY <1>0, <1>1, <2>0, <2>1, SweepQuiet, Zenon
  <2>2. ASSUME NEW c, ~Sweeps(p), op' = [op EXCEPT ![p].pc = "set", ![p].cl = c] PROVE CourseInv'
    BY <1>0, <1>1, <2>0, <2>2, MoveQuiet, Zenon DEF Sweeps, Acquiring
  <2>3. CASE Goto(p, "fail")
    BY <1>0, <1>1, <2>0, <2>3, MoveQuiet, Zenon DEF Goto, Acquiring
  <2>4. CASE NotMade(p)
    BY <1>0, <1>1, <2>0, <2>4, NotMadeQuiet, Zenon
  <2> QED BY <1>11, <2>1, <2>2, <2>3, <2>4, Zenon DEF Dial, Connect, ConnectFails
<1>12. CASE FailTime(p)
  BY <1>0, <1>1, <1>12, NotMadeQuiet, Zenon DEF FailTime
<1> QED BY <1>2, <1>3, <1>4, <1>5, <1>6, <1>7, <1>8, <1>9, <1>10, <1>11, <1>12, Zenon DEF Acquire

\* A goroutine that goes on without an answer, or returns.
LEMMA OnwardSane ==
  ASSUME NEW p \in Callers, op \in [Callers -> Locals], NEW r, NEW t \in Nat, NEW l, NEW cs,
         Onward(p, r),
         op[p].at \in {"first", "retry"} =>
           /\ l \notin Answers /\ ~BacksUp(p) /\ op[p].left >= -1 /\ t + op[p].left <= Retries
           /\ kind[p] = "Call" => r # "nil" /\ cs[2] = "no",
         op[p].at \notin {"first", "retry"} /\ kind[p] = "Call" /\ r = "nil" =>
           l = "nil" \/ (l = "none" /\ Vain(p, cs))
  PROVE  \E o : op' = [op EXCEPT ![p] = o] /\ Sane(p, o, t, l, cs)
<1>1. CASE op[p].at \in {"first", "retry"}
  <2> DEFINE o == [op[p] EXCEPT !.err = r, !.pc = AgainAt, !.at = "retry", !.cl = NoClient]
  <2>1. op' = [op EXCEPT ![p] = o] /\ AgainAt \in {"check", "select"}
    BY <1>1, Zenon DEF Onward, AgainAt
  <2>2. o.err = r /\ o.pc = AgainAt /\ o.at = "retry" /\ o.left = op[p].left
    BY Zenon DEF Locals
  <2> HIDE DEF o
  <2>3. OnCourse(p, o, t, l)
    BY <1>1, <2>1, <2>2, Zenon DEF OnCourse, Acquiring
  <2>4. kind[p] = "Call" => Honest(p, o, l, cs)
    BY <1>1, <2>1, <2>2, Zenon DEF Honest, Acquiring
  <2> QED BY <2>1, <2>3, <2>4, Zenon DEF Sane
<1>2. CASE op[p].at \notin {"first", "retry"}
  BY <1>2, EndedSane, Zenon DEF Onward, Return, Become
<1> QED BY <1>1, <1>2, Zenon

\* An attempt ends with an answer, which is returned, or goes on to remove its client.
LEMMA ProceedCourse == ASSUME IInv, CourseInv, NEW p \in Callers, Proceed(p) PROVE CourseInv'
<1> DEFINE t == tries[p]
           l == last[p]
           cs == calls[p]
<1>0. /\ op \in [Callers -> Locals] /\ op[p] \in Locals /\ Sane(p, op[p], t, l, cs)
      /\ t \in Nat /\ op[p].left \in Int /\ Retries \in Nat /\ cs \in [1..2 -> {"no", "up", "dead"}]
      /\ l \in Outcomes \cup {"none"}
  BY XClientConstants, Zenon DEF IInv, CourseInv, History, Locals
<1>1. ASSUME op[p].pc = "attempt", NEW r \in Outcomes, Tried(p, r), NEW e,
             kind[p] = "Call" => e = r,
             IF op[p].at # "end" /\ Ends(r) THEN Return(p, r) ELSE Continue(p, r, e)
      PROVE  CourseInv'
  <2>1. /\ tries' = [tries EXCEPT ![p] = t + 1] /\ t + 1 \in Nat
        /\ last' = [last EXCEPT ![p] = r] /\ r \in Outcomes \cup {"none"}
        /\ calls' = [calls EXCEPT ![p] = cs] /\ UNCHANGED <<mode, kind>>
    BY <1>0, <1>1 DEF Tried, CourseInv, History
  <2>2. /\ ~BacksUp(p) /\ op[p].at \notin {"go1", "go2"}
        /\ IF op[p].at = "end" THEN t = 0 ELSE op[p].left >= -1 /\ t + 1 + op[p].left <= Retries
        /\ kind[p] = "Call" /\ op[p].at # "end" => cs[2] = "no"
    <3>1. OnCourse(p, op[p], t, l) /\ (kind[p] = "Call" => Honest(p, op[p], l, cs))
      BY <1>0, Zenon DEF Sane
    <3>2. /\ ~BacksUp(p) /\ op[p].at \notin {"go1", "go2"}
          /\ IF op[p].at = "end" THEN t = 0 ELSE op[p].left >= -1 /\ t + op[p].left < Retries
      BY <1>1, <3>1, Zenon DEF OnCourse
    <3>3. kind[p] = "Call" /\ op[p].at # "end" => cs[2] = "no"
      BY <1>1, <3>1, Zenon DEF Honest
    <3>4. op[p].left \in Int
      BY <1>0, Zenon DEF Locals
    <3>5. ASSUME NEW a \in Nat, NEW b \in Int, a + b < Retries PROVE a + 1 + b <= Retries
      BY ONLY <3>5, XClientConstants
    <3> QED BY <1>0, <3>2, <3>3, <3>4, <3>5, Zenon
  <2>3. CASE op[p].at # "end" /\ Ends(r)
    <3>1. op' = [op EXCEPT ![p] = Ended(r)] /\ Sane(p, Ended(r), t + 1, r, cs)
      BY <1>1, <2>3, EndedSane, Zenon DEF Return, Become
    <3> QED BY <1>0, <2>1, <3>1, SaneStep, Zenon
  <2>4. CASE ~(op[p].at # "end" /\ Ends(r)) /\ r # "nil" /\ uncoverError(r)
    <3> DEFINE o == [op[p] EXCEPT !.err = e, !.pc = "remove"]
    <3>1. op' = [op EXCEPT ![p] = o] /\ r \notin Answers
      BY <1>1, <2>4, Zenon DEF Continue, uncoverError, Answers
    <3>2. o.pc = "remove" /\ o.err = e /\ o.at = op[p].at /\ o.left = op[p].left
      BY <1>0, Zenon DEF Locals
    <3> HIDE DEF o
    <3>3. OnCourse(p, o, t + 1, r)
      BY <1>0, <2>2, <3>1, <3>2, Zenon DEF OnCourse, Acquiring
    <3>4. op[p].at = "retry" /\ kind[p] = "Call" => op[p].err # "nil"
      BY <1>0, Zenon DEF Sane, Honest
    <3>5. kind[p] = "Call" => Honest(p, o, r, cs)
      BY <1>1, <2>2, <2>4, <3>2, <3>4, Zenon DEF Honest, Acquiring
    <3>6. Sane(p, o, t + 1, r, cs)
      BY <3>3, <3>5, Zenon DEF Sane
    <3> QED BY <1>0, <2>1, <3>1, <3>6, SaneStep, Zenon
  <2>5. CASE ~(op[p].at # "end" /\ Ends(r)) /\ ~(r # "nil" /\ uncoverError(r))
    <3>1. Onward(p, e) /\ op[p].at \notin {"first", "retry"}
      BY <1>0, <1>1, <2>2, <2>5, Zenon DEF Continue, uncoverError, Ends, Outcomes
    <3>2. PICK o : op' = [op EXCEPT ![p] = o] /\ Sane(p, o, t + 1, r, cs)
      BY <1>0, <1>1, <2>1, <3>1, OnwardSane, Zenon
    <3> QED BY <1>0, <2>1, <3>2, SaneStep, Zenon
  <2> QED BY <2>3, <2>4, <2>5, Zenon
<1>2. \A c : OutcomesOf(c) \subseteq Outcomes
  BY Zenon DEF OutcomesOf, Outcomes
<1>3. CASE AttemptCall(p)
  <2>1. PICK r \in OutcomesOf(op[p].cl) :
          /\ Tried(p, r)
          /\ IF op[p].at # "end" /\ Ends(r) THEN Return(p, r) ELSE Continue(p, r, r)
    BY <1>3, Zenon DEF AttemptCall
  <2> QED BY <1>1, <1>2, <1>3, <2>1, Zenon DEF AttemptCall
<1>4. CASE AttemptRaw(p)
  <2> DEFINE e == IF op[p].at = "end" THEN "nil" ELSE op[p].err
  <2>1. PICK r \in OutcomesOf(op[p].cl) :
          /\ Tried(p, r)
          /\ IF op[p].at # "end" /\ Ends(r) THEN Return(p, r) ELSE Continue(p, r, e)
    BY <1>4, Zenon DEF AttemptRaw
  <2>2. kind[p] # "Call"
    BY <1>4, Zenon DEF AttemptRaw
  <2> HIDE DEF e
  <2> QED BY <1>1, <1>2, <1>4, <2>1, <2>2, Zenon DEF AttemptRaw
<1>5. ASSUME op[p].pc \in {"remove", "close"}, UNCHANGED <<mode, kind, calls, histVars>>,
             \/ AfterRemove(p)
             \/ op' = [op EXCEPT ![p].pc = "close"]
      PROVE  CourseInv'
  <2>1. CASE AfterRemove(p)
    <3>1. op[p].at \in {"first", "retry"} =>
            /\ l \notin Answers /\ ~BacksUp(p) /\ op[p].left >= -1 /\ t + op[p].left <= Retries
            /\ kind[p] = "Call" => op[p].err # "nil" /\ cs[2] = "no"
      BY <1>0, <1>5, Zenon DEF Sane, OnCourse, Honest
    <3>2. kind[p] = "Call" /\ op[p].err = "nil" => l = "nil" \/ (l = "none" /\ Vain(p, cs))
      BY <1>0, <1>5, Zenon DEF Sane, Honest, Vain
    <3>3. PICK o : op' = [op EXCEPT ![p] = o] /\ Sane(p, o, t, l, cs)
      BY <1>0, <2>1, <3>1, <3>2, OnwardSane, Zenon DEF AfterRemove
    <3> QED BY <1>0, <1>5, <3>3, QuietStep, Zenon
  <2>2. CASE op' = [op EXCEPT ![p].pc = "close"]
    <3> DEFINE o == [op[p] EXCEPT !.pc = "close"]
    <3>1. op' = [op EXCEPT ![p] = o]
      BY <2>2, Zenon
    <3>2. /\ o.pc = "close" /\ o.at = op[p].at /\ o.err = op[p].err /\ o.err1 = op[p].err1
          /\ o.left = op[p].left
      BY <1>0, Zenon DEF Locals
    <3> HIDE DEF o
    <3>3. Sane(p, o, t, l, cs)
      BY <1>0, <1>5, <3>2, Zenon DEF Sane, OnCourse, Honest, Acquiring
    <3> QED BY <1>0, <1>5, <3>1, <3>3, QuietStep, Zenon
  <2> QED BY <1>5, <2>1, <2>2, Zenon
<1>6. CASE Remove(p)
  BY <1>5, <1>6, Zenon DEF Remove, Goto
<1>7. CASE CloseRemoved(p)
  BY <1>5, <1>7, Zenon DEF CloseRemoved
<1> QED BY <1>3, <1>4, <1>6, <1>7, Zenon DEF Proceed

\* Failbackup counts the calls that it has sent.
LEMMA BackupCourse == ASSUME IInv, CourseInv, NEW p \in Callers, Backup(p) \/ BackupLatency(p) PROVE CourseInv'
<1> DEFINE t == tries[p]
           l == last[p]
           cs == calls[p]
<1>0. /\ op \in [Callers -> Locals] /\ op[p] \in Locals /\ op[p].k \in Keys /\ Sane(p, op[p], t, l, cs)
      /\ t \in Nat /\ l \in Outcomes \cup {"none"} /\ cs \in [1..2 -> {"no", "up", "dead"}]
      /\ UNCHANGED <<mode, kind>>
  BY Zenon DEF IInv, CourseInv, History, Locals, Backup, BackupLatency, Go, Sent, Receive, ContextDone
<1>1. CASE Go(p)
  <2>1. CASE Got(p, op[p].k, NoClient, "noClient")
    <3>1. op[p].pc = "go" /\ op[p].at # "end" /\ UNCHANGED <<mode, kind, calls, histVars>>
      BY <1>0, <1>1, Zenon DEF Go, Sane, OnCourse
    <3>2. "noClient" \in Errors /\ "noClient" # "nil"
      BY Zenon DEF Errors, AcquireErrors
    <3> QED
      BY <1>0, <2>1, <3>1, <3>2, GotQuiet, Zenon
  <2>2. CASE Goto(p, "select")
    <3>1. op[p].pc = "go" /\ op[p].at # "end" /\ UNCHANGED <<mode, kind, calls, histVars>>
      BY <1>0, <1>1, Zenon DEF Go, Sane, OnCourse
    <3>2. "select" \in Acquiring \ {"start", "sweep"}
      BY Zenon DEF Acquiring
    <3> QED BY <1>0, <2>2, <3>1, <3>2, MoveQuiet, Zenon DEF Goto
  <2> QED BY <1>1, <2>1, <2>2, Zenon DEF Go
<1>2. CASE Sent(p)
  <2> DEFINE i == IF op[p].at = "go1" THEN 1 ELSE 2
             o1 == [Blamed(op[p]) EXCEPT !.pc = "remove", !.at = "end", !.err = op[p].err1]
             o2 == [op[p] EXCEPT !.pc = "wait", !.err1 = IF i = 1 THEN op[p].e ELSE @]
             o == IF op[p].at = "go2" /\ op[p].e # "nil" THEN o1 ELSE o2
  <2>1. op' = [op EXCEPT ![p] = o]
    BY <1>2, Zenon DEF Sent, Become
  <2>2. /\ op[p].at \in {"go1", "go2"} /\ BacksUp(p) /\ l = "none" /\ kind[p] = "Call" /\ cs[2] = "no"
        /\ op[p].at = "go2" /\ op[p].err1 = "nil" => cs[1] # "no"
    BY <1>0, <1>2, Zenon DEF Sent, Sane, OnCourse, Honest, BacksUp
  <2>3. CASE op[p].at = "go2" /\ op[p].e # "nil"
    <3>1. o1.pc = "remove" /\ o1.at = "end" /\ o1.err = op[p].err1
      BY <1>0, Zenon DEF Locals, Blamed
    <3>2. UNCHANGED <<calls, tries, last>> /\ op' = [op EXCEPT ![p] = o1]
      BY <1>2, <2>1, <2>3, Zenon DEF Sent
    <3> HIDE DEF o1
    <3>3. Sane(p, o1, t, l, cs)
      BY <2>2, <2>3, <3>1, Zenon DEF Sane, OnCourse, Honest, Vain, Acquiring, Answers
    <3> QED BY <1>0, <3>2, <3>3, QuietStep, Zenon DEF histVars
  <2>4. CASE ~(op[p].at = "go2" /\ op[p].e # "nil")
    <3>1. op' = [op EXCEPT ![p] = o2]
      BY <2>1, <2>4, Zenon
    <3>2. o2.pc = "wait" /\ o2.at = op[p].at /\ o2.err1 = IF op[p].at = "go1" THEN op[p].e ELSE op[p].err1
      BY <1>0 DEF Locals
    <3> HIDE DEF o2
    <3>3. CASE op[p].e = "nil"
      <4>1. PICK x \in {"up", "dead"} : calls' = [calls EXCEPT ![p] = [cs EXCEPT ![i] = x]]
        BY <1>2, <3>3, Zenon DEF Sent
      <4>2. [cs EXCEPT ![i] = x] \in [1..2 -> {"no", "up", "dead"}]
        BY <1>0, Zenon
      <4>3. /\ op[p].at = "go1" => [cs EXCEPT ![i] = x][1] = x /\ [cs EXCEPT ![i] = x][2] = cs[2]
            /\ op[p].at = "go2" => [cs EXCEPT ![i] = x][1] = cs[1]
        <5>1. \A f \in [1..2 -> {"no", "up", "dead"}] :
                /\ [f EXCEPT ![1] = x][1] = x /\ [f EXCEPT ![1] = x][2] = f[2]
                /\ [f EXCEPT ![2] = x][1] = f[1]
          BY ONLY TRUE
        <5>2. op[p].at = "go2" => i = 2
          BY Zenon
        <5> QED BY <1>0, <5>1, <5>2, Zenon
      <4>4. Sane(p, o2, t + 1, l, [cs EXCEPT ![i] = x])
        BY <2>2, <3>2, <4>3, Zenon DEF Sane, OnCourse, Honest, Acquiring, Answers
      <4>5. /\ tries' = [tries EXCEPT ![p] = t + 1] /\ t + 1 \in Nat
            /\ last' = [last EXCEPT ![p] = l]
        BY <1>0, <1>2, <3>3 DEF Sent, CourseInv, History
      <4> HIDE DEF i
      <4> QED BY <1>0, <3>1, <4>1, <4>2, <4>4, <4>5, SaneStep, Zenon
    <3>4. CASE op[p].e # "nil"
      <4>1. UNCHANGED <<calls, tries, last>>
        BY <1>2, <3>4, Zenon DEF Sent
      <4>2. Sane(p, o2, t, l, cs)
        BY <2>2, <2>4, <3>2, <3>4, Zenon DEF Sane, OnCourse, Honest, Acquiring, Answers
      <4> QED BY <1>0, <3>1, <4>1, <4>2, QuietStep, Zenon DEF histVars
    <3> QED BY <3>3, <3>4, Zenon
  <2> QED BY <2>3, <2>4, Zenon
<1>3. CASE Receive(p)
  <2>1. PICK r \in {"nil", "ServiceError", "conn"} : Return(p, r) /\ last' = [last EXCEPT ![p] = r]
    BY <1>3, Zenon DEF Receive
  <2>2. op' = [op EXCEPT ![p] = Ended(r)] /\ Sane(p, Ended(r), t, r, cs)
    BY <2>1, EndedSane, Zenon DEF Return, Become
  <2>3. tries' = [tries EXCEPT ![p] = t] /\ calls' = [calls EXCEPT ![p] = cs] /\ r \in Outcomes \cup {"none"}
    BY <1>3, Zenon DEF Receive, CourseInv, History, Outcomes
  <2> QED BY <1>0, <2>1, <2>2, <2>3, SaneStep, Zenon
<1>4. CASE ContextDone(p)
  <2>1. op' = [op EXCEPT ![p] = Ended("ctx")] /\ Sane(p, Ended("ctx"), t, l, cs)
    BY <1>4, EndedSane, Zenon DEF ContextDone, Return, Become
  <2> QED BY <1>0, <1>4, <2>1, QuietStep, Zenon DEF ContextDone
<1>5. CASE BackupLatency(p)
  <2> DEFINE o == [op[p] EXCEPT !.pc = "go", !.at = "go2"]
  <2>1. op' = [op EXCEPT ![p] = o]
    BY <1>5, Zenon DEF BackupLatency
  <2>2. o.pc = "go" /\ o.at = "go2" /\ o.err1 = op[p].err1
    BY <1>0, Zenon DEF Locals
  <2> HIDE DEF o
  <2>3. Sane(p, o, t, l, cs)
    BY <1>0, <1>5, <2>2, Zenon DEF BackupLatency, Sane, OnCourse, Honest, Acquiring
  <2> QED BY <1>0, <1>5, <2>1, <2>3, QuietStep, Zenon DEF BackupLatency
<1> QED BY <1>1, <1>2, <1>3, <1>4, <1>5, Zenon DEF Backup

LEMMA BeginCourse ==
  ASSUME IInv, CourseInv, NEW p \in Callers, Call(p) \/ SendRaw(p) \/ Inform(p)
  PROVE  CourseInv'
<1>0. /\ op \in [Callers -> Locals] /\ op[p] \in Locals /\ op[p].pc = "start"
      /\ Sane(p, op[p], tries[p], last[p], calls[p])
      /\ UNCHANGED <<mode, kind, calls, histVars>>
  BY Zenon DEF IInv, CourseInv, Call, SendRaw, Inform, Begin
<1>1. CASE Return(p, "noClient")
  <2>1. op' = [op EXCEPT ![p] = Ended("noClient")] /\ Sane(p, Ended("noClient"), tries[p], last[p], calls[p])
    BY <1>1, EndedSane, Zenon DEF Return, Become
  <2> QED BY <1>0, <2>1, QuietStep, Zenon
<1>2. CASE Goto(p, "select")
  <2>1. op[p].at # "end"
    BY <1>0, Zenon DEF Sane, OnCourse
  <2> QED BY <1>0, <1>2, <2>1, MoveQuiet, Zenon DEF Goto, Acquiring
<1>3. CASE kind[p] = "Sweep" /\ Goto(p, "sweep")
  <2> DEFINE o == [op[p] EXCEPT !.pc = "sweep"]
  <2>1. op' = [op EXCEPT ![p] = o] /\ o.pc = "sweep" /\ o.at = op[p].at
    BY <1>0, <1>3, Zenon DEF Goto, Locals
  <2> HIDE DEF o
  <2>2. Sane(p, o, tries[p], last[p], calls[p])
    BY <1>0, <1>3, <2>1, Zenon DEF Sane, OnCourse, Acquiring, BacksUp
  <2> QED BY <1>0, <2>1, <2>2, QuietStep, Zenon
<1> QED BY <1>1, <1>2, <1>3, Zenon DEF Call, SendRaw, Inform, Begin

LEMMA WorldCourse ==
  ASSUME CourseInv,
         \/ Close \/ Update \/ (\E c \in Clients : ConnLost(c)) \/ (\E k \in Keys : WindowPasses(k))
         \/ UNCHANGED vars
  PROVE  CourseInv'
<1>1. UNCHANGED <<mode, kind, op, calls, tries, last>>
  BY Zenon DEF Close, Update, ConnLost, WindowPasses, vars, histVars
<1>2. History'
  BY <1>1, Zenon DEF CourseInv, History
<1>3. ASSUME NEW p \in Callers PROVE Sane(p, op[p], tries[p], last[p], calls[p])'
  <2>1. OnCourse(p, op[p], tries[p], last[p]) /\ (kind[p] = "Call" => Honest(p, op[p], last[p], calls[p]))
    BY Zenon DEF CourseInv, Sane
  <2>2. OnCourse(p, op[p], tries[p], last[p])'
    BY <1>1, <2>1, Zenon DEF OnCourse, BacksUp
  <2>3. (kind[p] = "Call" => Honest(p, op[p], last[p], calls[p]))'
    BY <1>1, <2>1, Zenon DEF Honest, Vain, BacksUp
  <2> QED BY <2>2, <2>3, Zenon DEF Sane
<1> QED BY <1>2, <1>3, Zenon DEF CourseInv

LEMMA CourseInvariance == Spec => []CourseInv
<1>1. Init => CourseInv
  <2> SUFFICES ASSUME Init PROVE CourseInv
    BY Zenon
  <2>1. History
    BY Zenon DEF Init, History, Outcomes
  <2>2. ASSUME NEW p \in Callers PROVE Sane(p, op[p], tries[p], last[p], calls[p])
    <3>1. op[p] = Idle /\ tries[p] = 0 /\ last[p] = "none" /\ calls[p][2] = "no"
      BY DEF Init
    <3>2. Idle.pc = "start" /\ Idle.at = "first"
      BY Zenon DEF Idle
    <3> QED BY <3>1, <3>2, Zenon DEF Sane, OnCourse, Honest, Acquiring, Answers
  <2> QED BY <2>1, <2>2, Zenon DEF CourseInv
<1>2. IInv /\ CourseInv /\ [Next]_vars => CourseInv'
  BY AcquireCourse, ProceedCourse, BackupCourse, BeginCourse, WorldCourse, Zenon DEF Next
<1> QED BY <1>1, <1>2, Invariance, PTL DEF Spec

\* Call that returns nil had its last attempt answered, but for the nil that
\* Failbackup has from sending its first call.
THEOREM SuccessesAreReal == Spec => []SuccessIsReal
<1>1. CourseInv => SuccessIsReal
  BY Zenon DEF CourseInv, Sane, Honest, Vain, BacksUp, SuccessIsReal, Returned
<1> QED BY <1>1, CourseInvariance, PTL

\* No attempt follows an answer or the end of the context, and no loop makes
\* more than option.Retries + 1.
THEOREM AnswersEndCalls == Spec => AnswerEndsCall
<1> DEFINE A == \A p \in Callers : tries'[p] # tries[p] =>
                  /\ last[p] \notin {"nil", "ServiceError", "ctx"}
                  /\ mode # "Failbackup" => tries[p] <= Retries
<1>1. IInv /\ CourseInv /\ [Next]_vars => [A]_vars
  <2> SUFFICES ASSUME IInv, CourseInv, Next PROVE A
    BY Zenon
  <2>1. CASE UNCHANGED tries
    BY <2>1, Zenon
  <2>2. ASSUME NEW p \in Callers, AttemptCall(p) \/ AttemptRaw(p) PROVE A
    <3>1. op[p].pc = "attempt" /\ \A q \in Callers \ {p} : tries'[q] = tries[q]
      BY <2>2, Zenon DEF AttemptCall, AttemptRaw, Tried, CourseInv, History
    <3>2. /\ OnCourse(p, op[p], tries[p], last[p]) /\ tries[p] \in Nat /\ op[p].left \in Int
          /\ Retries \in Nat
      BY XClientConstants, Zenon DEF CourseInv, History, Sane, IInv, Locals
    <3>3. last[p] \notin {"nil", "ServiceError", "ctx"} /\ tries[p] <= Retries
      BY <3>1, <3>2 DEF OnCourse, Answers
    <3> QED BY <3>1, <3>3, Zenon
  <2>3. ASSUME NEW p \in Callers, Sent(p) PROVE A
    <3>1. op[p].pc = "sent" /\ \A q \in Callers \ {p} : tries'[q] = tries[q]
      BY <2>3, Zenon DEF Sent, CourseInv, History
    <3>2. mode = "Failbackup" /\ last[p] \notin {"nil", "ServiceError", "ctx"}
      BY <3>1, Zenon DEF CourseInv, Sane, OnCourse, Answers, BacksUp
    <3> QED BY <3>1, <3>2, Zenon
  <2> HIDE DEF A
  <2>4. ASSUME NEW p \in Callers, Acquire(p) PROVE A
    BY <2>1, <2>4, Zenon DEF histVars, Acquire, Select, Check, Ready, ResetFailures, ResetTime, Find, Sweep, Generate,
       Dial, FailTime, Set
  <2>5. ASSUME NEW p \in Callers, Proceed(p) PROVE A
    BY <2>1, <2>2, <2>5, Zenon DEF histVars, Proceed, Remove, CloseRemoved
  <2>6. ASSUME NEW p \in Callers, Backup(p) \/ BackupLatency(p) PROVE A
    BY <2>1, <2>3, <2>6, Zenon DEF histVars, Backup, Go, Receive, ContextDone, BackupLatency
  <2>7. ASSUME NEW p \in Callers, Call(p) \/ SendRaw(p) \/ Inform(p) PROVE A
    BY <2>1, <2>7, Zenon DEF histVars, Call, SendRaw, Inform, Begin
  <2>8. CASE Close \/ Update \/ (\E c \in Clients : ConnLost(c)) \/ (\E k \in Keys : WindowPasses(k))
    BY <2>1, <2>8, Zenon DEF histVars, Close, Update, ConnLost, WindowPasses
  <2> QED BY <2>4, <2>5, <2>6, <2>7, <2>8, Zenon DEF Next
<1> QED BY <1>1, Invariance, CourseInvariance, PTL DEF Spec, AnswerEndsCall
-----------------------------------------------------------------------------
(* The breakers *)

\* A goroutine at these places may yet fail to connect to k, whatever the breaker
\* has counted since it was asked; Inform, Broadcast and Fork do not ask it.
Trying(p, o, k) ==
  \/ o.pc \in {"restart", "find", "generate", "dial"} /\ o.k = k
  \/ o.pc = "sweep" \/ (kind[p] = "Sweep" /\ o.pc = "start")
MayFail(k) == {p \in Callers : Trying(p, op[p], k)}

Breaker == [known : BOOLEAN, failures : Nat, expired : BOOLEAN]

BreakersOK ==
  /\ brk \in [Keys -> Breaker]
  /\ \A k \in Keys : ~brk[k].known => brk[k].failures = 0
  /\ Threshold > 0 =>
       \A k \in Keys : brk[k].failures + Cardinality(MayFail(k)) <= Threshold - 1 + Cardinality(Callers)

\* What failures can be at most
Most == Threshold - 1 + Cardinality(Callers)

\* A goroutine clears failures once until the window passes again: having done
\* it, it stores the time before it asks again.  What was cleared is accounted
\* for by those who did.
Ledger ==
  /\ dials \in [Keys -> Nat] /\ cleared \in [Keys -> SUBSET Callers]
  /\ \A p \in Callers : op[p].pc = "reset" => p \notin cleared[op[p].k]
  /\ \A p \in Callers : op[p].pc = "dial" /\ Stored(op[p].k) => brk[op[p].k].known
  /\ \A k \in Keys : \A p \in cleared[k] : brk[k].expired => op[p].pc = "restart" /\ op[p].k = k
  /\ Threshold > 0 => \A k \in Keys : dials[k] <= Cardinality(cleared[k]) * Most + brk[k].failures

\* A bound counts goroutines.
LEMMA CountMayFail ==
  /\ Cardinality(Callers) \in Nat
  /\ \A k : Cardinality(MayFail(k)) \in Nat /\ Cardinality(MayFail(k)) <= Cardinality(Callers)
  /\ \A k : \A S \in SUBSET MayFail(k) : Cardinality(S) \in Nat /\ Cardinality(S) <= Cardinality(MayFail(k))
  /\ \A k : \A p \in MayFail(k) : \A S \in SUBSET (MayFail(k) \ {p}) :
        Cardinality(S) \in Nat /\ Cardinality(S) + 1 <= Cardinality(MayFail(k))
<1>1. IsFiniteSet(Callers)
  BY XClientConstants, Zenon
<1>2. ASSUME NEW k PROVE IsFiniteSet(MayFail(k)) /\ Cardinality(MayFail(k)) <= Cardinality(Callers)
  <2>1. MayFail(k) \in SUBSET Callers
    BY Zenon DEF MayFail
  <2> QED BY <1>1, <2>1, FS_Subset, Zenon
<1>3. ASSUME NEW k, NEW S \in SUBSET MayFail(k)
      PROVE  IsFiniteSet(S) /\ Cardinality(S) <= Cardinality(MayFail(k))
  BY <1>2, FS_Subset, Zenon
<1>4. ASSUME NEW k, NEW p \in MayFail(k), NEW S \in SUBSET (MayFail(k) \ {p})
      PROVE  Cardinality(S) \in Nat /\ Cardinality(S) + 1 <= Cardinality(MayFail(k))
  <2>1. IsFiniteSet(MayFail(k) \ {p}) /\ Cardinality(MayFail(k) \ {p}) = Cardinality(MayFail(k)) - 1
    BY <1>2, FS_RemoveElement, Zenon
  <2>2. IsFiniteSet(S) /\ Cardinality(S) <= Cardinality(MayFail(k) \ {p})
    BY <2>1, FS_Subset, Zenon
  <2>3. Cardinality(MayFail(k)) \in Nat /\ Cardinality(S) \in Nat
    BY <1>2, <2>2, FS_CardinalityType, Zenon
  <2> QED BY <2>1, <2>2, <2>3
<1> QED BY <1>1, <1>2, <1>3, <1>4, FS_CardinalityType, Zenon

\* A goroutine that got a client or an error is not trying any more,
LEMMA GotLeaves ==
  ASSUME NEW p \in Callers, op[p] \in Locals, NEW k \in Keys, NEW c \in Clients \cup {NoClient},
         NEW r \in Errors, Got(p, k, c, r)
  PROVE  \E o : op' = [op EXCEPT ![p] = o] /\ o.pc \in {"remove", "attempt", "returned", "go", "sent"}
<1> DEFINE o == [op[p] EXCEPT !.k = k, !.cl = c, !.e = r]
           o1 == [o EXCEPT !.pc = "sent"]
<1>1. o \in Locals
  BY Zenon DEF Locals
<1>2. \/ op' = [op EXCEPT ![p] = First(p, o)]
      \/ op' = [op EXCEPT ![p] = Turn(o)]
      \/ op' = [op EXCEPT ![p] = o1]
  BY Zenon DEF Got, Become
<1> HIDE DEF o
<1>3. o1.pc = "sent"
  BY <1>1, Zenon DEF Locals
<1>4. \A x : Ended(x).pc = "returned"
  BY Zenon DEF Ended, Idle
<1>5. \A x \in Locals : Turn(x).pc \in {"remove", "attempt", "returned"}
  <2> SUFFICES ASSUME NEW x \in Locals PROVE Turn(x).pc \in {"remove", "attempt", "returned"}
    BY Zenon
  <2>1. CASE GoesOn(x.left)
    BY <2>1, Zenon DEF Turn, Locals
  <2>2. CASE ~GoesOn(x.left)
    BY <1>4, <2>2 DEF Turn
  <2> QED BY <2>1, <2>2, Zenon
<1>6. First(p, o).pc \in {"remove", "attempt", "returned", "go"}
  <2>0. [o EXCEPT !.err = o.e, !.left = Retries] \in Locals
    <3>1. Retries \in Int /\ o.e \in Errors
      BY <1>1, XClientConstants DEF Locals
    <3> QED BY <1>1, <3>1, Zenon DEF Locals
  <2>1. CASE mode = "Failfast" /\ o.e # "nil"
    BY <1>4, <2>1, Zenon DEF First, Looping, BacksUp
  <2>2. CASE Looping
    BY <1>5, <2>0, <2>2, Zenon DEF First, Looping, BacksUp
  <2>3. CASE BacksUp(p)
    BY <1>1, <2>3, Zenon DEF First, Looping, BacksUp, Locals
  <2>4. CASE ~(mode = "Failfast" /\ o.e # "nil") /\ ~Looping /\ ~BacksUp(p)
    BY <1>1, <2>4, Zenon DEF First, Locals
  <2> QED BY <2>1, <2>2, <2>3, <2>4, Zenon
<1> HIDE DEF o1
<1> QED BY <1>1, <1>2, <1>3, <1>5, <1>6, Zenon

\* nor is one that goes on elsewhere, or is to reset the breaker.
Elsewhere == Places \ {"start", "reset", "restart", "find", "sweep", "generate", "dial"}
Leaves(p) == \E o : op' = [op EXCEPT ![p] = o] /\ o.pc \in Elsewhere

LEMMA Leaving ==
  ASSUME op \in [Callers -> Locals], UNCHANGED kind, NEW p \in Callers, NEW o,
         op' = [op EXCEPT ![p] = o], o.pc \in Elsewhere \cup {"reset"}
  PROVE  \A k : MayFail(k)' \subseteq MayFail(k) \ {p}
  BY Zenon DEF MayFail, Trying, Elsewhere

\* While nothing is counted, goroutines may stop trying.
LEMMA NothingCounted ==
  ASSUME BreakersOK, \A k \in Keys : MayFail(k)' \subseteq MayFail(k),
         brk' \in [Keys -> Breaker],
         \A k \in Keys : brk'[k].failures = brk[k].failures /\ (brk[k].known => brk'[k].known)
  PROVE  BreakersOK'
<1>1. ASSUME Threshold > 0, NEW k \in Keys
      PROVE  brk'[k].failures + Cardinality(MayFail(k)') <= Threshold - 1 + Cardinality(Callers)
  <2>1. Cardinality(MayFail(k)') \in Nat /\ Cardinality(MayFail(k)') <= Cardinality(MayFail(k))
    BY CountMayFail, Zenon
  <2>2. brk[k].failures \in Nat /\ Cardinality(MayFail(k)) \in Nat /\ Cardinality(Callers) \in Nat /\ Threshold \in Nat
    BY CountMayFail, XClientConstants, Zenon DEF BreakersOK, Breaker
  <2> QED BY <1>1, <2>1, <2>2 DEF BreakersOK
<1>2. \A k \in Keys : ~brk'[k].known => brk'[k].failures = 0
  BY Zenon DEF BreakersOK
<1> QED BY <1>1, <1>2, Zenon DEF BreakersOK

\* A failure is counted for one that stops trying.
LEMMA FailureCounted ==
  ASSUME BreakersOK, NEW p \in Callers, NEW k \in Keys, p \in MayFail(k), brk[k].known,
         \A j \in Keys : MayFail(j)' \subseteq MayFail(j) \ {p},
         brk' = [brk EXCEPT ![k].failures = @ + 1]
  PROVE  BreakersOK'
<1> DEFINE b == [brk[k] EXCEPT !.failures = brk[k].failures + 1]
<1>1. brk' = [brk EXCEPT ![k] = b] /\ brk[k] \in Breaker
  BY Zenon DEF BreakersOK
<1>0. brk[k].failures + 1 \in Nat
  BY <1>1 DEF Breaker
<1>2. b \in Breaker /\ b.known = brk[k].known /\ b.failures = brk[k].failures + 1
  BY <1>0, <1>1, Zenon DEF Breaker
<1> HIDE DEF b
<1>3. /\ brk' \in [Keys -> Breaker] /\ brk'[k].known /\ brk'[k].failures = brk[k].failures + 1
      /\ \A j \in Keys \ {k} : brk'[j] = brk[j]
  BY <1>1, <1>2, Zenon DEF BreakersOK
<1>4. ASSUME Threshold > 0, NEW j \in Keys
      PROVE  brk'[j].failures + Cardinality(MayFail(j)') <= Threshold - 1 + Cardinality(Callers)
  <2>1. /\ brk[j].failures \in Nat /\ Cardinality(MayFail(j)) \in Nat /\ Cardinality(Callers) \in Nat
        /\ Threshold \in Nat
        /\ brk[j].failures + Cardinality(MayFail(j)) <= Threshold - 1 + Cardinality(Callers)
    BY <1>4, CountMayFail, XClientConstants, Zenon DEF BreakersOK, Breaker
  <2>2. CASE j = k
    <3>1. Cardinality(MayFail(k)') \in Nat /\ Cardinality(MayFail(k)') + 1 <= Cardinality(MayFail(k))
      BY CountMayFail, Zenon
    <3>2. ASSUME NEW f \in Nat, NEW m \in Nat, NEW m1 \in Nat, NEW n \in Nat,
                 f + m <= Threshold - 1 + n, m1 + 1 <= m
          PROVE  f + 1 + m1 <= Threshold - 1 + n
      BY ONLY <3>2, XClientConstants
    <3> QED BY <1>3, <2>1, <2>2, <3>1, <3>2, Zenon
  <2>3. CASE j # k
    <3>1. Cardinality(MayFail(j)') \in Nat /\ Cardinality(MayFail(j)') <= Cardinality(MayFail(j))
      BY CountMayFail, Zenon
    <3>2. ASSUME NEW f \in Nat, NEW m \in Nat, NEW m1 \in Nat, NEW n \in Nat,
                 f + m <= Threshold - 1 + n, m1 <= m
          PROVE  f + m1 <= Threshold - 1 + n
      BY ONLY <3>2, XClientConstants
    <3>3. brk'[j].failures = brk[j].failures
      BY <1>3, <2>3, Zenon
    <3> QED BY <2>1, <3>1, <3>2, <3>3, Zenon
  <2> QED BY <2>2, <2>3, Zenon
<1>5. \A j \in Keys : ~brk'[j].known => brk'[j].failures = 0
  BY <1>3, Zenon DEF BreakersOK
<1> QED BY <1>3, <1>4, <1>5, Zenon DEF BreakersOK

\* Whoever starts to try found a breaker that had counted less than Threshold,
\* or has reset it.
LEMMA TryStarted ==
  ASSUME BreakersOK, NEW k \in Keys, \A j \in Keys \ {k} : MayFail(j)' \subseteq MayFail(j),
         brk' \in [Keys -> Breaker],
         \A j \in Keys : brk'[j].known = brk[j].known,
         \A j \in Keys \ {k} : brk'[j].failures = brk[j].failures,
         Threshold > 0 => brk'[k].failures <= Threshold - 1,
         ~brk[k].known => brk'[k].failures = 0
  PROVE  BreakersOK'
<1>1. ASSUME Threshold > 0, NEW j \in Keys
      PROVE  brk'[j].failures + Cardinality(MayFail(j)') <= Threshold - 1 + Cardinality(Callers)
  <2>1. Cardinality(Callers) \in Nat /\ Threshold \in Nat /\ brk'[j].failures \in Nat
    BY CountMayFail, XClientConstants, Zenon DEF Breaker
  <2>2. CASE j = k
    <3>1. MayFail(k)' \subseteq Callers
      BY Zenon DEF MayFail
    <3>2. Cardinality(MayFail(k)') \in Nat /\ Cardinality(MayFail(k)') <= Cardinality(Callers)
      BY <3>1, XClientConstants, FS_Subset, FS_CardinalityType, Zenon
    <3> QED BY <1>1, <2>1, <2>2, <3>2
  <2>3. CASE j # k
    <3>1. /\ Cardinality(MayFail(j)') \in Nat /\ Cardinality(MayFail(j)') <= Cardinality(MayFail(j))
          /\ Cardinality(MayFail(j)) \in Nat
      BY <2>3, CountMayFail, Zenon
    <3>2. brk[j].failures + Cardinality(MayFail(j)) <= Threshold - 1 + Cardinality(Callers)
      BY <1>1, Zenon DEF BreakersOK
    <3>3. brk'[j].failures = brk[j].failures
      BY <2>3, Zenon
    <3>4. ASSUME NEW f \in Nat, NEW m \in Nat, NEW m1 \in Nat, NEW n \in Nat,
                 f + m <= Threshold - 1 + n, m1 <= m
          PROVE  f + m1 <= Threshold - 1 + n
      BY ONLY <3>4, XClientConstants
    <3> QED BY <2>1, <3>1, <3>2, <3>3, <3>4, Zenon
  <2> QED BY <2>2, <2>3, Zenon
<1>2. \A j \in Keys : ~brk'[j].known => brk'[j].failures = 0
  BY Zenon DEF BreakersOK
<1> QED BY <1>1, <1>2, Zenon DEF BreakersOK

\* LoadOrStore makes a breaker known, and counts nothing.
LEMMA StoredCounted ==
  ASSUME BreakersOK, \A j \in Keys : MayFail(j)' \subseteq MayFail(j), NEW k \in Keys, LoadOrStore(k)
  PROVE  BreakersOK'
<1> DEFINE b == [brk[k] EXCEPT !.known = TRUE]
<1>1. brk' = brk \/ brk' = [brk EXCEPT ![k] = b]
  BY Zenon DEF LoadOrStore
<1>2. b \in Breaker /\ b.failures = brk[k].failures /\ b.known
  BY Zenon DEF BreakersOK, Breaker
<1> HIDE DEF b
<1>3. /\ brk' \in [Keys -> Breaker]
      /\ \A j \in Keys : brk'[j].failures = brk[j].failures /\ (brk[j].known => brk'[j].known)
  BY <1>1, <1>2, Zenon DEF BreakersOK
<1> QED BY <1>3, NothingCounted, Zenon

LEMMA NotMadeLeaves ==
  ASSUME IInv, NEW p \in Callers, NotMade(p)
  PROVE  Leaves(p)
<1>0. op[p] \in Locals /\ op[p].k \in Keys
  BY Zenon DEF IInv, Locals
<1>1. CASE Return(p, "noClient")
  <2>1. op' = [op EXCEPT ![p] = Ended("noClient")] /\ Ended("noClient").pc = "returned"
    BY <1>1, Zenon DEF Return, Become, Ended, Idle
  <2> QED BY <2>1, Zenon DEF Leaves, Elsewhere, Places
<1>2. CASE Got(p, op[p].k, NoClient, "noClient")
  BY <1>0, <1>2, GotLeaves, Zenon DEF Leaves, Elsewhere, Places, Errors, AcquireErrors
<1> QED BY <1>1, <1>2, Zenon DEF NotMade

LEMMA CheckedBreaker ==
  ASSUME IInv, BreakersOK, UNCHANGED <<kind, brk>>, NEW p \in Callers, NEW k \in Keys, Checked(p, k)
  PROVE  BreakersOK'
<1>0. op \in [Callers -> Locals] /\ op[p] \in Locals
  BY Zenon DEF IInv
<1>1. ASSUME NEW o, op' = [op EXCEPT ![p] = o], o.pc \in Elsewhere \cup {"reset"} PROVE BreakersOK'
  BY <1>0, <1>1, Leaving, NothingCounted, Zenon DEF BreakersOK
<1>2. CASE Got(p, k, NoClient, "noClient")
  BY <1>0, <1>1, <1>2, GotLeaves, Zenon DEF Elsewhere, Places, Errors, AcquireErrors
<1>3. ASSUME NEW l \in {"ready", "reset", "find"}, l = "find" => ~brk[k].known,
             op' = [op EXCEPT ![p] = [op[p] EXCEPT !.k = k, !.pc = l]]
      PROVE  BreakersOK'
  <2> DEFINE o == [op[p] EXCEPT !.k = k, !.pc = l]
  <2>1. op' = [op EXCEPT ![p] = o] /\ o.pc = l /\ o.k = k
    BY <1>0, <1>3, Zenon DEF Locals
  <2> HIDE DEF o
  <2>2. CASE l # "find"
    BY <1>1, <2>1, <2>2, Zenon DEF Elsewhere, Places
  <2>3. CASE l = "find"
    <3>1. \A j \in Keys \ {k} : MayFail(j)' \subseteq MayFail(j)
      BY <1>0, <2>1, <2>3, Zenon DEF MayFail, Trying
    <3>2. Threshold > 0 => brk[k].failures <= Threshold - 1
      BY <1>3, <2>3, XClientConstants DEF BreakersOK
    <3> QED BY <3>1, <3>2, TryStarted, Zenon DEF BreakersOK
  <2> QED BY <2>2, <2>3, Zenon
<1>4. \/ Got(p, k, NoClient, "noClient")
      \/ \E l \in {"ready", "reset", "find"} :
           (l = "find" => ~brk[k].known) /\ op' = [op EXCEPT ![p] = [op[p] EXCEPT !.k = k, !.pc = l]]
  <2>1. CASE isShutdown
    BY <2>1, Zenon DEF Checked
  <2>2. CASE ~isShutdown /\ ~brk[k].known
    BY <2>2, Zenon DEF Checked
  <2>3. CASE ~isShutdown /\ brk[k].known /\ brk[k].expired
    BY <2>3, Zenon DEF Checked
  <2>4. CASE ~isShutdown /\ brk[k].known /\ ~brk[k].expired
    BY <2>4, Zenon DEF Checked
  <2> QED BY <2>1, <2>2, <2>3, <2>4, Zenon
<1> QED BY <1>2, <1>3, <1>4, Zenon

LEMMA AcquireBreaker == ASSUME IInv, BreakersOK, Ledger, NEW p \in Callers, Acquire(p) PROVE BreakersOK'
<1>0. op \in [Callers -> Locals] /\ op[p] \in Locals /\ op[p].k \in Keys /\ Sound(op[p], home, st) /\ UNCHANGED kind
  BY Zenon DEF IInv, Locals, Acquire, Select, Check, Ready, ResetFailures, ResetTime, Find, Sweep, Generate, Dial,
     FailTime, Set
<1>1. ASSUME UNCHANGED brk, NEW o, op' = [op EXCEPT ![p] = o], o.pc \in Elsewhere PROVE BreakersOK'
  BY <1>0, <1>1, Leaving, NothingCounted, Zenon DEF BreakersOK
<1>2. ASSUME NEW k \in Keys, NEW c \in Clients \cup {NoClient}, NEW r \in Errors, Got(p, k, c, r)
      PROVE  \E o : op' = [op EXCEPT ![p] = o] /\ o.pc \in Elsewhere
  BY <1>0, <1>2, GotLeaves, Zenon DEF Elsewhere, Places
<1>3. CASE Select(p)
  <2>1. CASE Got(p, NoServer, NoClient, "noClient")
    <3>1. UNCHANGED brk /\ NoServer \in Keys /\ "noClient" \in Errors
      BY <1>3, Zenon DEF Select, Keys, Errors, AcquireErrors
    <3> QED BY <1>1, <1>2, <2>1, <3>1, Zenon
  <2>2. ASSUME NEW k \in listed, Checked(p, k) PROVE BreakersOK'
    BY <1>3, <2>2, CheckedBreaker, Zenon DEF IInv, Select, Keys
  <2> QED BY <1>3, <2>1, <2>2, Zenon DEF Select
<1>4. CASE Check(p)
  BY <1>0, <1>4, CheckedBreaker, Zenon DEF Check
<1>5. CASE ResetFailures(p)
  <2> DEFINE k == op[p].k
             o == [op[p] EXCEPT !.pc = "restart"]
             b == [brk[k] EXCEPT !.failures = 0]
  <2>1. op' = [op EXCEPT ![p] = o] /\ brk' = [brk EXCEPT ![k] = b]
    BY <1>5, Zenon DEF ResetFailures, Goto
  <2>2. o.pc = "restart" /\ o.k = k
    BY <1>0, Zenon DEF Locals
  <2>3. b \in Breaker /\ b.failures = 0 /\ b.known = brk[k].known
    <3>1. 0 \in Nat
      OBVIOUS
    <3> QED BY <1>0, <3>1, Zenon DEF BreakersOK, Breaker
  <2> HIDE DEF o, b
  <2>4. \A j \in Keys \ {k} : MayFail(j)' \subseteq MayFail(j)
    BY <1>0, <2>1, <2>2, Zenon DEF MayFail, Trying
  <2>5. /\ brk' \in [Keys -> Breaker]
        /\ brk'[k] = b /\ \A j \in Keys \ {k} : brk'[j] = brk[j]
    BY <1>0, <2>1, <2>3, Zenon DEF BreakersOK
  <2>6. Threshold > 0 => brk'[k].failures <= Threshold - 1
    <3>1. brk'[k].failures = 0 /\ Threshold \in Nat
      BY <2>3, <2>5, XClientConstants, Zenon
    <3>2. \A t \in Nat : t > 0 => 0 <= t - 1
      BY ONLY TRUE
    <3> QED
      BY <3>1, <3>2, Zenon
  <2> QED BY <1>0, <2>3, <2>4, <2>5, <2>6, TryStarted, Zenon
<1>6. CASE ResetTime(p)
  <2> DEFINE k == op[p].k
             o == [op[p] EXCEPT !.pc = "find"]
             b == [brk[k] EXCEPT !.expired = FALSE]
  <2>1. op' = [op EXCEPT ![p] = o] /\ brk' = [brk EXCEPT ![k] = b] /\ op[p].pc = "restart"
    BY <1>6, Zenon DEF ResetTime, Goto
  <2>2. o.pc = "find" /\ o.k = k
    BY <1>0, Zenon DEF Locals
  <2>3. /\ b \in Breaker
        /\ b.failures = brk[k].failures /\ b.known = brk[k].known
    BY <1>0, Zenon DEF BreakersOK, Breaker
  <2> HIDE DEF o, b
  <2>4. \A j \in Keys : MayFail(j)' \subseteq MayFail(j)
    BY <1>0, <2>1, <2>2, Zenon DEF MayFail, Trying
  <2>5. /\ brk' \in [Keys -> Breaker]
        /\ brk'[k] = b /\ \A j \in Keys \ {k} : brk'[j] = brk[j]
    BY <1>0, <2>1, <2>3, Zenon DEF BreakersOK
  <2> QED BY <2>3, <2>4, <2>5, NothingCounted, Zenon
<1>7. CASE Find(p)
  <2>0. UNCHANGED brk /\ op[p].pc = "find"
    BY <1>7, Zenon DEF Find
  <2>1. CASE Up(cached[op[p].k])
    <3>1. Got(p, op[p].k, cached[op[p].k], "nil") /\ cached[op[p].k] \in Clients \cup {NoClient} /\ "nil" \in Errors
      BY <1>0, <1>7, <2>1, Zenon DEF Find, findCachedClient, IInv, CacheOK, Errors, Outcomes
    <3> QED BY <1>0, <1>1, <1>2, <2>0, <3>1, Zenon
  <2>2. CASE ~Up(cached[op[p].k])
    <3> DEFINE o == [op[p] EXCEPT !.pc = "generate"]
    <3>1. op' = [op EXCEPT ![p] = o] /\ o.pc = "generate" /\ o.k = op[p].k
      BY <1>0, <1>7, <2>2, Zenon DEF Find, findCachedClient, Goto, Locals
    <3> HIDE DEF o
    <3>2. \A j \in Keys : MayFail(j)' \subseteq MayFail(j)
      BY <1>0, <2>0, <3>1, Zenon DEF MayFail, Trying
    <3> QED BY <2>0, <3>2, NothingCounted, Zenon DEF BreakersOK
  <2> QED BY <2>1, <2>2, Zenon
<1>8. CASE Generate(p)
  <2> DEFINE o == [op[p] EXCEPT !.pc = "dial"]
  <2>1. op' = [op EXCEPT ![p] = o] /\ o.pc = "dial" /\ o.k = op[p].k /\ op[p].pc = "generate"
    BY <1>0, <1>8, Zenon DEF Generate, Goto, Locals
  <2> HIDE DEF o
  <2>2. \A j \in Keys : MayFail(j)' \subseteq MayFail(j)
    BY <1>0, <2>1, Zenon DEF MayFail, Trying
  <2> QED BY <1>0, <1>8, <2>2, StoredCounted, Zenon DEF Generate
<1>9. CASE Set(p)
  <2>1. Got(p, op[p].k, op[p].cl, "nil") /\ op[p].cl \in Clients \cup {NoClient} /\ UNCHANGED brk /\ "nil" \in Errors
    BY <1>0, <1>9, Zenon DEF Set, Locals, Errors, Outcomes
  <2> QED BY <1>0, <1>1, <1>2, <2>1, Zenon
<1>10. CASE Ready(p)
  <2> DEFINE k == op[p].k
             o == [op[p] EXCEPT !.pc = "find"]
  <2>0. UNCHANGED brk
    BY <1>10, Zenon DEF Ready
  <2>1. CASE Got(p, k, NoClient, "noClient")
    BY <1>0, <1>1, <1>2, <2>0, <2>1, Zenon DEF Errors, AcquireErrors
  <2>2. CASE ~Open(brk[k]) /\ Goto(p, "find")
    <3>1. op' = [op EXCEPT ![p] = o] /\ o.pc = "find" /\ o.k = k
      BY <1>0, <2>2, Zenon DEF Goto, Locals
    <3> HIDE DEF o
    <3>2. \A j \in Keys \ {k} : MayFail(j)' \subseteq MayFail(j)
      BY <1>0, <3>1, Zenon DEF MayFail, Trying
    <3>3. Threshold > 0 => brk[k].failures <= Threshold - 1
      <4>1. brk[k].failures \in Nat /\ Threshold \in Nat
        BY <1>0, XClientConstants, Zenon DEF BreakersOK, Breaker
      <4> QED BY <2>2, <4>1 DEF Open
    <3> QED BY <1>0, <2>0, <3>2, <3>3, TryStarted, Zenon DEF BreakersOK
  <2> QED BY <1>10, <2>1, <2>2, Zenon DEF Ready
<1>11. CASE Sweep(p)
  <2>0. \A j : p \in MayFail(j)
    BY <1>11, Zenon DEF Sweep, MayFail, Trying
  <2>1. CASE Return(p, "noClient") /\ UNCHANGED brk
    <3>1. op' = [op EXCEPT ![p] = Ended("noClient")] /\ Ended("noClient").pc = "returned"
      BY <2>1, Zenon DEF Return, Become, Ended, Idle
    <3> QED BY <1>1, <2>1, <3>1, Zenon DEF Elsewhere, Places
  <2>2. ASSUME NEW k \in Keys, NEW l, NEW d, brk' = brk \/ LoadOrStore(k),
               op' = [op EXCEPT ![p].pc = l, ![p].at = "end", ![p].k = k, ![p].cl = d]
        PROVE  BreakersOK'
    <3>1. PICK o : op' = [op EXCEPT ![p] = o]
      BY <2>2, Zenon
    <3>2. \A j \in Keys : MayFail(j)' \subseteq MayFail(j)
      BY <1>0, <2>0, <3>1, Zenon DEF MayFail, Trying
    <3> QED BY <2>2, <3>2, StoredCounted, NothingCounted, Zenon DEF BreakersOK
  <2>3. listed \subseteq Keys
    BY Zenon DEF IInv, Keys
  <2> QED BY <1>11, <2>1, <2>2, <2>3, Zenon DEF Sweep
<1>12. CASE Dial(p)
  <2>0. op[p].pc = "dial" /\ p \in MayFail(op[p].k)
    BY <1>12, Zenon DEF Dial, MayFail, Trying
  <2>1. ASSUME NEW c, NEW l \in {"attempt", "set"}, op' = [op EXCEPT ![p].pc = l, ![p].cl = c], UNCHANGED brk
        PROVE  BreakersOK'
    <3> DEFINE o == [op[p] EXCEPT !.pc = l, !.cl = c]
    <3>1. op' = [op EXCEPT ![p] = o] /\ o.pc = l
      BY <1>0, <2>1, Zenon DEF Locals
    <3> HIDE DEF o
    <3> QED BY <1>1, <2>1, <3>1, Zenon DEF Elsewhere, Places
  <2>2. CASE Stored(op[p].k) /\ brk' = [brk EXCEPT ![op[p].k].failures = @ + 1] /\ Goto(p, "fail")
    <3> DEFINE o == [op[p] EXCEPT !.pc = "fail"]
    <3>1. op' = [op EXCEPT ![p] = o] /\ o.pc = "fail"
      BY <1>0, <2>2, Zenon DEF Goto, Locals
    <3> HIDE DEF o
    <3>2. \A j : MayFail(j)' \subseteq MayFail(j) \ {p}
      BY <1>0, <3>1, Leaving, Zenon DEF Elsewhere, Places
    <3>3. brk[op[p].k].known
      BY <2>0, <2>2, Zenon DEF Ledger
    <3> QED BY <1>0, <2>0, <2>2, <3>2, <3>3, FailureCounted, Zenon
  <2>3. CASE NotMade(p) /\ UNCHANGED brk
    BY <1>0, <1>1, <2>3, NotMadeLeaves, Zenon DEF Leaves
  <2> QED BY <1>12, <2>1, <2>2, <2>3, Zenon DEF Dial, Connect, ConnectFails
<1>13. CASE FailTime(p)
  <2>1. \A j \in Keys : MayFail(j)' \subseteq MayFail(j)
    BY <1>0, <1>13, NotMadeLeaves, Leaving, Zenon DEF Leaves, FailTime
  <2> DEFINE b == [brk[op[p].k] EXCEPT !.expired = FALSE]
  <2>2. brk' = [brk EXCEPT ![op[p].k] = b] /\ brk[op[p].k] \in Breaker
    BY <1>0, <1>13, Zenon DEF FailTime, BreakersOK
  <2>3. b \in Breaker /\ b.failures = brk[op[p].k].failures /\ b.known = brk[op[p].k].known
    BY <2>2, Zenon DEF Breaker
  <2> HIDE DEF b
  <2>4. /\ brk' \in [Keys -> Breaker]
        /\ \A j \in Keys : brk'[j].failures = brk[j].failures /\ (brk[j].known => brk'[j].known)
    BY <1>0, <2>2, <2>3, Zenon DEF BreakersOK
  <2> QED BY <2>1, <2>4, NothingCounted, Zenon
<1> QED
  BY <1>3, <1>4, <1>5, <1>6, <1>7, <1>8, <1>9, <1>10, <1>11, <1>12, <1>13, Zenon DEF Acquire

\* No other step of a goroutine starts to try.
LEMMA OtherLeaves ==
  ASSUME IInv, NEW p \in Callers,
         Proceed(p) \/ Backup(p) \/ BackupLatency(p) \/ Call(p) \/ SendRaw(p) \/ (Inform(p) /\ ~Goto(p, "sweep"))
  PROVE  Leaves(p)
<1>0. op \in [Callers -> Locals] /\ op[p] \in Locals /\ op[p].k \in Keys
  BY Zenon DEF IInv, Locals
<1>2. ASSUME NEW r, Return(p, r) PROVE Leaves(p)
  <2>1. op' = [op EXCEPT ![p] = Ended(r)] /\ Ended(r).pc = "returned"
    BY <1>2, Zenon DEF Return, Become, Ended, Idle
  <2> QED BY <2>1, Zenon DEF Leaves, Elsewhere, Places
<1>3. ASSUME NEW o, op' = [op EXCEPT ![p] = o], o.pc \in {"select", "check", "remove", "close", "wait", "go"}
      PROVE  Leaves(p)
  BY <1>3, Zenon DEF Leaves, Elsewhere, Places
<1>4. ASSUME NEW r, Onward(p, r) PROVE Leaves(p)
  <2>1. CASE op[p].at \in {"first", "retry"}
    <3> DEFINE o == [op[p] EXCEPT !.err = r, !.pc = AgainAt, !.at = "retry", !.cl = NoClient]
    <3>1. op' = [op EXCEPT ![p] = o] /\ o.pc = AgainAt /\ AgainAt \in {"select", "check"}
      BY <1>0, <1>4, <2>1, Zenon DEF Onward, AgainAt, Locals
    <3> HIDE DEF o
    <3> QED BY <1>3, <3>1, Zenon
  <2>2. CASE op[p].at \notin {"first", "retry"}
    BY <1>2, <1>4, <2>2, Zenon DEF Onward
  <2> QED BY <2>1, <2>2, Zenon
<1>5. ASSUME NEW l \in {"select", "close"}, Goto(p, l) PROVE Leaves(p)
  <2>1. op' = [op EXCEPT ![p] = [op[p] EXCEPT !.pc = l]] /\ [op[p] EXCEPT !.pc = l].pc = l
    BY <1>0, <1>5, Zenon DEF Goto, Locals
  <2> QED BY <1>3, <2>1, Zenon
<1>6. CASE AttemptCall(p) \/ AttemptRaw(p)
  <2>1. PICK r, e : Return(p, r) \/ Onward(p, e) \/ op' = [op EXCEPT ![p].err = e, ![p].pc = "remove"]
    BY <1>6, Zenon DEF AttemptCall, AttemptRaw, Continue
  <2>2. CASE op' = [op EXCEPT ![p].err = e, ![p].pc = "remove"]
    <3> DEFINE o == [op[p] EXCEPT !.err = e, !.pc = "remove"]
    <3>1. op' = [op EXCEPT ![p] = o] /\ o.pc = "remove"
      BY <1>0, <2>2, Zenon DEF Locals
    <3> HIDE DEF o
    <3> QED BY <1>3, <3>1, Zenon
  <2> QED BY <1>2, <1>4, <2>1, <2>2, Zenon
<1>7. CASE Remove(p) \/ CloseRemoved(p)
  BY <1>4, <1>5, <1>7, Zenon DEF Remove, CloseRemoved, AfterRemove
<1>8. CASE Go(p)
  <2>1. CASE Got(p, op[p].k, NoClient, "noClient")
    BY <1>0, <2>1, GotLeaves, Zenon DEF Leaves, Elsewhere, Places, Errors, AcquireErrors
  <2> QED BY <1>5, <1>8, <2>1, Zenon DEF Go
<1>9. CASE Sent(p)
  <2> DEFINE o1 == [Blamed(op[p]) EXCEPT !.pc = "remove", !.at = "end", !.err = op[p].err1]
             o2(x) == [op[p] EXCEPT !.pc = "wait", !.err1 = x]
  <2>1. op' = [op EXCEPT ![p] = o1] \/ \E x : op' = [op EXCEPT ![p] = o2(x)]
    <3>1. CASE op[p].at = "go2" /\ op[p].e # "nil"
      BY <1>9, <3>1, Zenon DEF Sent, Become
    <3>2. CASE op[p].at = "go1"
      BY <1>9, <3>2, Zenon DEF Sent
    <3>3. CASE op[p].at # "go1" /\ ~(op[p].at = "go2" /\ op[p].e # "nil")
      BY <1>9, <3>3, Zenon DEF Sent
    <3> QED BY <3>1, <3>2, <3>3, Zenon
  <2>2. o1.pc = "remove" /\ \A x : o2(x).pc = "wait"
    BY <1>0, Zenon DEF Locals, Blamed
  <2> HIDE DEF o1, o2
  <2> QED BY <1>3, <2>1, <2>2, Zenon
<1>10. CASE Receive(p) \/ ContextDone(p)
  BY <1>2, <1>10, Zenon DEF Receive, ContextDone
<1>11. CASE BackupLatency(p)
  <2> DEFINE o == [op[p] EXCEPT !.pc = "go", !.at = "go2"]
  <2>1. op' = [op EXCEPT ![p] = o] /\ o.pc = "go"
    BY <1>0, <1>11, Zenon DEF BackupLatency, Locals
  <2> HIDE DEF o
  <2> QED BY <1>3, <2>1, Zenon
<1>12. CASE Call(p) \/ SendRaw(p) \/ (Inform(p) /\ ~Goto(p, "sweep"))
  BY <1>2, <1>5, <1>12, Zenon DEF Call, SendRaw, Inform, Begin
<1> QED BY <1>6, <1>7, <1>8, <1>9, <1>10, <1>11, <1>12, Zenon DEF Proceed, Backup

Other(p) == Proceed(p) \/ Backup(p) \/ BackupLatency(p) \/ Call(p) \/ SendRaw(p) \/ Inform(p)

LEMMA OtherSame == ASSUME NEW p \in Callers, Other(p) PROVE UNCHANGED <<kind, brk, dials, cleared>>
  BY Zenon DEF Other, Proceed, Backup, AttemptCall, AttemptRaw, Tried, Remove, CloseRemoved, Go, Sent, Receive, ContextDone,
     BackupLatency, Call, SendRaw, Inform, Begin

LEMMA OtherBreaker == ASSUME IInv, BreakersOK, NEW p \in Callers, Other(p) PROVE BreakersOK'
<1>0. op \in [Callers -> Locals] /\ UNCHANGED <<kind, brk>>
  BY OtherSame, Zenon DEF IInv
<1>1. CASE Leaves(p)
  BY <1>0, <1>1, Leaving, NothingCounted, Zenon DEF BreakersOK, Leaves
<1>2. CASE Inform(p) /\ Goto(p, "sweep")
  <2>1. \A j : p \in MayFail(j)
    BY <1>2, Zenon DEF Inform, Begin, MayFail, Trying
  <2>2. op' = [op EXCEPT ![p] = [op[p] EXCEPT !.pc = "sweep"]]
    BY <1>2, Zenon DEF Goto
  <2>3. \A j \in Keys : MayFail(j)' \subseteq MayFail(j)
    BY <1>0, <2>1, <2>2, Zenon DEF MayFail, Trying
  <2> QED BY <1>0, <2>3, NothingCounted, Zenon DEF BreakersOK
<1> QED BY <1>1, <1>2, OtherLeaves, Zenon DEF Other

LEMMA WorldBreaker ==
  ASSUME BreakersOK,
         \/ Close \/ Update \/ (\E c \in Clients : ConnLost(c)) \/ (\E k \in Keys : WindowPasses(k))
         \/ UNCHANGED vars
  PROVE  BreakersOK'
<1>1. UNCHANGED <<kind, op>>
  BY Zenon DEF Close, Update, ConnLost, WindowPasses, vars
<1>2. \A k : MayFail(k)' = MayFail(k)
  BY <1>1, Zenon DEF MayFail, Trying
<1>3. brk' = brk \/ \E k \in Keys : brk' = [brk EXCEPT ![k].expired = TRUE]
  BY Zenon DEF Close, Update, ConnLost, WindowPasses, vars
<1>4. /\ brk' \in [Keys -> Breaker]
      /\ \A k \in Keys : brk'[k].failures = brk[k].failures /\ (brk[k].known => brk'[k].known)
  <2>1. CASE brk' = brk
    BY <2>1, Zenon DEF BreakersOK
  <2>2. ASSUME NEW k \in Keys, brk' = [brk EXCEPT ![k].expired = TRUE] PROVE <1>4
    BY <2>2, Zenon DEF BreakersOK, Breaker
  <2> QED BY <1>3, <2>1, <2>2, Zenon
<1> QED BY <1>2, <1>4, NothingCounted, Zenon
-----------------------------------------------------------------------------
(* The connections that fail from one passing of the window to the next *)

\* failures is never more than Most,
LEMMA MostCounts ==
  /\ Threshold > 0 => Most \in Nat
  /\ BreakersOK /\ Threshold > 0 => \A k \in Keys : brk[k].failures <= Most
  /\ Ledger => \A k \in Keys : IsFiniteSet(cleared[k]) /\ Cardinality(cleared[k]) \in Nat
<1>1. Cardinality(Callers) \in Nat /\ Threshold \in Nat /\ IsFiniteSet(Callers)
  BY CountMayFail, XClientConstants, Zenon
<1>2. Threshold > 0 => Most \in Nat
  BY <1>1 DEF Most
<1>3. ASSUME BreakersOK, Threshold > 0, NEW k \in Keys PROVE brk[k].failures <= Most
  <2>1. brk[k].failures \in Nat /\ Cardinality(MayFail(k)) \in Nat /\ brk[k].failures + Cardinality(MayFail(k)) <= Most
    BY <1>3, CountMayFail, Zenon DEF BreakersOK, Breaker, Most
  <2> QED BY <1>2, <1>3, <2>1
<1>4. ASSUME Ledger, NEW k \in Keys PROVE IsFiniteSet(cleared[k]) /\ Cardinality(cleared[k]) \in Nat
  <2>1. cleared[k] \in SUBSET Callers
    BY <1>4, Zenon DEF Ledger
  <2> QED BY <1>1, <2>1, FS_Subset, FS_CardinalityType, Zenon
<1> QED BY <1>2, <1>3, <1>4, Zenon

\* and a step that neither counts nor clears leaves the ledger as it is.
LEMMA LedgerKept ==
  ASSUME op \in [Callers -> Locals], Ledger, NEW p \in Callers, NEW o, op' = [op EXCEPT ![p] = o],
         op[p].pc # "restart", UNCHANGED <<dials, cleared>>,
         \A k \in Keys : /\ brk'[k].failures = brk[k].failures
                         /\ brk'[k].expired => brk[k].expired
                         /\ brk[k].known => brk'[k].known,
         o.pc = "reset" => o.k \in Keys /\ brk[o.k].expired,
         o.pc = "dial" /\ Stored(o.k) => brk'[o.k].known
  PROVE  Ledger'
<1>1. op'[p] = o /\ \A q \in Callers \ {p} : op'[q] = op[q]
  BY Zenon
<1>2. \A q \in Callers : op[q].k \in Keys
  BY Zenon DEF Locals
<1>3. \A k \in Keys : \A q \in cleared[k] :
        q \in Callers /\ (brk[k].expired => op[q].pc = "restart" /\ op[q].k = k /\ q # p)
  <2>1. \A k \in Keys : cleared[k] \subseteq Callers
    BY Zenon DEF Ledger
  <2>2. \A k \in Keys : \A q \in cleared[k] : brk[k].expired => op[q].pc = "restart" /\ op[q].k = k
    BY Zenon DEF Ledger
  <2> QED BY <2>1, <2>2, Zenon
<1>4. \A k \in Keys : \A q \in cleared'[k] : brk'[k].expired => op'[q].pc = "restart" /\ op'[q].k = k
  BY <1>1, <1>3, Zenon
<1>5. \A q \in Callers : op'[q].pc = "reset" => q \notin cleared'[op'[q].k]
  <2>1. o.pc = "reset" => p \notin cleared[o.k]
    BY <1>3, Zenon
  <2>2. \A q \in Callers : op[q].pc = "reset" => q \notin cleared[op[q].k]
    BY Zenon DEF Ledger
  <2> QED BY <1>1, <2>1, <2>2, Zenon
<1>6. \A q \in Callers : op'[q].pc = "dial" /\ Stored(op'[q].k) => brk'[op'[q].k].known
  <2>1. \A q \in Callers : op[q].pc = "dial" /\ Stored(op[q].k) => brk[op[q].k].known
    BY Zenon DEF Ledger
  <2> QED BY <1>1, <1>2, <2>1, Zenon
<1>7. Threshold > 0 => \A k \in Keys : dials'[k] <= Cardinality(cleared'[k]) * Most + brk'[k].failures
  BY Zenon DEF Ledger
<1>8. dials' \in [Keys -> Nat] /\ cleared' \in [Keys -> SUBSET Callers]
  BY Zenon DEF Ledger
<1> QED BY <1>4, <1>5, <1>6, <1>7, <1>8, Zenon DEF Ledger, Most, Stored

LEMMA LeavesLedger ==
  ASSUME IInv, Ledger, NEW p \in Callers, Leaves(p), op[p].pc # "restart", UNCHANGED <<dials, cleared>>,
         \A k \in Keys : /\ brk'[k].failures = brk[k].failures
                         /\ brk'[k].expired => brk[k].expired
                         /\ brk[k].known => brk'[k].known
  PROVE  Ledger'
<1>1. PICK o : op' = [op EXCEPT ![p] = o] /\ o.pc \in Elsewhere
  BY Zenon DEF Leaves
<1>2. o.pc # "reset" /\ o.pc # "dial"
  BY <1>1, Zenon DEF Elsewhere
<1> QED BY <1>1, <1>2, LedgerKept, Zenon DEF IInv

\* reset is decided on when the window has passed, by one that has not cleared
\* failures since.
LEMMA CheckedLedger ==
  ASSUME IInv, Ledger, UNCHANGED <<brk, dials, cleared>>, NEW p \in Callers, op[p].pc # "restart",
         NEW k \in Keys, Checked(p, k)
  PROVE  Ledger'
<1>0. op \in [Callers -> Locals] /\ op[p] \in Locals
  BY Zenon DEF IInv
<1>1. CASE Got(p, k, NoClient, "noClient")
  <2>1. Leaves(p)
    BY <1>0, <1>1, GotLeaves, Zenon DEF Leaves, Elsewhere, Places, Errors, AcquireErrors
  <2> QED BY <2>1, LeavesLedger, Zenon
<1>2. ASSUME NEW l \in {"ready", "reset", "find"}, l = "reset" => brk[k].expired,
             op' = [op EXCEPT ![p] = [op[p] EXCEPT !.k = k, !.pc = l]]
      PROVE  Ledger'
  <2> DEFINE o == [op[p] EXCEPT !.k = k, !.pc = l]
  <2>1. op' = [op EXCEPT ![p] = o] /\ o.pc = l /\ o.k = k /\ o.pc # "dial"
    BY <1>0, <1>2, Zenon DEF Locals
  <2> HIDE DEF o
  <2> QED BY <1>0, <1>2, <2>1, LedgerKept, Zenon
<1>3. \/ Got(p, k, NoClient, "noClient")
      \/ \E l \in {"ready", "reset", "find"} :
           (l = "reset" => brk[k].expired) /\ op' = [op EXCEPT ![p] = [op[p] EXCEPT !.k = k, !.pc = l]]
  <2>1. CASE isShutdown
    BY <2>1, Zenon DEF Checked
  <2>2. CASE ~isShutdown /\ ~brk[k].known
    BY <2>2, Zenon DEF Checked
  <2>3. CASE ~isShutdown /\ brk[k].known /\ brk[k].expired
    BY <2>3, Zenon DEF Checked
  <2>4. CASE ~isShutdown /\ brk[k].known /\ ~brk[k].expired
    BY <2>4, Zenon DEF Checked
  <2> QED BY <2>1, <2>2, <2>3, <2>4, Zenon
<1> QED BY <1>1, <1>2, <1>3, Zenon

\* What is cleared was at most Most.
LEMMA ResetFailuresLedger ==
  ASSUME IInv, BreakersOK, Ledger, NEW p \in Callers, ResetFailures(p)
  PROVE  Ledger'
<1> DEFINE k == op[p].k
           b == [brk[k] EXCEPT !.failures = 0]
           o == [op[p] EXCEPT !.pc = "restart"]
<1>0. op \in [Callers -> Locals] /\ op[p] \in Locals /\ k \in Keys /\ op[p].pc = "reset"
  BY Zenon DEF IInv, Locals, ResetFailures, At
<1>1. op' = [op EXCEPT ![p] = o] /\ o.pc = "restart" /\ o.k = k
  BY <1>0, Zenon DEF ResetFailures, Goto, Locals
<1>2. brk' = [brk EXCEPT ![k] = b] /\ cleared' = [cleared EXCEPT ![k] = cleared[k] \cup {p}] /\ UNCHANGED dials
  BY Zenon DEF ResetFailures
<1>3. b.failures = 0 /\ b.known = brk[k].known /\ b.expired = brk[k].expired
  BY <1>0, Zenon DEF BreakersOK, Breaker
<1> HIDE DEF b, o
<1>4. op'[p] = o /\ \A q \in Callers \ {p} : op'[q] = op[q]
  BY <1>0, <1>1, Zenon
<1>5. brk'[k] = b /\ \A j \in Keys \ {k} : brk'[j] = brk[j]
  BY <1>0, <1>2, Zenon DEF BreakersOK
<1>6. /\ cleared' \in [Keys -> SUBSET Callers] /\ dials' \in [Keys -> Nat]
      /\ cleared'[k] = cleared[k] \cup {p} /\ \A j \in Keys \ {k} : cleared'[j] = cleared[j]
  BY <1>0, <1>2, Zenon DEF Ledger
<1>7. \A q \in Callers : op[q].k \in Keys
  BY <1>0, Zenon DEF Locals
<1>8. \A q \in Callers : op'[q].pc = "reset" => q \notin cleared'[op'[q].k]
  <2>1. \A q \in Callers : op[q].pc = "reset" => q \notin cleared[op[q].k]
    BY Zenon DEF Ledger
  <2>2. \A q \in Callers \ {p} : \A j \in Keys : q \in cleared'[j] => q \in cleared[j]
    BY <1>6, Zenon
  <2>3. op'[p].pc # "reset"
    BY <1>1, <1>4, Zenon
  <2> QED BY <1>4, <1>7, <2>1, <2>2, <2>3, Zenon
<1>9. \A q \in Callers : op'[q].pc = "dial" /\ Stored(op'[q].k) => brk'[op'[q].k].known
  <2>1. \A q \in Callers : op[q].pc = "dial" /\ Stored(op[q].k) => brk[op[q].k].known
    BY Zenon DEF Ledger
  <2>2. \A j \in Keys : brk[j].known => brk'[j].known
    BY <1>3, <1>5, Zenon
  <2>3. op'[p].pc # "dial"
    BY <1>1, <1>4, Zenon
  <2> QED BY <1>4, <1>7, <2>1, <2>2, <2>3, Zenon
<1>10. ASSUME NEW j \in Keys, NEW q \in cleared'[j], brk'[j].expired PROVE op'[q].pc = "restart" /\ op'[q].k = j
  <2>1. CASE q = p /\ j = k
    BY <1>1, <1>4, <2>1, Zenon
  <2>2. CASE ~(q = p /\ j = k)
    <3>1. q \in cleared[j] /\ brk[j].expired /\ q \in Callers
      BY <1>3, <1>5, <1>6, <1>10, <2>2, Zenon
    <3>2. op[q].pc = "restart" /\ op[q].k = j
      BY <3>1, Zenon DEF Ledger
    <3>3. q # p
      BY <1>0, <3>2, Zenon
    <3> QED BY <1>4, <3>1, <3>2, <3>3, Zenon
  <2> QED BY <2>1, <2>2, Zenon
<1>11. ASSUME Threshold > 0, NEW j \in Keys PROVE dials'[j] <= Cardinality(cleared'[j]) * Most + brk'[j].failures
  <2>1. CASE j # k
    BY <1>2, <1>5, <1>6, <1>11, <2>1, Zenon DEF Ledger
  <2>2. CASE j = k
    <3>1. Cardinality(cleared'[k]) = Cardinality(cleared[k]) + 1
      <4>1. p \notin cleared[k] /\ IsFiniteSet(cleared[k])
        BY <1>0, MostCounts, Zenon DEF Ledger
      <4>2. Cardinality(cleared[k] \cup {p}) = Cardinality(cleared[k]) + 1
        BY <4>1, FS_AddElement, Zenon
      <4> QED BY <1>6, <4>2, Zenon
    <3>2. /\ dials[k] \in Nat /\ brk[k].failures \in Nat /\ Most \in Nat /\ Cardinality(cleared[k]) \in Nat
          /\ brk[k].failures <= Most /\ dials[k] <= Cardinality(cleared[k]) * Most + brk[k].failures
      BY <1>0, <1>11, MostCounts, Zenon DEF Ledger, BreakersOK, Breaker
    <3>3. ASSUME NEW d \in Nat, NEW n \in Nat, NEW f \in Nat, NEW m \in Nat, d <= n * m + f, f <= m
          PROVE  d <= (n + 1) * m + 0
      BY ONLY <3>3
    <3>4. dials[k] <= (Cardinality(cleared[k]) + 1) * Most + 0
      BY <3>2, <3>3, Zenon
    <3> QED BY <1>2, <1>3, <1>5, <2>2, <3>1, <3>4, Zenon
  <2> QED BY <2>1, <2>2, Zenon
<1> QED BY <1>6, <1>8, <1>9, <1>10, <1>11, Zenon DEF Ledger, Most, Stored

LEMMA ResetTimeLedger ==
  ASSUME IInv, BreakersOK, Ledger, NEW p \in Callers, ResetTime(p)
  PROVE  Ledger'
<1> DEFINE k == op[p].k
           b == [brk[k] EXCEPT !.expired = FALSE]
           o == [op[p] EXCEPT !.pc = "find"]
<1>0. op \in [Callers -> Locals] /\ op[p] \in Locals /\ k \in Keys /\ op[p].pc = "restart"
  BY Zenon DEF IInv, Locals, ResetTime, At
<1>1. op' = [op EXCEPT ![p] = o] /\ o.pc = "find" /\ UNCHANGED <<dials, cleared>>
  BY <1>0, Zenon DEF ResetTime, Goto, Locals
<1>2. brk' = [brk EXCEPT ![k] = b]
  BY Zenon DEF ResetTime
<1>3. b.failures = brk[k].failures /\ b.known = brk[k].known /\ b.expired = FALSE
  BY <1>0, Zenon DEF BreakersOK, Breaker
<1> HIDE DEF b, o
<1>4. op'[p] = o /\ \A q \in Callers \ {p} : op'[q] = op[q]
  BY <1>0, <1>1, Zenon
<1>5. brk'[k] = b /\ \A j \in Keys \ {k} : brk'[j] = brk[j]
  BY <1>0, <1>2, Zenon DEF BreakersOK
<1>7. \A q \in Callers : op[q].k \in Keys
  BY <1>0, Zenon DEF Locals
<1>8. \A q \in Callers : op'[q].pc = "reset" => q \notin cleared'[op'[q].k]
  <2>1. \A q \in Callers : op[q].pc = "reset" => q \notin cleared[op[q].k]
    BY Zenon DEF Ledger
  <2>2. op'[p].pc # "reset" /\ cleared' = cleared
    BY <1>1, <1>4, Zenon
  <2> QED BY <1>4, <2>1, <2>2, Zenon
<1>9. \A q \in Callers : op'[q].pc = "dial" /\ Stored(op'[q].k) => brk'[op'[q].k].known
  <2>1. \A q \in Callers : op[q].pc = "dial" /\ Stored(op[q].k) => brk[op[q].k].known
    BY Zenon DEF Ledger
  <2>2. \A j \in Keys : brk[j].known => brk'[j].known
    BY <1>3, <1>5, Zenon
  <2>3. op'[p].pc # "dial"
    BY <1>1, <1>4, Zenon
  <2> QED BY <1>4, <1>7, <2>1, <2>2, <2>3, Zenon
<1>10. ASSUME NEW j \in Keys, NEW q \in cleared'[j], brk'[j].expired PROVE op'[q].pc = "restart" /\ op'[q].k = j
  <2>1. j # k /\ q \in cleared[j] /\ brk[j].expired
    BY <1>1, <1>3, <1>5, <1>10, Zenon
  <2>2. q \in Callers /\ op[q].pc = "restart" /\ op[q].k = j
    BY <2>1, Zenon DEF Ledger
  <2> QED BY <1>4, <2>1, <2>2, Zenon
<1>11. Threshold > 0 => \A j \in Keys : dials'[j] <= Cardinality(cleared'[j]) * Most + brk'[j].failures
  BY <1>1, <1>3, <1>5, Zenon DEF Ledger
<1>12. dials' \in [Keys -> Nat] /\ cleared' \in [Keys -> SUBSET Callers]
  BY <1>1, Zenon DEF Ledger
<1> QED BY <1>8, <1>9, <1>10, <1>11, <1>12, Zenon DEF Ledger, Most, Stored

\* A connection that failed is counted twice, in dials and in failures.
LEMMA DialLedger ==
  ASSUME IInv, BreakersOK, Ledger, NEW p \in Callers, op[p].pc = "dial", Goto(p, "fail"), UNCHANGED cleared,
         brk' = [brk EXCEPT ![op[p].k].failures = @ + 1], dials' = [dials EXCEPT ![op[p].k] = @ + 1]
  PROVE  Ledger'
<1> DEFINE k == op[p].k
           b == [brk[k] EXCEPT !.failures = brk[k].failures + 1]
           o == [op[p] EXCEPT !.pc = "fail"]
<1>0. op \in [Callers -> Locals] /\ op[p] \in Locals /\ k \in Keys
  BY Zenon DEF IInv, Locals
<1>1. op' = [op EXCEPT ![p] = o] /\ o.pc = "fail"
  BY <1>0, Zenon DEF Goto, Locals
<1>2. brk' = [brk EXCEPT ![k] = b] /\ dials' = [dials EXCEPT ![k] = dials[k] + 1]
  BY Zenon
<1>3. b.failures = brk[k].failures + 1 /\ b.known = brk[k].known /\ b.expired = brk[k].expired
  BY <1>0, Zenon DEF BreakersOK, Breaker
<1> HIDE DEF b, o
<1>4. op'[p] = o /\ \A q \in Callers \ {p} : op'[q] = op[q]
  BY <1>0, <1>1, Zenon
<1>5. brk'[k] = b /\ \A j \in Keys \ {k} : brk'[j] = brk[j]
  BY <1>0, <1>2, Zenon DEF BreakersOK
<1>6. dials[k] \in Nat /\ dials[k] + 1 \in Nat
  <2>1. dials[k] \in Nat
    BY <1>0, Zenon DEF Ledger
  <2> QED BY <2>1
<1>7. /\ dials' \in [Keys -> Nat] /\ cleared' \in [Keys -> SUBSET Callers]
      /\ dials'[k] = dials[k] + 1 /\ \A j \in Keys \ {k} : dials'[j] = dials[j]
  <2>1. dials \in [Keys -> Nat] /\ cleared \in [Keys -> SUBSET Callers]
    BY Zenon DEF Ledger
  <2> QED BY <1>0, <1>2, <1>6, <2>1, Zenon
<1>8. \A q \in Callers : op[q].k \in Keys
  BY <1>0, Zenon DEF Locals
<1>9. \A q \in Callers : op'[q].pc = "reset" => q \notin cleared'[op'[q].k]
  <2>1. \A q \in Callers : op[q].pc = "reset" => q \notin cleared[op[q].k]
    BY Zenon DEF Ledger
  <2>2. op'[p].pc # "reset" /\ cleared' = cleared
    BY <1>1, <1>4, Zenon
  <2> QED BY <1>4, <2>1, <2>2, Zenon
<1>10. \A q \in Callers : op'[q].pc = "dial" /\ Stored(op'[q].k) => brk'[op'[q].k].known
  <2>1. \A q \in Callers : op[q].pc = "dial" /\ Stored(op[q].k) => brk[op[q].k].known
    BY Zenon DEF Ledger
  <2>2. \A j \in Keys : brk[j].known => brk'[j].known
    BY <1>3, <1>5, Zenon
  <2>3. op'[p].pc # "dial"
    BY <1>1, <1>4, Zenon
  <2> QED BY <1>4, <1>8, <2>1, <2>2, <2>3, Zenon
<1>11. ASSUME NEW j \in Keys, NEW q \in cleared'[j], brk'[j].expired PROVE op'[q].pc = "restart" /\ op'[q].k = j
  <2>1. q \in cleared[j] /\ brk[j].expired
    BY <1>3, <1>5, <1>11, Zenon
  <2>2. q \in Callers /\ op[q].pc = "restart" /\ op[q].k = j
    BY <2>1, Zenon DEF Ledger
  <2>3. q # p
    BY <2>2, Zenon
  <2> QED BY <1>4, <2>2, <2>3, Zenon
<1>12. ASSUME Threshold > 0, NEW j \in Keys PROVE dials'[j] <= Cardinality(cleared'[j]) * Most + brk'[j].failures
  <2>1. CASE j # k
    BY <1>5, <1>7, <1>12, <2>1, Zenon DEF Ledger
  <2>2. CASE j = k
    <3>1. brk[k].failures \in Nat /\ Most \in Nat /\ Cardinality(cleared[k]) \in Nat
      BY <1>0, <1>12, MostCounts, Zenon DEF BreakersOK, Breaker
    <3>2. dials[k] <= Cardinality(cleared[k]) * Most + brk[k].failures
      BY <1>0, <1>12, Zenon DEF Ledger
    <3>3. ASSUME NEW d \in Nat, NEW n \in Nat, NEW f \in Nat, NEW m \in Nat, d <= n * m + f
          PROVE  d + 1 <= n * m + (f + 1)
      BY ONLY <3>3
    <3>4. dials[k] + 1 <= Cardinality(cleared[k]) * Most + (brk[k].failures + 1)
      BY <1>6, <3>1, <3>2, <3>3, Zenon
    <3> QED BY <1>3, <1>5, <1>7, <2>2, <3>4, Zenon
  <2> QED BY <2>1, <2>2, Zenon
<1> QED BY <1>7, <1>9, <1>10, <1>11, <1>12, Zenon DEF Ledger, Most, Stored

LEMMA AcquireLedger == ASSUME IInv, BreakersOK, Ledger, NEW p \in Callers, Acquire(p) PROVE Ledger'
<1>0. op \in [Callers -> Locals] /\ op[p] \in Locals /\ op[p].k \in Keys
  BY Zenon DEF IInv, Locals
<1>1. ASSUME op[p].pc # "restart", UNCHANGED brkVars, Leaves(p) PROVE Ledger'
  BY <1>1, LeavesLedger, Zenon DEF brkVars
<1>2. ASSUME NEW k \in Keys, NEW c \in Clients \cup {NoClient}, NEW r \in {"nil", "noClient"}, Got(p, k, c, r)
      PROVE  Leaves(p)
  BY <1>0, <1>2, GotLeaves, Zenon DEF Leaves, Elsewhere, Places, Errors, AcquireErrors, Outcomes
<1>3. CASE Select(p)
  <2>1. UNCHANGED brkVars /\ op[p].pc # "restart" /\ NoServer \in Keys /\ listed \subseteq Keys
    BY <1>3, Zenon DEF Select, At, Keys, IInv
  <2>2. CASE Got(p, NoServer, NoClient, "noClient")
    BY <1>1, <1>2, <2>1, <2>2, Zenon
  <2>3. ASSUME NEW k \in listed, Checked(p, k) PROVE Ledger'
    BY <2>1, <2>3, CheckedLedger, Zenon DEF brkVars
  <2> QED BY <1>3, <2>2, <2>3, Zenon DEF Select
<1>4. CASE Check(p)
  BY <1>0, <1>4, CheckedLedger, Zenon DEF Check, At, brkVars
<1>5. CASE ResetFailures(p)
  BY <1>5, ResetFailuresLedger, Zenon
<1>6. CASE ResetTime(p)
  BY <1>6, ResetTimeLedger, Zenon
<1>7. ASSUME NEW l \in {"find", "generate"}, Goto(p, l), op[p].pc # "restart", UNCHANGED brkVars PROVE Ledger'
  <2> DEFINE o == [op[p] EXCEPT !.pc = l]
  <2>1. op' = [op EXCEPT ![p] = o] /\ o.pc # "reset" /\ o.pc # "dial"
    BY <1>0, <1>7, Zenon DEF Goto, Locals
  <2> HIDE DEF o
  <2> QED BY <1>0, <1>7, <2>1, LedgerKept, Zenon DEF brkVars
<1>8. CASE Ready(p)
  <2>1. UNCHANGED brkVars /\ op[p].pc # "restart"
    BY <1>8, Zenon DEF Ready, At
  <2> QED BY <1>0, <1>1, <1>2, <1>7, <1>8, <2>1, Zenon DEF Ready
<1>9. CASE Find(p)
  <2>1. UNCHANGED brkVars /\ op[p].pc # "restart"
    BY <1>9, Zenon DEF Find, At
  <2>2. findCachedClient(op[p].k) \in Clients \cup {NoClient}
    BY <1>0, Zenon DEF findCachedClient, IInv, CacheOK
  <2>3. Got(p, op[p].k, findCachedClient(op[p].k), "nil") \/ Goto(p, "generate")
    BY <1>9, Zenon DEF Find
  <2> QED BY <1>0, <1>1, <1>2, <1>7, <2>1, <2>2, <2>3, Zenon
<1>10. CASE Set(p)
  <2>1. UNCHANGED brkVars /\ op[p].pc # "restart" /\ op[p].cl \in Clients \cup {NoClient}
    BY <1>0, <1>10, Zenon DEF Set, At, Locals
  <2> QED BY <1>0, <1>1, <1>2, <1>10, <2>1, Zenon DEF Set
<1>11. ASSUME NEW k \in Keys, LoadOrStore(k), op[p].pc # "restart", NEW o, op' = [op EXCEPT ![p] = o],
              o.pc = "dial", o.k = k
       PROVE  Ledger'
  <2> DEFINE b == [brk[k] EXCEPT !.known = TRUE]
  <2>1. brk' = (IF Stored(k) THEN [brk EXCEPT ![k] = b] ELSE brk) /\ UNCHANGED <<dials, cleared>>
    BY <1>11, Zenon DEF LoadOrStore
  <2>2. b.known /\ b.failures = brk[k].failures /\ b.expired = brk[k].expired
    BY Zenon DEF BreakersOK, Breaker
  <2> HIDE DEF b
  <2>3. /\ Stored(k) => brk'[k].known
        /\ \A j \in Keys : /\ brk'[j].failures = brk[j].failures
                           /\ brk'[j].expired => brk[j].expired
                           /\ brk[j].known => brk'[j].known
    BY <2>1, <2>2, Zenon DEF BreakersOK
  <2>4. o.pc # "reset"
    BY <1>11, Zenon
  <2> QED BY <1>0, <1>11, <2>1, <2>3, <2>4, LedgerKept, Zenon
<1>12. CASE Generate(p)
  <2> DEFINE o == [op[p] EXCEPT !.pc = "dial"]
  <2>1. op' = [op EXCEPT ![p] = o] /\ o.pc = "dial" /\ o.k = op[p].k
    BY <1>0, <1>12, Zenon DEF Generate, Goto, Locals
  <2> HIDE DEF o
  <2>2. op[p].pc # "restart" /\ LoadOrStore(op[p].k)
    BY <1>12, Zenon DEF Generate, At
  <2> QED BY <1>0, <1>11, <2>1, <2>2, Zenon
<1>13. CASE Sweep(p)
  <2>0. op[p].pc # "restart" /\ listed \subseteq Keys
    BY <1>13, Zenon DEF Sweep, At, IInv, Keys
  <2>1. CASE Return(p, "noClient") /\ UNCHANGED brkVars
    <3>1. op' = [op EXCEPT ![p] = Ended("noClient")] /\ Ended("noClient").pc = "returned"
      BY <2>1, Zenon DEF Return, Become, Ended, Idle
    <3>2. Leaves(p)
      BY <3>1, Zenon DEF Leaves, Elsewhere, Places
    <3> QED BY <1>1, <2>0, <2>1, <3>2, Zenon
  <2>3. ASSUME NEW k \in Keys, NEW d, op' = [op EXCEPT ![p].pc = "attempt", ![p].at = "end", ![p].k = k, ![p].cl = d],
               UNCHANGED brkVars
        PROVE  Ledger'
    <3> DEFINE o == [op[p] EXCEPT !.pc = "attempt", !.at = "end", !.k = k, !.cl = d]
    <3>1. op' = [op EXCEPT ![p] = o] /\ o.pc = "attempt"
      BY <1>0, <2>3, Zenon DEF Locals
    <3> HIDE DEF o
    <3>2. Leaves(p)
      BY <3>1, Zenon DEF Leaves, Elsewhere, Places
    <3> QED BY <1>1, <2>0, <2>3, <3>2, Zenon
  <2>4. ASSUME NEW k \in Keys, NEW d, op' = [op EXCEPT ![p].pc = "dial", ![p].at = "end", ![p].k = k, ![p].cl = d],
               LoadOrStore(k)
        PROVE  Ledger'
    <3> DEFINE o == [op[p] EXCEPT !.pc = "dial", !.at = "end", !.k = k, !.cl = d]
    <3>1. op' = [op EXCEPT ![p] = o] /\ o.pc = "dial" /\ o.k = k
      BY <1>0, <2>4, Zenon DEF Locals
    <3> HIDE DEF o
    <3> QED BY <1>11, <2>0, <2>4, <3>1, Zenon
  <2> QED BY <1>13, <2>0, <2>1, <2>3, <2>4, Zenon DEF Sweep
<1>14. CASE Dial(p)
  <2>0. op[p].pc = "dial" /\ op[p].pc # "restart"
    BY <1>14, Zenon DEF Dial, At
  <2>1. ASSUME NEW c, NEW l \in {"attempt", "set"}, op' = [op EXCEPT ![p].pc = l, ![p].cl = c], UNCHANGED brkVars
        PROVE  Ledger'
    <3> DEFINE o == [op[p] EXCEPT !.pc = l, !.cl = c]
    <3>1. op' = [op EXCEPT ![p] = o] /\ o.pc = l
      BY <1>0, <2>1, Zenon DEF Locals
    <3> HIDE DEF o
    <3>2. Leaves(p)
      BY <3>1, Zenon DEF Leaves, Elsewhere, Places
    <3> QED BY <1>1, <2>0, <2>1, <3>2, Zenon
  <2>2. CASE ConnectFails(p) /\ Stored(op[p].k)
    BY <2>0, <2>2, DialLedger, Zenon DEF ConnectFails
  <2>3. CASE ConnectFails(p) /\ ~Stored(op[p].k)
    <3>1. UNCHANGED brkVars /\ NotMade(p)
      BY <2>3, Zenon DEF ConnectFails, brkVars
    <3> QED BY <1>1, <2>0, <3>1, NotMadeLeaves, Zenon
  <2> QED BY <1>14, <2>1, <2>2, <2>3, Zenon DEF Dial, Connect
<1>15. CASE FailTime(p)
  <2> DEFINE b == [brk[op[p].k] EXCEPT !.expired = FALSE]
  <2>1. /\ brk' = [brk EXCEPT ![op[p].k] = b] /\ Leaves(p) /\ op[p].pc # "restart"
        /\ UNCHANGED <<dials, cleared>>
    BY <1>15, NotMadeLeaves, Zenon DEF FailTime, At
  <2>2. b.failures = brk[op[p].k].failures /\ b.known = brk[op[p].k].known /\ b.expired = FALSE
    BY <1>0, Zenon DEF BreakersOK, Breaker
  <2> HIDE DEF b
  <2>3. \A j \in Keys : /\ brk'[j].failures = brk[j].failures
                        /\ brk'[j].expired => brk[j].expired
                        /\ brk[j].known => brk'[j].known
    BY <1>0, <2>1, <2>2, Zenon DEF BreakersOK
  <2> QED BY <2>1, <2>3, LeavesLedger, Zenon
<1> QED
  BY <1>3, <1>4, <1>5, <1>6, <1>8, <1>9, <1>10, <1>12, <1>13, <1>14, <1>15, Zenon DEF Acquire

LEMMA OtherLedger == ASSUME IInv, Ledger, NEW p \in Callers, Other(p) PROVE Ledger'
<1>0. op \in [Callers -> Locals] /\ op[p] \in Locals /\ UNCHANGED <<brk, dials, cleared>>
  BY OtherSame, Zenon DEF IInv
<1>1. op[p].pc # "restart"
  BY Zenon DEF Other, Proceed, Backup, AttemptCall, AttemptRaw, Tried, Remove, CloseRemoved, Go, Sent, Receive,
     ContextDone, BackupLatency, Call, SendRaw, Inform, Begin, At
<1>2. CASE Leaves(p)
  BY <1>0, <1>1, <1>2, LeavesLedger, Zenon
<1>3. CASE Goto(p, "sweep")
  <2> DEFINE o == [op[p] EXCEPT !.pc = "sweep"]
  <2>1. op' = [op EXCEPT ![p] = o] /\ o.pc # "reset" /\ o.pc # "dial"
    BY <1>0, <1>3, Zenon DEF Goto, Locals
  <2> HIDE DEF o
  <2> QED BY <1>0, <1>1, <2>1, LedgerKept, Zenon
<1> QED BY <1>2, <1>3, OtherLeaves, Zenon DEF Other

LEMMA WorldLedger ==
  ASSUME IInv, BreakersOK, Ledger,
         \/ Close \/ Update \/ (\E c \in Clients : ConnLost(c)) \/ (\E k \in Keys : WindowPasses(k))
         \/ UNCHANGED vars
  PROVE  Ledger'
<1>1. CASE UNCHANGED <<op, brk, dials, cleared>>
  BY <1>1, Zenon DEF Ledger, Most, Stored
<1>2. ASSUME NEW k \in Keys, WindowPasses(k) PROVE Ledger'
  <2> DEFINE b == [brk[k] EXCEPT !.expired = TRUE]
  <2>1. /\ brk' = [brk EXCEPT ![k] = b] /\ dials' = [dials EXCEPT ![k] = 0]
        /\ cleared' = [cleared EXCEPT ![k] = {}] /\ UNCHANGED op
    BY <1>2, Zenon DEF WindowPasses
  <2>2. b.failures = brk[k].failures /\ b.known = brk[k].known /\ b.failures \in Nat
    BY Zenon DEF BreakersOK, Breaker
  <2> HIDE DEF b
  <2>3. brk'[k] = b /\ \A j \in Keys \ {k} : brk'[j] = brk[j]
    BY <2>1, Zenon DEF BreakersOK
  <2>4. /\ dials' \in [Keys -> Nat] /\ dials'[k] = 0 /\ \A j \in Keys \ {k} : dials'[j] = dials[j]
    <3>1. 0 \in Nat
      OBVIOUS
    <3> QED BY <2>1, <3>1, Zenon DEF Ledger
  <2>5. /\ cleared' \in [Keys -> SUBSET Callers] /\ cleared'[k] = {}
        /\ \A j \in Keys \ {k} : cleared'[j] = cleared[j]
    BY <2>1, Zenon DEF Ledger
  <2>0. \A q \in Callers : op[q].k \in Keys
    BY Zenon DEF IInv, Locals
  <2>6. \A q \in Callers : op'[q].pc = "reset" => q \notin cleared'[op'[q].k]
    BY <2>0, <2>1, <2>5, Zenon DEF Ledger
  <2>7. \A q \in Callers : op'[q].pc = "dial" /\ Stored(op'[q].k) => brk'[op'[q].k].known
    <3>1. \A q \in Callers : op[q].pc = "dial" /\ Stored(op[q].k) => brk[op[q].k].known
      BY Zenon DEF Ledger
    <3>2. \A j \in Keys : brk[j].known => brk'[j].known
      BY <2>2, <2>3, Zenon
    <3> QED BY <2>0, <2>1, <3>1, <3>2, Zenon
  <2>8. \A j \in Keys : \A q \in cleared'[j] : brk'[j].expired => op'[q].pc = "restart" /\ op'[q].k = j
    BY <2>1, <2>3, <2>5, Zenon DEF Ledger
  <2>9. ASSUME Threshold > 0, NEW j \in Keys PROVE dials'[j] <= Cardinality(cleared'[j]) * Most + brk'[j].failures
    <3>1. CASE j # k
      BY <2>3, <2>4, <2>5, <2>9, <3>1, Zenon DEF Ledger
    <3>2. CASE j = k
      <4>1. Cardinality(cleared'[k]) = 0 /\ Most \in Nat
        BY <2>5, <2>9, MostCounts, FS_EmptySet, Zenon
      <4>2. \A m \in Nat, f \in Nat : 0 <= 0 * m + f
        BY ONLY TRUE
      <4> QED BY <2>2, <2>3, <2>4, <3>2, <4>1, <4>2, Zenon
    <3> QED BY <3>1, <3>2, Zenon
  <2> QED BY <2>4, <2>5, <2>6, <2>7, <2>8, <2>9, Zenon DEF Ledger, Most, Stored
<1> QED BY <1>1, <1>2, Zenon DEF Close, Update, ConnLost, vars, brkVars

\* Connections to a server fail at most Threshold - 1 + |Callers| times from one
\* passing of the breaker's window to the next, and as often again for each
\* goroutine that cleared the count.
THEOREM BreakersHold == Spec => []BreakerHolds
<1>1. Init => BreakersOK /\ Ledger
  <2>1. ASSUME Init PROVE BreakersOK /\ Ledger
    <3>1. /\ brk \in [Keys -> Breaker] /\ \A k \in Keys : brk[k].failures = 0
          /\ dials \in [Keys -> Nat] /\ cleared \in [Keys -> SUBSET Callers]
      BY <2>1, Zenon DEF Init, Breaker
    <3>2. \A k \in Keys : dials[k] = 0 /\ cleared[k] = {}
      BY <2>1, Zenon DEF Init
    <3>3. \A p \in Callers : op[p].pc = "start"
      BY <2>1, Zenon DEF Init, Idle
    <3>4. Threshold > 0 =>
            \A k \in Keys : brk[k].failures + Cardinality(MayFail(k)) <= Threshold - 1 + Cardinality(Callers)
      BY <3>1, CountMayFail, XClientConstants
    <3>5. \A k \in Keys : dials[k] <= Cardinality(cleared[k]) * Most + brk[k].failures
      <4>1. Most \in Int
        BY CountMayFail, XClientConstants DEF Most
      <4>2. \A m \in Int : 0 <= 0 * m + 0
        BY ONLY TRUE
      <4> QED BY <3>1, <3>2, <4>1, <4>2, FS_EmptySet, Zenon
    <3>6. BreakersOK
      BY <3>1, <3>4, Zenon DEF BreakersOK
    <3>7. Ledger
      BY <3>1, <3>2, <3>3, <3>5, Zenon DEF Ledger
    <3> QED BY <3>6, <3>7, Zenon
  <2> QED BY <2>1, Zenon
<1>2. IInv /\ BreakersOK /\ Ledger /\ [Next]_vars => BreakersOK'
  BY AcquireBreaker, OtherBreaker, WorldBreaker, Zenon DEF Next, Other
<1>3. IInv /\ BreakersOK /\ Ledger /\ [Next]_vars => Ledger'
  BY AcquireLedger, OtherLedger, WorldLedger, Zenon DEF Next, Other
<1>4. BreakersOK /\ Ledger => BreakerHolds
  <2> SUFFICES ASSUME BreakersOK, Ledger, NEW k \in Keys, Threshold > 0
               PROVE  dials[k] <= (Cardinality(cleared[k]) + 1) * Most
    BY Zenon DEF BreakerHolds, Most
  <2>1. dials[k] \in Nat /\ Cardinality(cleared[k]) \in Nat /\ brk[k].failures \in Nat /\ Most \in Nat
    BY MostCounts, Zenon DEF Ledger, BreakersOK, Breaker
  <2>2. dials[k] <= Cardinality(cleared[k]) * Most + brk[k].failures /\ brk[k].failures <= Most
    BY MostCounts, Zenon DEF Ledger
  <2>3. ASSUME NEW d \in Nat, NEW n \in Nat, NEW f \in Nat, NEW m \in Nat, d <= n * m + f, f <= m
        PROVE  d <= (n + 1) * m
    BY ONLY <2>3
  <2> QED BY <2>1, <2>2, <2>3, Zenon
<1> QED BY <1>1, <1>2, <1>3, <1>4, Invariance, PTL DEF Spec
=============================================================================
