-------------------------- MODULE MembershipProofs --------------------------
(***************************************************************************)
(* Proofs about Membership for every set of services, every list the user  *)
(* may give to Update, every number of retries, of faults and of           *)
(* publications, and every size of the watcher's channel: that a live      *)
(* server stays registered, when an xClient uses the list of its           *)
(* discovery, and when a watch gives up.                                   *)
(***************************************************************************)
EXTENDS Membership, Sequences, TLAPS
-----------------------------------------------------------------------------
(* The registry *)

RegTypes ==
  /\ interval \in {0, 1} /\ services \in SUBSET Names
  /\ user \in [pc : {"new", "idle", "create", "append", "unregister", "stop", "dying", "wait", "stopped"},
               left : SUBSET Names]
  /\ refresh \in [pc : {"off", "select", "pass", "done"}, left : SUBSET Names]
  /\ age \in [Names -> {Absent, Forever, 0, 1}]
  /\ faults \in Nat /\ tick \in BOOLEAN /\ alive \in BOOLEAN

\* The user has deleted the node of n and not yet said so in p.Services.
Deleted(n) ==
  \/ user.pc \in {"create", "unregister"} /\ n \in user.left
  \/ user.pc \in {"stop", "wait", "stopped"}

\* Names are registered between Start and the end, Register has just written the
\* node of the name it is to append, the refresh goroutine runs with an interval in
\* a live process, and while the store has answered, a node in its last interval is
\* about to be written again.
Refreshed ==
  /\ user.pc = "new" => services = {} /\ refresh.pc = "off"
  /\ user.pc = "create" => \A n, m \in user.left : n = m
  /\ user.pc = "append" => \A n \in user.left : age[n] \in {0, Forever}
  /\ xc # "never" => services = {} /\ user.pc = "new"
  /\ refresh.pc \in {"select", "pass"} => alive /\ interval = 1
  /\ refresh.pc \in {"select", "pass"} /\ faults = 0 =>
       \A n \in services :
         /\ age[n] = Absent => Deleted(n)
         /\ age[n] = 1 => tick \/ (refresh.pc = "pass" /\ n \in refresh.left)

RegInv == RegTypes /\ Refreshed
-----------------------------------------------------------------------------
(* Discovery *)

Nodes == {D!Nothing, {}, {Address}} \cup Updates
Lists == [n : Nat, s : Nodes]

DisTypes ==
  /\ retries \in Int
  /\ w \in [pc : {"begin", "loop", "watch", "read", "notify", "deaf", "pairs", "gone"}, retry : Int, first : Int,
            same : BOOLEAN, failed : Nat, breaks : Nat, seen : Nodes, stop : BOOLEAN]
  /\ pairs \in Lists /\ sends \in SUBSET Lists /\ ch \in Seq(Lists)
  /\ servers \in [n : Nat, s : {D!Filter(s) : s \in Nodes} \cup {{}}]

\* The last list published: Update tells the watchers before it sets d.pairs.
Latest == IF w.pc = "pairs" THEN [n |-> pairs.n + 1, s |-> w.seen] ELSE pairs

\* No list is newer than the last one, and that one has one content.
Older(l) == l.n <= Latest.n /\ (l.n = Latest.n => l = Latest)
Numbered ==
  xc # "never" =>
    /\ \A l \in sends : Older(l)
    /\ \A i \in DOMAIN ch : Older(ch[i])
    /\ servers.n <= Latest.n
    /\ xc # "none" /\ servers.n = Latest.n => servers.s = D!Filter(Latest.s)

\* A watching xClient has the last list, or it is on its way, or it is lost.
OnItsWay ==
  /\ xc \in {"watching", "removing"} => watched
  /\ chClosed => xc = "closed"
  /\ xc = "watching" =>
       \/ servers.n = Latest.n \/ Latest.n \in lost \/ w.pc = "notify"
       \/ Latest \in sends \/ \E i \in DOMAIN ch : ch[i] = Latest

\* Each failure takes at most one from retry; with the field left alone it takes
\* exactly one, unless the field is 0.
Tried ==
  /\ w.failed >= w.first + 1 \/ w.failed + w.retry >= w.first
  /\ w.same => retries = w.first
  /\ w.same /\ w.first = 0 => w.retry = 0
  /\ w.same /\ w.first > 0 => w.retry + w.failed = w.first /\ w.retry >= IF w.pc = "watch" THEN 0 ELSE -1

Counted ==
  /\ w.pc \in {"begin", "read", "notify", "pairs"} => w.failed = 0 /\ w.same
  /\ w.pc \in {"loop", "watch"} => Tried
  /\ IF kind = "consul" THEN w.pc # "pairs" ELSE w.pc \in {"begin", "pairs"}

DisInv == DisTypes /\ Numbered /\ OnItsWay /\ Counted
-----------------------------------------------------------------------------
(* The registry's steps *)

\* Start, and Start when the store cannot be reached.
LEMMA RegStart ==
  ASSUME RegInv, xc = "never", xc' = xc, Start \/ StartFails
  PROVE  RegInv'
<1>1. CASE Start
  <2>1. RegTypes'
    BY <1>1, Zenon DEF Start, Go, RegInv, RegTypes
  <2>2. services' = {} /\ user'.pc = "idle" /\ (refresh'.pc \in {"select", "pass"} => interval' = 1)
    BY <1>1 DEF Start, UserAt, Go, RegInv, RegTypes, Refreshed
  <2>3. alive'
    BY <1>1, Zenon DEF Start, UserAt
  <2> QED
    BY <2>1, <2>2, <2>3, Zenon DEF RegInv, Refreshed
<1>2. CASE StartFails
  <2>1. RegTypes'
    BY <1>2 DEF StartFails, Go, Fault, RegInv, RegTypes
  <2>2. user'.pc = "idle" /\ refresh'.pc = "off"
    BY <1>2, Zenon DEF StartFails, UserAt, Go, RegInv, Refreshed
  <2> QED
    BY <2>1, <2>2, Zenon DEF RegInv, Refreshed
<1> QED
  BY <1>1, <1>2, Zenon

\* The refresh goroutine and the clock.
LEMMA RegRefresh ==
  ASSUME RegInv, xc = "never", xc' = xc, RefreshStep \/ Interval
  PROVE  RegInv'
<1>1. CASE Tick
  <2>1. RegTypes'
    BY <1>1, Zenon DEF Tick, RegInv, RegTypes
  <2>2. /\ UNCHANGED <<interval, services, user, age, alive, faults>>
        /\ refresh.pc = "select" /\ user.pc # "new"
        /\ refresh'.left = services
        /\ refresh'.pc = IF services = {} THEN "select" ELSE "pass"
    BY <1>1, Zenon DEF Tick, RegInv, Refreshed
  <2> QED
    BY <2>1, <2>2, Zenon DEF RegInv, Refreshed, Deleted
<1>2. CASE RefreshEnds
  <2>1. RegTypes'
    BY <1>2, Zenon DEF RefreshEnds, RegInv, RegTypes
  <2>2. refresh'.pc = "done" /\ UNCHANGED <<user, age>> /\ user.pc # "new"
    BY <1>2, Zenon DEF RefreshEnds, RegInv, Refreshed
  <2> QED
    BY <2>1, <2>2, Zenon DEF RegInv, Refreshed
<1>3. ASSUME NEW m \in Names, RefreshNode(m) PROVE RegInv'
  <2>1. /\ UNCHANGED <<interval, services, user, tick, alive>>
        /\ refresh.pc = "pass" /\ interval = 1 /\ user.pc # "new"
        /\ refresh'.left = refresh.left \ {m} /\ refresh'.pc \in {"select", "pass"}
        /\ refresh'.pc = "select" => refresh'.left = {}
    BY <1>3, Zenon DEF RefreshNode, RegInv, Refreshed
  <2>2. RegTypes'
    BY <1>3 DEF RefreshNode, Rewrite, Put, Fault, RegInv, RegTypes, Forever
  <2>3. faults' = 0 => faults = 0 /\ age' = [age EXCEPT ![m] = 0]
    BY <1>3, <2>1 DEF RefreshNode, Rewrite, Put, Fault, RegInv, RegTypes
  <2>4. ASSUME NEW n \in services, faults' = 0
        PROVE  /\ age'[n] = Absent => Deleted(n)
               /\ age'[n] = 1 => tick \/ (refresh'.pc = "pass" /\ n \in refresh'.left)
    <3>1. n \in Names /\ age \in [Names -> {Absent, Forever, 0, 1}]
      BY Zenon DEF RegInv, RegTypes
    <3>2. CASE n = m
      BY <2>3, <2>4, <3>1, <3>2 DEF Absent
    <3>3. CASE n # m
      <4>1. age'[n] = age[n] /\ faults = 0
        BY <2>3, <2>4, <3>1, <3>3, Zenon
      <4> QED
        BY <2>1, <3>3, <4>1, Zenon DEF RegInv, Refreshed
    <3> QED
      BY <3>2, <3>3, Zenon
  <2>5. user.pc = "append" => \A n \in user.left : age'[n] \in {0, Forever}
    <3>1. \A n \in Names : age'[n] = age[n] \/ age'[n] \in {0, Forever}
      BY <1>3 DEF RefreshNode, Rewrite, Put, Fault, RegInv, RegTypes
    <3>2. user.left \subseteq Names /\ (user.pc = "append" => \A n \in user.left : age[n] \in {0, Forever})
      BY Zenon DEF RegInv, RegTypes, Refreshed
    <3> QED BY <3>1, <3>2, Zenon
  <2> QED
    BY <2>1, <2>2, <2>4, <2>5, Zenon DEF RegInv, Refreshed, Deleted
<1>4. CASE Interval
  <2>1. /\ UNCHANGED <<services, user, refresh, interval, alive, faults>>
        /\ interval = 1 /\ user.pc # "append"
    BY <1>4 DEF Interval, RegInv, RegTypes
  <2>2. age' \in [Names -> {Absent, Forever, 0, 1}]
    BY <1>4 DEF Interval, RegInv, RegTypes, Absent, Forever, TTL
  <2>3. tick' \in BOOLEAN /\ (alive /\ refresh.pc = "select" => tick')
    BY <1>4, Zenon DEF Interval
  <2>4. alive => refresh.pc # "pass" /\ ~tick
    BY <1>4, Zenon DEF Interval
  <2>5. RegTypes'
    BY <2>1, <2>2, <2>3, Zenon DEF RegInv, RegTypes
  <2>6. ASSUME NEW n \in services, faults = 0, refresh.pc \in {"select", "pass"}
        PROVE  tick' /\ (age'[n] = Absent => Deleted(n))
    <3>1. alive /\ (age[n] = Absent => Deleted(n))
          /\ (age[n] = 1 => tick \/ (refresh.pc = "pass" /\ n \in refresh.left))
      BY <2>6, Zenon DEF RegInv, Refreshed
    <3>2. refresh.pc = "select" /\ tick'
      BY <2>3, <2>4, <2>6, <3>1, Zenon
    <3>3. age[n] # 1
      BY <2>4, <3>1, <3>2, Zenon
    <3>4. n \in Names /\ age[n] \in {Absent, Forever, 0, 1}
      BY Zenon DEF RegInv, RegTypes
    <3>5. age'[n] = Absent => age[n] = Absent
      BY <1>4, <3>3, <3>4 DEF Interval, Absent, Forever, TTL
    <3> QED
      BY <3>1, <3>2, <3>5, Zenon
  <2> QED
    BY <2>1, <2>5, <2>6, Zenon DEF RegInv, Refreshed, Deleted
<1> QED
  BY <1>1, <1>2, <1>3, <1>4, Zenon DEF RefreshStep

\* What is left of a step of the user once its effect on every name is known:
\* the node is as before and no longer spoken for, or new, or deleted.
LEMMA UserKeeps ==
  ASSUME RegInv, xc = "never", xc' = xc, RegTypes', user.pc # "new", user'.pc # "new",
         user'.pc = "create" => \A n, m \in user'.left : n = m,
         user'.pc = "append" => \A n \in user'.left : age'[n] \in {0, Forever},
         UNCHANGED <<refresh, tick, alive, interval>>,
         faults' = 0 => faults = 0 /\ \A n \in services' :
           \/ n \in services /\ age'[n] = age[n] /\ (age[n] = Absent /\ Deleted(n) => Deleted(n)')
           \/ age'[n] \in {0, Forever}
           \/ age'[n] = Absent /\ Deleted(n)'
  PROVE  RegInv'
<1>1. ASSUME NEW n \in services', faults' = 0, refresh.pc \in {"select", "pass"}
      PROVE  /\ age'[n] = Absent => Deleted(n)'
             /\ age'[n] = 1 => tick \/ (refresh.pc = "pass" /\ n \in refresh.left)
  BY <1>1 DEF RegInv, Refreshed, Absent, Forever
<1> QED
  BY <1>1, Zenon DEF RegInv, Refreshed

\* Register, which writes the node and appends the name, Unregister and Stop.
LEMMA RegUser ==
  ASSUME RegInv, xc = "never", xc' = xc,
         UserStep \/ Stop \/ \E n \in Names : Register(n) \/ RegisterDelete(n) \/ Unregister(n)
  PROVE  RegInv'
<1>0. faults \in Nat /\ age \in [Names -> {Absent, Forever, 0, 1}] /\ services \subseteq Names
  BY Zenon DEF RegInv, RegTypes
<1>1. ASSUME NEW m \in Names, Register(m) PROVE RegInv'
  <2>1. RegTypes' /\ UNCHANGED <<services, refresh, tick, alive, interval>> /\ user.pc = "idle"
    BY <1>1 DEF Register, MayRegister, UserAt, Go, Put, Fault, RegInv, RegTypes
  <2>2. CASE Put(m) /\ Go("append", {m}) /\ UNCHANGED faults
    <3>1. /\ user'.pc = "append" /\ user'.left = {m}
          /\ age'[m] \in {0, Forever} /\ \A n \in Names \ {m} : age'[n] = age[n]
      BY <1>0, <2>2, Zenon DEF Put, Go
    <3> QED
      BY <1>0, <2>1, <2>2, <3>1, UserKeeps, Zenon DEF Deleted
  <2>3. CASE Fault /\ UNCHANGED <<age, user>>
    <3>1. faults' # 0
      BY <1>0, <2>3 DEF Fault
    <3>2. user'.pc = "idle"
      BY <2>1, <2>3, Zenon
    <3> QED
      BY <2>1, <3>1, <3>2, UserKeeps, Zenon
  <2> QED
    BY <1>1, <2>2, <2>3, Zenon DEF Register
<1>2. ASSUME NEW m \in Names, RegisterDelete(m) PROVE RegInv'
  <2>1. RegTypes'
    BY <1>2, Zenon DEF RegisterDelete, MayRegister, Go, Remove, RegInv, RegTypes
  <2>2. /\ UNCHANGED <<services, refresh, tick, alive, interval, faults>> /\ user.pc = "idle"
        /\ user'.pc = "create" /\ user'.left = {m} /\ age'[m] = Absent
        /\ \A n \in Names \ {m} : age'[n] = age[n]
    BY <1>0, <1>2, Zenon DEF RegisterDelete, MayRegister, UserAt, Go, Remove
  <2> QED
    BY <1>0, <2>1, <2>2, UserKeeps, Zenon DEF Deleted
<1>3. ASSUME NEW m \in Names, RegisterCreate(m) PROVE RegInv'
  <2>1. RegTypes'
    BY <1>3 DEF RegisterCreate, Go, Put, Fault, RegInv, RegTypes
  <2>2. /\ UNCHANGED <<services, refresh, tick, alive, interval>> /\ user.pc = "create" /\ m \in user.left
    BY <1>3, Zenon DEF RegisterCreate, UserAt
  <2>3. \A n \in user.left : n = m
    <3>1. user.pc = "create" => \A n, q \in user.left : n = q
      BY Zenon DEF RegInv, Refreshed
    <3> QED
      BY <2>2, <3>1, Zenon
  <2>4. CASE Put(m) /\ Go("append", {m}) /\ UNCHANGED faults
    <3>1. /\ user'.pc = "append" /\ user'.left = {m}
          /\ age'[m] \in {0, Forever} /\ \A n \in Names \ {m} : age'[n] = age[n]
      BY <1>0, <2>4, Zenon DEF Put, Go
    <3> QED
      BY <1>0, <2>1, <2>2, <2>3, <2>4, <3>1, UserKeeps, Zenon DEF Deleted
  <2>5. CASE age[m] # Absent /\ Go("idle", {}) /\ UNCHANGED <<age, faults>>
    <3>1. user'.pc = "idle"
      BY <2>5, Zenon DEF Go
    <3> QED
      BY <1>0, <2>1, <2>2, <2>3, <2>5, <3>1, UserKeeps, Zenon DEF Deleted
  <2>6. CASE Fault /\ Go("idle", {}) /\ UNCHANGED age
    <3>1. faults' # 0 /\ user'.pc = "idle"
      BY <1>0, <2>6 DEF Fault, Go
    <3> QED
      BY <2>1, <2>2, <3>1, UserKeeps, Zenon
  <2> QED
    BY <1>3, <2>4, <2>5, <2>6, Zenon DEF RegisterCreate
<1>4. ASSUME NEW m \in Names, Unregister(m) PROVE RegInv'
  <2>1. RegTypes'
    BY <1>4 DEF Unregister, Go, Remove, Fault, RegInv, RegTypes
  <2>2. /\ UNCHANGED <<services, refresh, tick, alive, interval>> /\ user.pc = "idle"
        /\ user'.pc \in {"idle", "unregister"}
    BY <1>4 DEF Unregister, UserAt, Go
  <2>3. faults' = 0 => /\ faults = 0 /\ user'.pc = "unregister" /\ user'.left = {m} /\ age'[m] = Absent
                       /\ \A n \in Names \ {m} : age'[n] = age[n]
    BY <1>0, <1>4 DEF Unregister, Go, Remove, Fault
  <2> QED
    BY <1>0, <2>1, <2>2, <2>3, UserKeeps, Zenon DEF Deleted
<1>5. CASE UnregisterName
  <2>1. RegTypes'
    BY <1>5, Zenon DEF UnregisterName, Go, RegInv, RegTypes
  <2>2. /\ UNCHANGED <<refresh, tick, alive, interval, age, faults>> /\ user.pc = "unregister"
        /\ services' = services \ user.left /\ user'.pc = "idle"
    BY <1>5, Zenon DEF UnregisterName, UserAt, Go
  <2> QED
    BY <1>0, <2>1, <2>2, UserKeeps, Zenon DEF Deleted
<1>9. CASE RegisterName
  <2>1. RegTypes'
    BY <1>9, Zenon DEF RegisterName, Go, RegInv, RegTypes
  <2>2. /\ UNCHANGED <<refresh, tick, alive, interval, age, faults>> /\ user.pc = "append"
        /\ services' = services \cup user.left /\ user'.pc = "idle"
    BY <1>9, Zenon DEF RegisterName, UserAt, Go
  <2>3. \A n \in user.left : age'[n] \in {0, Forever}
    BY <2>2, Zenon DEF RegInv, Refreshed
  <2> QED
    BY <1>0, <2>1, <2>2, <2>3, UserKeeps, Zenon DEF Deleted
<1>6. CASE Stop
  <2>1. RegTypes'
    BY <1>6, Zenon DEF Stop, Go, RegInv, RegTypes
  <2>2. /\ UNCHANGED <<services, refresh, tick, alive, interval, age, faults>> /\ user.pc = "idle"
        /\ user'.pc = "stop"
    BY <1>6, Zenon DEF Stop, UserAt, Go
  <2> QED
    BY <1>0, <2>1, <2>2, UserKeeps, Zenon DEF Deleted
<1>7. ASSUME NEW m \in Names, StopNode(m) PROVE RegInv'
  <2>1. RegTypes'
    BY <1>7 DEF StopNode, Go, Remove, Fault, RegInv, RegTypes
  <2>2. /\ UNCHANGED <<services, refresh, tick, alive, interval>> /\ user.pc = "stop"
        /\ user'.pc = "stop"
    BY <1>7, Zenon DEF StopNode, UserAt, Go
  <2>3. faults' = 0 => faults = 0 /\ age'[m] = Absent /\ \A n \in Names \ {m} : age'[n] = age[n]
    BY <1>0, <1>7 DEF StopNode, Remove, Fault
  <2> QED
    BY <1>0, <2>1, <2>2, <2>3, UserKeeps, Zenon DEF Deleted
<1>8. CASE StopDying \/ StopReturns
  <2>1. RegTypes'
    BY <1>8 DEF StopDying, StopReturns, Go, RegInv, RegTypes
  <2>2. /\ UNCHANGED <<services, refresh, tick, alive, interval, age, faults>>
        /\ user.pc \in {"stop", "wait"} /\ user'.pc \in {"wait", "stopped"}
    BY <1>8 DEF StopDying, StopReturns, UserAt, Go
  <2> QED
    BY <1>0, <2>1, <2>2, UserKeeps, Zenon DEF Deleted
<1> QED
  BY <1>1, <1>2, <1>3, <1>4, <1>5, <1>6, <1>7, <1>8, <1>9, Zenon DEF UserStep

\* The registry's part of the invariant is kept by every step.
LEMMA RegInvNext ==
  ASSUME RegInv, [Next]_vars
  PROVE  RegInv'
<1>1. CASE xc = "never" /\ RegNext /\ UNCHANGED disVars
  <2>1. xc' = xc
    BY <1>1, Zenon DEF disVars
  <2>2. CASE Crash
    <3>1. RegTypes'
      BY <2>2, Zenon DEF Crash, RegInv, RegTypes
    <3>2. user'.pc = "stopped" /\ refresh'.pc = "done"
      BY <2>2, Zenon DEF Crash
    <3> QED
      BY <1>1, <2>1, <3>1, <3>2, Zenon DEF RegInv, Refreshed
  <2> QED
    BY <1>1, <2>1, <2>2, RegStart, RegRefresh, RegUser, Zenon DEF RegNext, UserCall
<1>2. CASE OtherServer
  <2>1. xc' = xc /\ xc # "never" /\ UNCHANGED <<interval, services, user, refresh, tick, alive, faults>>
    BY <1>2, Zenon DEF OtherServer, disVars
  <2>2. RegTypes'
    BY <1>2, <2>1, Zenon DEF OtherServer, RegInv, RegTypes
  <2> QED
    BY <2>1, <2>2, Zenon DEF RegInv, Refreshed
<1>3. CASE UNCHANGED regVars /\ (xc' = "never" <=> xc = "never")
  BY <1>3, Zenon DEF RegInv, RegTypes, Refreshed, Deleted, regVars
<1>4. CASE D!DisNext /\ UNCHANGED regVars
  <2>1. xc' = "never" <=> xc = "never"
    BY <1>4, Zenon DEF D!DisNext, D!WatchStep, D!Report, D!Notify, D!Stopped, D!UpdatePairs, D!Begin, D!Loop, D!WatchTree,
                D!WatchFails, D!WatchEnds, D!Close, D!Update, D!SendStep, D!Send, D!GiveUp,
                D!XClientStep, D!WatchService, D!Receive, D!RemoveWatcher, D!CloseChan,
                D!NewXClient, D!CloseXClient, D!watcherVars
  <2> QED
    BY <1>3, <1>4, <2>1, Zenon
<1>5. CASE UNCHANGED vars
  BY <1>3, <1>5, Zenon DEF vars, disVars
<1>6. CASE (\E x \in Retries : D!SetRetries(x)) /\ UNCHANGED regVars
  BY <1>3, <1>6, Zenon DEF D!SetRetries, D!watcherVars
<1> QED
  BY <1>1, <1>2, <1>4, <1>5, <1>6, Zenon DEF Next
-----------------------------------------------------------------------------
(* Discovery's steps *)

\* What the registry holds is a list of nodes.
LEMMA TreeType == Tree \in Nodes
BY Zenon DEF Tree, Nodes

\* A step that leaves the watch, d.pairs and the numbers alone.
LEMMA WatchUntouched ==
  ASSUME DisInv, UNCHANGED <<kind, retries, w, pairs>>
  PROVE  Counted' /\ Latest' = Latest /\ \A l : Older(l)' <=> Older(l)
<1>1. Counted'
  BY Zenon DEF DisInv, Counted, Tried
<1>2. Latest' = Latest
  BY Zenon DEF Latest
<1> QED
  BY <1>1, <1>2, Zenon DEF Older

\* The last list published is one.
LEMMA LatestType ==
  ASSUME DisTypes
  PROVE  Latest \in Lists
BY DEF DisTypes, Latest, Lists

\* The steps of watch between two reports, Close, and a new value of the field.
WatchMoves ==
  \/ D!Begin \/ D!Loop \/ D!WatchTree \/ D!WatchFails \/ D!WatchEnds \/ D!Close \/ D!Stopped
  \/ \E x \in Retries : D!SetRetries(x)

LEMMA WatchKeeps == ASSUME DisInv, WatchMoves PROVE DisInv'
<1>0. w.first \in Int /\ w.retry \in Int /\ w.failed \in Nat /\ retries \in Int /\ w.same \in BOOLEAN
  BY Zenon DEF DisInv, DisTypes
<1>1. /\ UNCHANGED <<kind, pairs, watched, sends, ch, chClosed, xc, servers, lost>>
  BY Zenon DEF WatchMoves, D!Begin, D!Loop, D!SetRetries, D!WatchTree, D!WatchFails, D!WatchEnds, D!Close,
     D!Stopped, D!watcherVars
<1>2. w.pc # "pairs" /\ w'.pc # "pairs" /\ (w.pc = "notify" => w'.pc = "notify") /\ kind = "consul"
  BY Zenon DEF WatchMoves, D!Begin, D!Loop, D!SetRetries, D!WatchTree, D!WatchFails, D!WatchEnds, D!Close,
     D!Stopped, D!Idle, DisInv, DisTypes, Counted
<1>3. Latest = pairs /\ Latest' = pairs
  BY <1>1, <1>2, Zenon DEF Latest
<1>4. Numbered' /\ OnItsWay'
  BY <1>1, <1>2, <1>3, Zenon DEF DisInv, Numbered, OnItsWay, Older, D!Filter
<1>5. CASE D!Begin
  <2>1. DisTypes' /\ retries' = retries
    BY <1>1, <1>5, Zenon DEF D!Begin, DisInv, DisTypes
  <2>2. /\ w'.pc = "loop" /\ w'.retry = retries /\ w'.first = retries /\ w'.failed = 0 /\ w'.same
    BY <1>5, Zenon DEF D!Begin, DisInv, DisTypes, Counted
  <2>3. Tried'
    BY <1>0, <2>1, <2>2 DEF Tried
  <2> QED
    BY <1>1, <1>2, <1>4, <2>1, <2>2, <2>3, Zenon DEF DisInv, Counted
<1>6. CASE D!Loop
  <2>1. DisTypes' /\ retries' = retries /\ w.pc = "loop"
    BY <1>1, <1>6, Zenon DEF D!Loop, DisInv, DisTypes
  <2>2. /\ w'.retry = w.retry /\ w'.first = w.first /\ w'.failed = w.failed /\ w'.same = w.same
        /\ w'.pc \in {"watch", "deaf", "gone"} /\ (w'.pc = "watch" => D!Again(w.retry))
    BY <1>6, Zenon DEF D!Loop, DisInv, DisTypes
  <2>3. w'.pc = "watch" => Tried'
    <3>1. Tried
      BY <2>1, Zenon DEF DisInv, Counted
    <3>2. /\ w.same /\ w.first > 0 => w.retry + w.failed = w.first
          /\ w.same => retries = w.first
      BY <3>1, Zenon DEF Tried
    <3>3. w.same /\ w.first > 0 /\ D!Again(w.retry) => w.retry >= 0
      BY <1>0, <3>2 DEF D!Again
    <3>4. w'.pc = "watch" /\ w.same /\ w.first > 0 => w.retry >= 0
      BY <2>2, <3>3, Zenon
    <3> QED
      BY <2>1, <2>2, <3>1, <3>4, Zenon DEF Tried
  <2> QED
    BY <1>1, <1>2, <1>4, <2>1, <2>2, <2>3, Zenon DEF DisInv, Counted
<1>7. CASE D!WatchTree
  <2>1. DisTypes'
    <3>1. w' = [pc |-> "read", retry |-> 0, first |-> 0, same |-> TRUE, failed |-> 0, breaks |-> w.breaks,
                seen |-> D!Nothing, stop |-> w.stop] /\ retries' = retries
      BY <1>7, Zenon DEF D!WatchTree, D!Idle
    <3>2. w.breaks \in Nat /\ w.stop \in BOOLEAN /\ D!Nothing \in Nodes
      BY Zenon DEF DisInv, DisTypes, Nodes
    <3>3. 0 \in Nat /\ 0 \in Int
      OBVIOUS
    <3> QED
      BY <1>1, <3>1, <3>2, <3>3, Zenon DEF DisInv, DisTypes
  <2>2. w'.pc = "read" /\ w'.failed = 0 /\ w'.same
    BY <1>7, Zenon DEF D!WatchTree, D!Idle
  <2> QED
    BY <1>1, <1>2, <1>4, <2>1, <2>2, Zenon DEF DisInv, Counted
<1>8. CASE D!WatchFails
  <2> DEFINE left == IF retries > 0 /\ w.retry >= 0 THEN w.retry - 1 ELSE w.retry
             f == IF w.failed > 0 /\ w.failed > w.first + 1 THEN w.failed ELSE w.failed + 1
  <2>1. w' = [w EXCEPT !.pc = "loop", !.retry = left, !.failed = f] /\ retries' = retries /\ w.pc = "watch"
    BY <1>8, Zenon DEF D!WatchFails
  <2>2. left \in Int /\ f \in Nat
    BY <1>0
  <2>3. Tried
    BY <2>1, Zenon DEF DisInv, Counted
  <2>4. /\ f >= w.first + 1 \/ f + left >= w.first
        /\ w.same /\ w.first = 0 => left = 0
        /\ w.same /\ w.first > 0 => left + f = w.first /\ left >= -1
    BY <1>0, <2>1, <2>3 DEF Tried
  <2> HIDE DEF left, f
  <2>5. w'.pc = "loop" /\ w'.retry = left /\ w'.failed = f /\ w'.first = w.first /\ w'.same = w.same
    BY <2>1, Zenon DEF DisInv, DisTypes
  <2>6. DisTypes'
    BY <1>1, <2>1, <2>2, Zenon DEF DisInv, DisTypes
  <2>7. Tried'
    BY <2>1, <2>3, <2>4, <2>5 DEF Tried
  <2> QED
    BY <1>1, <1>2, <1>4, <2>5, <2>6, <2>7, Zenon DEF DisInv, Counted
<1>9. CASE D!WatchEnds
  <2>0. w.breaks + 1 \in Nat /\ w' = [w EXCEPT !.pc = "begin", !.breaks = w.breaks + 1] /\ retries' = retries
    BY <1>9 DEF D!WatchEnds, DisInv, DisTypes
  <2>1. DisTypes'
    BY <1>1, <2>0, Zenon DEF DisInv, DisTypes
  <2>2. w'.pc = "begin" /\ w'.failed = 0 /\ w'.same
    BY <1>9, Zenon DEF D!WatchEnds, DisInv, DisTypes, Counted
  <2> QED
    BY <1>1, <1>2, <1>4, <2>1, <2>2, Zenon DEF DisInv, Counted
<1>10. CASE D!Close
  <2>1. DisTypes' /\ retries' = retries
    BY <1>1, <1>10, Zenon DEF D!Close, DisInv, DisTypes
  <2>2. /\ w'.pc = w.pc /\ w'.failed = w.failed /\ w'.retry = w.retry /\ w'.first = w.first
        /\ w'.same = w.same
    BY <1>10, Zenon DEF D!Close, DisInv, DisTypes
  <2> QED
    BY <1>1, <1>2, <1>4, <2>1, <2>2, Zenon DEF DisInv, Counted, Tried
<1>11. CASE D!Stopped
  <2>1. DisTypes'
    BY <1>1, <1>11, Zenon DEF D!Stopped, DisInv, DisTypes
  <2>2. w'.pc = "gone"
    BY <1>11, Zenon DEF D!Stopped, DisInv, DisTypes
  <2> QED
    BY <1>1, <1>2, <1>4, <2>1, <2>2, Zenon DEF DisInv, Counted
<1>12. ASSUME NEW x \in Retries, D!SetRetries(x) PROVE DisInv'
  <2>0. x \in Int
    BY MembershipConstants, Zenon
  <2>1. DisTypes'
    BY <1>1, <1>12, <2>0, Zenon DEF D!SetRetries, DisInv, DisTypes
  <2>2. /\ w'.pc = w.pc /\ w'.failed = w.failed /\ w'.retry = w.retry /\ w'.first = w.first
        /\ w'.same = (w.pc \notin {"loop", "watch"})
    BY <1>12, Zenon DEF D!SetRetries, DisInv, DisTypes
  <2> QED
    BY <1>1, <1>2, <1>4, <2>1, <2>2, Zenon DEF DisInv, Counted, Tried
<1> QED
  BY <1>5, <1>6, <1>7, <1>8, <1>9, <1>10, <1>11, <1>12, Zenon DEF WatchMoves

\* Lists carry their numbers.
LEMMA ListNumbers ==
  ASSUME NEW S \in SUBSET Lists, NEW c \in Seq(Lists)
  PROVE  (\A l \in S : l.n \in Nat) /\ \A i \in DOMAIN c : c[i] \in Lists /\ c[i].n \in Nat
<1>1. \A i \in DOMAIN c : c[i] \in Lists
  OBVIOUS
<1> QED
  BY <1>1, Zenon DEF Lists

\* Smaller, as the lists compare.
Below(m, n) == m <= n /\ m # n

\* A report of the registry makes a new list, and Update does.
LEMMA PublishKeeps ==
  ASSUME DisInv, NEW x \in Nodes, (D!Report /\ x = Tree) \/ D!Update(x)
  PROVE  DisInv'
<1>1. UNCHANGED <<kind, retries, watched, ch, chClosed, xc, servers>> /\ w.pc \in {"read", "begin"}
  BY Zenon DEF D!Report, D!Update
<1>2. Latest = pairs /\ pairs.n \in Nat
  BY <1>1, Zenon DEF Latest, DisInv, DisTypes, Lists
<1>3. D!Published(x) \in Lists
  BY <1>2 DEF D!Published, Lists
<1>4. xc # "never" => D!Published(x) = [n |-> pairs.n + 1, s |-> x]
  BY Zenon DEF D!Published
<1>5. xc # "never" => /\ \A l \in sends : Below(l.n, pairs.n + 1)
                      /\ \A i \in DOMAIN ch : Below(ch[i].n, pairs.n + 1)
                      /\ Below(servers.n, pairs.n + 1)
  <2>1. \A m \in Nat : m <= pairs.n => Below(m, pairs.n + 1)
    BY <1>2 DEF Below
  <2>2. (\A l \in sends : l.n \in Nat) /\ \A i \in DOMAIN ch : ch[i].n \in Nat
    BY ListNumbers, Zenon DEF DisInv, DisTypes
  <2>3. servers.n \in Nat
    BY Zenon DEF DisInv, DisTypes
  <2> QED
    BY <1>2, <2>1, <2>2, <2>3, Zenon DEF DisInv, Numbered, Older
<1>6. CASE D!Report /\ x = Tree
  <2>1. pairs' = D!Published(x) /\ sends' = sends /\ kind = "consul" /\ w.pc = "read" /\ w.failed = 0 /\ w.same
    BY <1>6, Zenon DEF D!Report, DisInv, Counted
  <2>2. DisTypes' /\ w'.failed = w.failed /\ w'.same = w.same /\ w'.pc \in {"read", "notify"}
    BY <1>1, <1>3, <1>6, <2>1, Zenon DEF D!Report, DisInv, DisTypes
  <2>3. Latest' = pairs' /\ Counted'
    BY <1>1, <2>1, <2>2, Zenon DEF Latest, Counted
  <2>4. xc \notin {"never", "none"} => w'.pc = "notify" \/ pairs.n + 1 \in lost'
    BY <1>6, Zenon DEF D!Report, DisInv, DisTypes
  <2>5. xc # "never" => pairs'.n = pairs.n + 1
    BY <1>4, <2>1
  <2>6. Numbered'
    <3> SUFFICES ASSUME xc # "never" PROVE Numbered'
      BY <1>1, Zenon DEF Numbered
    <3>1. /\ \A l \in sends' : Below(l.n, Latest'.n)
          /\ \A i \in DOMAIN ch' : Below(ch'[i].n, Latest'.n)
          /\ Below(servers'.n, Latest'.n)
      BY <1>1, <1>5, <2>1, <2>3, <2>5, Zenon
    <3> QED
      BY <1>2, <2>5, <3>1, Zenon DEF Numbered, Older, Below
  <2>7. OnItsWay'
    BY <1>1, <2>3, <2>4, <2>5, Zenon DEF DisInv, OnItsWay
  <2> QED
    BY <2>2, <2>3, <2>6, <2>7, Zenon DEF DisInv
<1>7. CASE D!Update(x)
  <2>1. pairs' = pairs /\ lost' = lost /\ kind # "consul" /\ sends' = IF watched THEN sends \cup {D!Published(x)} ELSE sends
    BY <1>7, Zenon DEF D!Update, D!Tell
  <2>2. w'.pc = "pairs" /\ w'.seen = x /\ w'.failed = 0 /\ w'.same
    BY <1>7, Zenon DEF D!Update, DisInv, DisTypes, Counted
  <2>3. DisTypes'
    BY <1>1, <1>3, <1>7, <2>1, Zenon DEF D!Update, DisInv, DisTypes
  <2>4. Latest' = [n |-> pairs.n + 1, s |-> x] /\ Counted'
    BY <1>1, <2>1, <2>2, Zenon DEF Latest, Counted
  <2>5. xc # "never" => Latest'.n = pairs.n + 1 /\ Latest' = D!Published(x)
    BY <1>4, <2>4, Zenon
  <2>6. Numbered'
    <3> SUFFICES ASSUME xc # "never" PROVE Numbered'
      BY <1>1, Zenon DEF Numbered
    <3>1. /\ \A l \in sends' : Below(l.n, Latest'.n) \/ l = Latest'
          /\ \A i \in DOMAIN ch' : Below(ch'[i].n, Latest'.n)
          /\ Below(servers'.n, Latest'.n)
      BY <1>1, <1>5, <2>1, <2>5, Zenon
    <3> QED
      BY <1>2, <2>5, <3>1 DEF Numbered, Older, Below
  <2>7. OnItsWay'
    BY <1>1, <2>1, <2>5, Zenon DEF DisInv, OnItsWay
  <2> QED
    BY <2>3, <2>4, <2>6, <2>7, Zenon DEF DisInv
<1> QED
  BY <1>6, <1>7, Zenon

\* The watchers are told, or d.pairs follows.
LEMMA TellKeeps ==
  ASSUME DisInv, D!Notify \/ D!UpdatePairs
  PROVE  DisInv'
<1>1. UNCHANGED <<kind, retries, watched, ch, chClosed, xc, servers, lost>>
  BY Zenon DEF D!Notify, D!UpdatePairs
<1>2. CASE D!Notify
  <2>1. /\ pairs' = pairs /\ w.pc = "notify" /\ kind = "consul"
        /\ sends' = IF watched THEN sends \cup {pairs} ELSE sends
    BY <1>2, Zenon DEF D!Notify, D!Tell, DisInv, Counted
  <2>2. w'.pc = "read" /\ w'.failed = w.failed /\ w'.same = w.same
    BY <1>2, Zenon DEF D!Notify, DisInv, DisTypes
  <2>3. Latest = pairs /\ Latest' = pairs
    BY <2>1, <2>2, Zenon DEF Latest
  <2>4. DisTypes'
    BY <1>1, <1>2, <2>1, Zenon DEF D!Notify, DisInv, DisTypes
  <2>5. Counted'
    BY <1>1, <2>1, <2>2, Zenon DEF DisInv, Counted
  <2>6. pairs.n <= pairs.n
    BY DEF DisInv, DisTypes, Lists
  <2>7. Numbered'
    BY <1>1, <2>1, <2>3, <2>6, Zenon DEF DisInv, Numbered, Older
  <2>8. OnItsWay'
    <3>1. xc = "watching" => pairs \in sends'
      BY <2>1, Zenon DEF DisInv, OnItsWay
    <3> QED
      BY <1>1, <2>3, <3>1, Zenon DEF DisInv, OnItsWay
  <2> QED
    BY <2>4, <2>5, <2>7, <2>8, Zenon DEF DisInv
<1>3. CASE D!UpdatePairs
  <2>1. sends' = sends /\ w.pc = "pairs" /\ pairs' = D!Published(w.seen) /\ kind # "consul"
    BY <1>3, Zenon DEF D!UpdatePairs, DisInv, Counted
  <2>2. w'.pc = "begin" /\ w'.failed = 0 /\ w'.same
    BY <1>3, Zenon DEF D!UpdatePairs, DisInv, DisTypes, Counted
  <2>3. xc # "never" => Latest' = Latest
    BY <1>1, <2>1, <2>2, Zenon DEF Latest, D!Published
  <2>4. D!Published(w.seen) \in Lists
    BY DEF D!Published, DisInv, DisTypes, Lists
  <2>5. DisTypes'
    BY <1>1, <1>3, <2>1, <2>4, Zenon DEF D!UpdatePairs, DisInv, DisTypes, Nodes
  <2>6. Counted'
    BY <1>1, <2>1, <2>2, Zenon DEF Counted
  <2>7. Numbered'
    BY <1>1, <2>1, <2>3, Zenon DEF DisInv, Numbered, Older
  <2>8. OnItsWay'
    BY <1>1, <2>1, <2>3, Zenon DEF DisInv, OnItsWay
  <2> QED
    BY <2>5, <2>6, <2>7, <2>8, Zenon DEF DisInv
<1> QED
  BY <1>2, <1>3, Zenon

\* A goroutine sends a list, or gives up after a minute.
LEMMA SendKeeps ==
  ASSUME DisInv, NEW l \in sends, D!Send(l) \/ D!GiveUp(l)
  PROVE  DisInv'
<1>1. UNCHANGED <<kind, retries, w, pairs, watched, chClosed, xc, servers>> /\ sends' = sends \ {l}
  BY Zenon DEF D!Send, D!GiveUp
<1>2. Counted' /\ Latest' = Latest
  BY <1>1, WatchUntouched, Zenon
<1>3. l \in Lists /\ ch \in Seq(Lists)
  BY Zenon DEF DisInv, DisTypes
<1>4. CASE D!GiveUp(l)
  <2>1. ch' = ch /\ lost' = lost \cup {l.n}
    BY <1>4, Zenon DEF D!GiveUp
  <2>2. DisTypes'
    BY <1>1, <2>1, Zenon DEF DisInv, DisTypes
  <2>3. Numbered'
    BY <1>1, <1>2, <2>1, Zenon DEF DisInv, Numbered, Older
  <2>4. OnItsWay'
    BY <1>1, <1>2, <2>1, Zenon DEF DisInv, OnItsWay
  <2> QED
    BY <1>2, <2>2, <2>3, <2>4, Zenon DEF DisInv
<1>5. CASE D!Send(l)
  <2>1. lost' = lost /\ (chClosed => ch' = ch) /\ (~chClosed => ch' = Append(ch, l))
    BY <1>5, Zenon DEF D!Send
  <2>2. /\ ch' \in Seq(Lists)
        /\ \A i \in DOMAIN ch' : ch'[i] = l \/ \E j \in DOMAIN ch : ch'[i] = ch[j]
        /\ \A j \in DOMAIN ch : \E i \in DOMAIN ch' : ch'[i] = ch[j]
        /\ ~chClosed => \E i \in DOMAIN ch' : ch'[i] = l
    <3>1. CASE chClosed
      BY <1>3, <2>1, <3>1, Zenon
    <3>2. CASE ~chClosed
      <4>1. /\ ch' \in Seq(Lists) /\ Len(ch) \in Nat /\ DOMAIN ch = 1..Len(ch)
            /\ DOMAIN ch' = 1..(Len(ch) + 1) /\ ch'[Len(ch) + 1] = l
            /\ \A j \in DOMAIN ch : ch'[j] = ch[j]
        BY <1>3, <2>1, <3>2
      <4> QED
        BY <4>1
    <3> QED
      BY <3>1, <3>2, Zenon
  <2>3. DisTypes'
    BY <1>1, <2>2, Zenon DEF DisInv, DisTypes
  <2>4. Numbered'
    <3> SUFFICES ASSUME xc # "never" PROVE Numbered'
      BY <1>1, Zenon DEF Numbered
    <3>1. \A i \in DOMAIN ch' : Older(ch'[i])
      BY <2>2, Zenon DEF DisInv, Numbered
    <3> QED
      BY <1>1, <1>2, <3>1, Zenon DEF DisInv, Numbered, Older
  <2>5. OnItsWay'
    <3> SUFFICES ASSUME xc = "watching", Latest \in sends \/ \E i \in DOMAIN ch : ch[i] = Latest
                 PROVE  Latest \in sends' \/ \E i \in DOMAIN ch' : ch'[i] = Latest
      BY <1>1, <1>2, <2>1, Zenon DEF DisInv, OnItsWay
    <3>1. ~chClosed
      BY Zenon DEF DisInv, OnItsWay
    <3> QED
      BY <1>1, <2>2, <3>1, Zenon
  <2> QED
    BY <1>2, <2>3, <2>4, <2>5, Zenon DEF DisInv
<1> QED
  BY <1>4, <1>5, Zenon

\* The xClient is made, and watches.
LEMMA MakeKeeps ==
  ASSUME DisInv, D!NewXClient \/ D!WatchService
  PROVE  DisInv'
<1>1. UNCHANGED <<kind, retries, w, pairs, sends, ch, chClosed>> /\ xc \in {"none", "made"} /\ xc' \in {"made", "watching"}
  BY Zenon DEF D!NewXClient, D!WatchService
<1>2. Counted' /\ Latest' = Latest
  BY <1>1, WatchUntouched, Zenon
<1>3. CASE D!NewXClient
  <2>1. servers' = [n |-> pairs.n, s |-> D!Filter(pairs.s)] /\ xc' = "made"
    BY <1>3, Zenon DEF D!NewXClient
  <2>2. DisTypes'
    BY <1>1, <2>1, Zenon DEF DisInv, DisTypes, Lists
  <2>3. pairs.n <= Latest.n /\ (pairs.n = Latest.n => pairs = Latest)
    BY DEF DisInv, DisTypes, Lists, Latest
  <2>4. Numbered'
    BY <1>1, <1>2, <2>1, <2>3, Zenon DEF DisInv, Numbered, Older
  <2>5. OnItsWay'
    BY <1>1, <2>1, Zenon DEF DisInv, OnItsWay
  <2> QED
    BY <1>2, <2>2, <2>4, <2>5, Zenon DEF DisInv
<1>4. CASE D!WatchService
  <2>1. servers' = servers /\ xc = "made" /\ xc' = "watching" /\ w.pc # "pairs"
    BY <1>4, Zenon DEF D!WatchService, D!Locked
  <2>2. watched'
    BY <1>4, Zenon DEF D!WatchService
  <2>3. servers.n = pairs.n \/ w.pc = "notify" \/ pairs.n \in lost'
    BY <1>4, Zenon DEF D!WatchService
  <2>4. Latest = pairs
    BY <2>1, Zenon DEF Latest
  <2>5. DisTypes'
    BY <1>1, <2>1, Zenon DEF DisInv, DisTypes
  <2>6. Numbered'
    BY <1>1, <1>2, <2>1, Zenon DEF DisInv, Numbered, Older
  <2>7. chClosed' => xc' = "closed"
    BY <1>1, <2>1, Zenon DEF DisInv, OnItsWay
  <2>8. OnItsWay'
    BY <1>1, <1>2, <2>1, <2>2, <2>3, <2>4, <2>7, Zenon DEF OnItsWay
  <2> QED
    BY <1>2, <2>5, <2>6, <2>8, Zenon DEF DisInv
<1> QED
  BY <1>3, <1>4, Zenon

\* The xClient closes.
LEMMA CloseKeeps ==
  ASSUME DisInv, D!CloseXClient \/ D!RemoveWatcher \/ D!CloseChan
  PROVE  DisInv'
<1>1. UNCHANGED <<kind, retries, w, pairs, sends, ch, servers, lost>>
  BY Zenon DEF D!CloseXClient, D!RemoveWatcher, D!CloseChan
<1>2. Counted' /\ Latest' = Latest
  BY <1>1, WatchUntouched, Zenon
<1>3. xc \in {"watching", "removing", "closing"} /\ xc' \in {"removing", "closing", "closed"}
  BY Zenon DEF D!CloseXClient, D!RemoveWatcher, D!CloseChan
<1>4. DisTypes'
  BY <1>1, Zenon DEF DisInv, DisTypes
<1>5. Numbered'
  BY <1>1, <1>2, <1>3, Zenon DEF DisInv, Numbered, Older
<1>6. (xc' \in {"watching", "removing"} => watched') /\ (chClosed' => xc' = "closed")
  BY <1>3 DEF D!CloseXClient, D!RemoveWatcher, D!CloseChan, DisInv, OnItsWay
<1>7. OnItsWay'
  BY <1>3, <1>6, Zenon DEF OnItsWay
<1> QED
  BY <1>2, <1>4, <1>5, <1>7, Zenon DEF DisInv

\* The xClient takes the oldest list of its channel.
LEMMA ReceiveKeeps ==
  ASSUME DisInv, D!Receive
  PROVE  DisInv'
<1> DEFINE l == Head(ch)
<1>1. /\ UNCHANGED <<kind, retries, w, pairs, watched, sends, chClosed, xc>>
      /\ servers' = [n |-> l.n, s |-> D!Filter(l.s)] /\ ch # <<>> /\ ch' = Tail(ch)
      /\ lost' = IF l.n < servers.n THEN lost \cup {servers.n} ELSE lost
  BY Zenon DEF D!Receive
<1>2. Counted' /\ Latest' = Latest
  BY <1>1, WatchUntouched, Zenon
<1>3. /\ ch \in Seq(Lists) /\ l = ch[1] /\ l \in Lists /\ 1 \in DOMAIN ch /\ ch' \in Seq(Lists)
      /\ \A i \in DOMAIN ch' : i + 1 \in DOMAIN ch /\ ch'[i] = ch[i + 1]
      /\ \A i \in DOMAIN ch \ {1} : i - 1 \in DOMAIN ch' /\ ch'[i - 1] = ch[i]
  <2>1. ch \in Seq(Lists)
    BY Zenon DEF DisInv, DisTypes
  <2>2. ch # <<>> /\ ch' = Tail(ch) /\ l = Head(ch)
    BY <1>1, Zenon
  <2> QED
    BY ONLY <2>1, <2>2
<1> HIDE DEF l
<1>4. DisTypes'
  BY <1>1, <1>3, Zenon DEF DisInv, DisTypes, Lists
<1>5. Numbered'
  BY <1>1, <1>2, <1>3, Zenon DEF DisInv, Numbered, Older
<1>6. OnItsWay'
  <2> SUFFICES ASSUME xc = "watching"
               PROVE  \/ servers'.n = Latest.n \/ Latest.n \in lost' \/ w.pc = "notify"
                      \/ Latest \in sends \/ \E i \in DOMAIN ch' : ch'[i] = Latest
    BY <1>1, <1>2, Zenon DEF DisInv, OnItsWay
  <2>1. CASE servers.n = Latest.n
    <3>1. l.n <= Latest.n /\ l.n \in Nat /\ Latest.n \in Nat
      BY <1>3, LatestType, Zenon DEF DisInv, Numbered, Older, Lists
    <3>2. servers'.n = l.n
      BY <1>1, Zenon
    <3> QED
      BY <1>1, <2>1, <3>1, <3>2
  <2>2. ASSUME NEW i \in DOMAIN ch, ch[i] = Latest
        PROVE  servers'.n = Latest.n \/ \E j \in DOMAIN ch' : ch'[j] = Latest
    <3>1. CASE i = 1
      BY <1>1, <1>3, <2>2, <3>1, Zenon
    <3>2. CASE i # 1
      BY <1>3, <2>2, <3>2, Zenon
    <3> QED
      BY <3>1, <3>2, Zenon
  <2>3. Latest.n \in lost => Latest.n \in lost'
    BY <1>1, Zenon
  <2> QED
    BY <2>1, <2>2, <2>3, Zenon DEF DisInv, OnItsWay
<1> QED
  BY <1>2, <1>4, <1>5, <1>6, Zenon DEF DisInv

\* Discovery's part of the invariant is kept by every step.
LEMMA DisInvNext ==
  ASSUME DisInv, [Next]_vars
  PROVE  DisInv'
<1>1. CASE UNCHANGED disVars
  <2>1. UNCHANGED <<kind, retries, w, pairs, watched, sends, ch, chClosed, xc, servers, lost>>
    BY <1>1, Zenon DEF disVars
  <2>2. Counted' /\ Latest' = Latest
    BY <2>1, WatchUntouched, Zenon
  <2> QED
    BY <2>1, <2>2, Zenon DEF DisInv, DisTypes, Numbered, Older, OnItsWay
<1>2. CASE D!DisNext
  <2>1. CASE D!Report
    BY <2>1, PublishKeeps, TreeType, Zenon
  <2>2. ASSUME NEW s \in Updates, D!Update(s) PROVE DisInv'
    BY <2>2, PublishKeeps, Zenon DEF Nodes
  <2> QED
    BY <1>2, <2>1, <2>2, WatchKeeps, TellKeeps, SendKeeps, MakeKeeps, CloseKeeps, ReceiveKeeps, Zenon
       DEF D!DisNext, D!WatchStep, D!SendStep, D!XClientStep, WatchMoves
<1>3. CASE \E x \in Retries : D!SetRetries(x)
  BY <1>3, WatchKeeps, Zenon DEF WatchMoves
<1> QED
  BY <1>1, <1>2, <1>3, Zenon DEF Next, OtherServer, vars
-----------------------------------------------------------------------------
(* The theorems *)

\* The invariant holds at first.
LEMMA MembershipInit ==
  ASSUME Init
  PROVE  RegInv /\ DisInv
<1>1. RegInv
  BY RegistryConstants, Zenon DEF Init, RegInit, RegInv, RegTypes, Refreshed
<1>2. /\ retries \in Int /\ w = D!Idle /\ pairs = [n |-> 0, s |-> Tree]
      /\ sends = {} /\ ch = <<>> /\ servers = [n |-> 0, s |-> {}] /\ xc \in XClients
  BY DEF Init, D!DisInit
<1>3. /\ w.pc = "begin" /\ w.failed = 0 /\ w.same
      /\ xc \in {"none", "never"} /\ chClosed = FALSE
  <2>1. w.pc = "begin" /\ w.failed = 0 /\ w.same = TRUE
    BY <1>2, Zenon DEF D!Idle
  <2> QED
    BY <2>1, MembershipConstants, Zenon DEF Init, D!DisInit
<1>4. DisTypes
  <2>1. w = [pc |-> "begin", retry |-> 0, first |-> 0, same |-> TRUE, failed |-> 0, breaks |-> 0,
             seen |-> D!Nothing, stop |-> FALSE]
    BY <1>2, Zenon DEF D!Idle
  <2>2. D!Nothing \in Nodes /\ Tree \in Nodes
    BY TreeType, Zenon DEF Nodes
  <2>3. w \in [pc : {"begin", "loop", "watch", "read", "notify", "deaf", "pairs", "gone"}, retry : Int, first : Int,
            same : BOOLEAN, failed : Nat, breaks : Nat, seen : Nodes, stop : BOOLEAN]
    <3>1. 0 \in Nat /\ 0 \in Int
      OBVIOUS
    <3> QED
      BY <2>1, <2>2, <3>1, Zenon
  <2>4. pairs \in Lists
    BY <1>2, <2>2, Zenon DEF Lists
  <2> QED
    BY <1>2, <2>3, <2>4 DEF DisTypes
<1>5. Latest = pairs /\ pairs.n = 0
  BY <1>2, <1>3, Zenon DEF Latest
<1>6. Numbered
  BY <1>2, <1>3, <1>5 DEF Numbered
<1>7. OnItsWay
  BY <1>3, Zenon DEF OnItsWay
<1>8. Counted
  BY <1>2, <1>3 DEF Counted
<1> QED
  BY <1>1, <1>4, <1>6, <1>7, <1>8, Zenon DEF DisInv

\* What holds in every state of the plugin, its store, the discovery and the
\* xClient.
THEOREM MembershipInvariance == Spec => [](RegInv /\ DisInv)
<1>1. Init => RegInv /\ DisInv
  BY MembershipInit, Zenon
<1>2. (RegInv /\ DisInv) /\ [Next]_vars => (RegInv /\ DisInv)'
  BY RegInvNext, DisInvNext, Zenon
<1> QED
  BY <1>1, <1>2, PTL DEF Spec

\* While the store has answered every call and the refresh goroutine runs, the
\* node of every registered service exists unless the user has just deleted it:
\* with a lifetime of two intervals no interleaving of ticks, passes, Register
\* and Unregister lets it expire.
THEOREM LiveServersRegistered == Spec => []LiveIsRegistered
<1>1. RegInv => LiveIsRegistered
  BY Zenon DEF RegInv, Refreshed, Deleted, LiveIsRegistered
<1> QED
  BY <1>1, MembershipInvariance, PTL

\* An xClient that watches and to which nothing is under way uses the servers of
\* d.pairs, or the last list is one of those it is known to miss.
THEOREM ServersSettle == Spec => []Settled
<1>1. DisInv => Settled
  <2> SUFFICES ASSUME DisInv, xc = "watching", D!Quiet
               PROVE  servers = [n |-> pairs.n, s |-> D!Filter(pairs.s)] \/ pairs.n \in lost
    BY Zenon DEF Settled, D!Settled
  <2>1. sends = {} /\ ch = <<>> /\ w.pc # "notify" /\ Latest = pairs
    BY Zenon DEF D!Quiet, Latest
  <2>2. servers.n = pairs.n \/ pairs.n \in lost
    BY <2>1 DEF DisInv, OnItsWay
  <2>3. CASE servers.n = pairs.n
    <3>1. servers.s = D!Filter(pairs.s)
      BY <2>1, <2>3, Zenon DEF DisInv, Numbered
    <3>2. servers = [n |-> servers.n, s |-> servers.s]
      BY Zenon DEF DisInv, DisTypes
    <3> QED
      BY <2>3, <3>1, <3>2, Zenon
  <2> QED
    BY <2>2, <2>3, Zenon
<1> QED
  BY <1>1, MembershipInvariance, PTL

\* However the user sets RetriesAfterWatchFailed while watch runs and however often
\* the registry ended it before, its loop ends without a watch only after at least
\* one failure more than the field held when the loop began, and with the field
\* left alone after exactly so many.
THEOREM GivesUpInTime == Spec => GivesUpAfterRetries
<1> DEFINE Late == /\ retries >= 0 /\ w.failed >= w.first + 1
                   /\ w.same => w.first >= 0 /\ w.failed = w.first + 1
<1>1. DisInv /\ [Next]_vars => [w.pc = "loop" /\ w'.pc \in {"gone", "deaf"} => Late]_D!disVars
  <2> SUFFICES ASSUME DisInv, [Next]_vars, w.pc = "loop", w'.pc \in {"gone", "deaf"}
               PROVE  Late
    BY Zenon DEF D!disVars
  <2>1. w' # w
    BY Zenon DEF DisInv, DisTypes
  <2>2. D!DisNext \/ \E x \in Retries : D!SetRetries(x)
    BY <2>1, Zenon DEF Next, OtherServer, vars, disVars
  <2>3. ~\E x \in Retries : D!SetRetries(x)
    BY Zenon DEF D!SetRetries, DisInv, DisTypes
  <2>4. D!Loop
    BY <2>1, <2>2, <2>3, Zenon DEF D!DisNext, D!WatchStep, D!Begin, D!Report, D!Notify, D!Stopped, D!UpdatePairs,
                D!WatchTree, D!WatchFails, D!WatchEnds, D!Close, D!Update, D!SendStep, D!Send, D!GiveUp,
                D!XClientStep, D!WatchService, D!Receive, D!RemoveWatcher, D!CloseChan,
                D!NewXClient, D!CloseXClient, DisInv, DisTypes
  <2>5. Tried
    BY Zenon DEF DisInv, Counted
  <2>6. ~D!Again(w.retry)
    BY <2>4, Zenon DEF D!Loop, DisInv, DisTypes
  <2>7. retries \in Int /\ w.retry \in Int /\ w.failed \in Nat /\ w.first \in Int
    BY Zenon DEF DisInv, DisTypes
  <2> QED
    BY <2>5, <2>6, <2>7 DEF Tried, D!Again
<1> QED
  BY <1>1, MembershipInvariance, PTL DEF Spec, GivesUpAfterRetries, D!GivesUpAfterRetries
=============================================================================
