------------------------------ MODULE Registry ------------------------------
(***************************************************************************)
(* The registry plugin of a server (serverplugin/consul.go and             *)
(* serverplugin/zookeeper.go; serverplugin/redis.go does what consul.go    *)
(* does): Start and its refresh goroutine, Register, Unregister, Stop, a   *)
(* crash of the process, and the store with the lifetimes of its nodes.    *)
(*                                                                         *)
(* Time is counted in update intervals.  A store operation is one step.    *)
(* Metadata is left out: every refresh writes the node whatever it read.   *)
(***************************************************************************)
EXTENDS Integers, FiniteSets

CONSTANTS
  Names,         \* the services of this server
  Flavors,       \* the plugins considered: "consul", "zookeeper"
  Intervals,     \* which UpdateInterval: 1 (positive) or 0
  MaxFaults,     \* bound on store operations that fail
  MaxRegisters   \* bound on calls of Register

ASSUME RegistryConstants ==
  /\ IsFiniteSet(Names)
  /\ Flavors \subseteq {"consul", "zookeeper"} /\ Intervals \subseteq {0, 1}
  /\ MaxFaults \in Nat /\ MaxRegisters \in Nat

VARIABLES
  flavor, interval,
  services,     \* p.Services
  user,         \* the goroutine that calls the plugin: its place, and the names Stop has left
  refresh,      \* the goroutine of Start: its place, and the names its pass has left
  tick,         \* ticker.C holds a tick
  dying, done,  \* these channels are closed
  age,          \* of each node: Absent, Forever, or the intervals since it was written
  alive,        \* the process runs
  faults, registers

regVars == <<flavor, interval, services, user, refresh, tick, dying, done, age, alive,
             faults, registers>>

Absent == -1
Forever == -2

RegTypeOK ==
  /\ flavor \in Flavors /\ interval \in Intervals
  /\ services \in SUBSET Names
  /\ user \in [pc : {"new", "idle", "create", "append", "unregister", "stop", "dying", "wait", "stopped"},
               left : SUBSET Names]
  /\ refresh \in [pc : {"off", "select", "pass", "done"}, left : SUBSET Names]
  /\ {tick, dying, done, alive} \subseteq BOOLEAN
  /\ age \in [Names -> {Absent, Forever, 0, 1}]
  /\ faults \in 0..MaxFaults /\ registers \in 0..MaxRegisters

RegInit ==
  /\ flavor \in Flavors /\ interval \in Intervals
  /\ services = {}
  /\ user = [pc |-> "new", left |-> {}] /\ refresh = [pc |-> "off", left |-> {}]
  /\ tick = FALSE /\ dying = FALSE /\ done = FALSE /\ alive = TRUE
  /\ age = [n \in Names |-> Absent]
  /\ faults = 0 /\ registers = 0

UserAt(l) == alive /\ user.pc = l
Go(l, left) == user' = [pc |-> l, left |-> left]

Fault == faults < MaxFaults /\ faults' = faults + 1
-----------------------------------------------------------------------------
(* The store *)

\* Mutant: nodes live for one interval.
TTLShort == 1

\* WriteOptions{TTL: p.UpdateInterval * 2}
TTL == 2

\* Put with this TTL, which is 0 without an interval: no expiry.
Put(n) == age' = [age EXCEPT ![n] = IF interval = 0 THEN Forever ELSE 0]
Remove(n) == age' = [age EXCEPT ![n] = Absent]

\* An interval passes: nodes expire, and the ticker of a goroutine ticks.  A pass
\* of the goroutine takes less than that, and so does Register once its node is
\* written.
Interval ==
  /\ interval > 0 /\ user.pc # "append"
  /\ alive => (refresh.pc # "pass" /\ ~tick)
  /\ age' = [n \in Names |->
               IF age[n] \in {Absent, Forever} THEN age[n]
               ELSE IF age[n] + 1 >= TTL THEN Absent ELSE age[n] + 1]
  /\ tick' = (alive /\ refresh.pc = "select")
  /\ UNCHANGED <<flavor, interval, services, user, refresh, dying, done, alive, faults, registers>>
-----------------------------------------------------------------------------
(* Start *)

\* Put(BasePath) succeeds, and the goroutine runs if there is an interval.
Start ==
  /\ UserAt("new")
  /\ Go("idle", {})
  /\ refresh' = [pc |-> IF interval > 0 THEN "select" ELSE "off", left |-> {}]
  /\ UNCHANGED <<flavor, interval, services, tick, dying, done, age, alive, faults, registers>>

\* The store cannot be reached: Start closes done and returns the error.
StartFails ==
  /\ UserAt("new") /\ Fault
  /\ Go("idle", {}) /\ done' = TRUE
  /\ UNCHANGED <<flavor, interval, services, refresh, tick, dying, age, alive, registers>>

\* case <-ticker.C: p.Services is read once for the pass.
Tick ==
  /\ alive /\ refresh.pc = "select" /\ tick
  /\ tick' = FALSE
  /\ refresh' = [pc |-> IF services = {} THEN "select" ELSE "pass", left |-> services]
  /\ UNCHANGED <<flavor, interval, services, user, dying, done, age, alive, faults, registers>>

\* A node that is missing is written anew, another one again.
Rewrite(n) == Put(n)

\* One turn of the loop over the names: Get and Put, which may fail.
RefreshNode(n) ==
  /\ alive /\ refresh.pc = "pass" /\ n \in refresh.left
  /\ \/ Rewrite(n) /\ UNCHANGED faults
     \/ Fault /\ UNCHANGED age
  /\ LET left == refresh.left \ {n} IN
       refresh' = [pc |-> IF left = {} THEN "select" ELSE "pass", left |-> left]
  /\ UNCHANGED <<flavor, interval, services, user, tick, dying, done, alive, registers>>

\* Mutant: done stays open.
RefreshEndsOpen ==
  /\ alive /\ refresh.pc = "select" /\ dying
  /\ refresh' = [pc |-> "done", left |-> {}] /\ tick' = FALSE
  /\ UNCHANGED <<flavor, interval, services, user, dying, done, age, alive, faults, registers>>

\* case <-p.dying
RefreshEnds ==
  /\ alive /\ refresh.pc = "select" /\ dying
  /\ refresh' = [pc |-> "done", left |-> {}] /\ done' = TRUE /\ tick' = FALSE
  /\ UNCHANGED <<flavor, interval, services, user, dying, age, alive, faults, registers>>
-----------------------------------------------------------------------------
(* Register, Unregister, Stop *)

MayRegister == UserAt("idle") /\ registers < MaxRegisters /\ registers' = registers + 1

\* consul: Put of the node,
Register(n) ==
  /\ flavor = "consul" /\ MayRegister
  /\ \/ Put(n) /\ Go("append", {n}) /\ UNCHANGED faults
     \/ Fault /\ UNCHANGED <<age, user>>
  /\ UNCHANGED <<flavor, interval, services, refresh, tick, dying, done, alive>>

\* zookeeper: the node is deleted
RegisterDelete(n) ==
  /\ flavor = "zookeeper" /\ MayRegister
  /\ Remove(n) /\ Go("create", {n})
  /\ UNCHANGED <<flavor, interval, services, refresh, tick, dying, done, alive, faults>>

\* and created, which fails if the refresh goroutine was faster.
RegisterCreate(n) ==
  /\ UserAt("create") /\ n \in user.left
  /\ \/ age[n] = Absent /\ Put(n) /\ Go("append", {n}) /\ UNCHANGED faults
     \/ age[n] # Absent /\ Go("idle", {}) /\ UNCHANGED <<age, faults>>
     \/ Fault /\ Go("idle", {}) /\ UNCHANGED age
  /\ UNCHANGED <<flavor, interval, services, refresh, tick, dying, done, alive, registers>>

\* and p.Services.
RegisterName ==
  /\ UserAt("append")
  /\ services' = services \cup user.left /\ Go("idle", {})
  /\ UNCHANGED <<flavor, interval, refresh, tick, dying, done, age, alive, faults, registers>>

\* Unregister: Delete of the node
Unregister(n) ==
  /\ UserAt("idle") /\ services # {}
  /\ \/ Remove(n) /\ Go("unregister", {n}) /\ UNCHANGED faults
     \/ Fault /\ UNCHANGED <<age, user>>
  /\ UNCHANGED <<flavor, interval, services, refresh, tick, dying, done, alive, registers>>

\* and p.Services.
UnregisterName ==
  /\ UserAt("unregister")
  /\ services' = services \ user.left /\ Go("idle", {})
  /\ UNCHANGED <<flavor, interval, refresh, tick, dying, done, age, alive, faults, registers>>

Stop ==
  /\ UserAt("idle")
  /\ Go("stop", services)
  /\ UNCHANGED <<flavor, interval, services, refresh, tick, dying, done, age, alive, faults, registers>>

\* Exists and Delete of one name
StopNode(n) ==
  /\ UserAt("stop") /\ n \in user.left
  /\ \/ Remove(n) /\ UNCHANGED faults
     \/ Fault /\ UNCHANGED age
  /\ Go("stop", user.left \ {n})
  /\ UNCHANGED <<flavor, interval, services, refresh, tick, dying, done, alive, registers>>

\* close(p.dying); <-p.done
StopDying ==
  /\ UserAt("stop") /\ user.left = {}
  /\ dying' = TRUE /\ Go("wait", {})
  /\ UNCHANGED <<flavor, interval, services, refresh, tick, done, age, alive, faults, registers>>

StopReturns ==
  /\ UserAt("wait") /\ done
  /\ Go("stopped", {})
  /\ UNCHANGED <<flavor, interval, services, refresh, tick, dying, done, age, alive, faults, registers>>

\* The process ends without Stop.
Crash ==
  /\ alive
  /\ alive' = FALSE /\ tick' = FALSE
  /\ user' = [pc |-> "stopped", left |-> {}] /\ refresh' = [pc |-> "done", left |-> {}]
  /\ services' = {}
  /\ UNCHANGED <<flavor, interval, dying, done, age, faults, registers>>
-----------------------------------------------------------------------------
RefreshStep == Tick \/ RefreshEnds \/ \E n \in Names : RefreshNode(n)
UserStep == \/ RegisterName \/ UnregisterName \/ StopDying \/ StopReturns
            \/ \E n \in Names : RegisterCreate(n) \/ StopNode(n)
UserCall == \/ Start \/ StartFails \/ Stop
            \/ \E n \in Names : Register(n) \/ RegisterDelete(n) \/ Unregister(n)

RegNext == RefreshStep \/ UserStep \/ UserCall \/ Crash \/ Interval
-----------------------------------------------------------------------------
(* Properties *)

\* While the refresh goroutine runs and the store answers, the node of a
\* registered service exists: its lifetime of two intervals outlasts the wait
\* for the next refresh.  The exception is a service whose node the user has
\* just deleted: in Unregister, in Stop, or in a second Register at zookeeper.
LiveIsRegistered ==
  \A n \in services :
    refresh.pc \in {"select", "pass"} /\ faults = 0 /\ user.pc = "idle" => age[n] # Absent

\* Stop returns if the refresh goroutine runs or Start has failed.  Without an
\* interval nobody closes p.done, and Stop waits for ever.
StopEnds ==
  (user.pc = "wait" /\ (interval > 0 \/ done)) ~> (user.pc = "stopped")
=============================================================================
