----------------------------- MODULE Selectors ------------------------------
(***************************************************************************)
(* The selectors of an xClient: client/selector_*.go.                      *)
(*                                                                         *)
(* A list of servers with their metadata arrives from the discovery, is    *)
(* filtered and given to the selector (NewXClient, watch); calls select    *)
(* one server each.  Both happen under the xClient's lock.  Metadata is    *)
(* what the code reads of it: whether it is the empty string, whether      *)
(* filterByStateAndGroup lets the server through, its weight and its       *)
(* distance, a set with one number or none.                                *)
(***************************************************************************)
EXTENDS Integers, Sequences, FiniteSets, Functions

CONSTANTS
  Servers,    \* the keys of servers
  Metas,      \* metadata: [empty, shown, weight, distance]
  Modes,      \* select modes
  MaxUpdates, \* bound: lists after the first
  MaxPicks    \* bound: selections from one list

VARIABLES
  mode,     \* the select mode
  servers,  \* c.servers: the filtered list, a function to metadata
  ss,       \* the selector's own servers, in the order in which Go gave the map's keys
  i,        \* of roundRobinSelector
  weight, current, \* Weight and CurrentWeight of the weighted selectors
  ring,     \* the keys of the consistent hash
  picked,   \* what the last Select returned
  updates   \* lists so far

\* History: how often each server was selected from the list that is in force.
VARIABLE count

vars == <<mode, servers, ss, i, weight, current, ring, picked, updates, count>>

None == "none"

\* A weight may be any number, as strconv.Atoi reads it.
ASSUME SelectorConstants ==
  /\ IsFiniteSet(Servers) /\ None \notin Servers /\ MaxUpdates \in Nat
  /\ \A m \in Metas : {m.empty, m.shown} \subseteq BOOLEAN /\ m.weight \subseteq Int /\ m.distance \subseteq Int

Lists == UNION {[S -> Metas] : S \in SUBSET Servers}
Orders(S) == {q \in [1..Cardinality(S) -> S] : \A x \in S : \E n \in DOMAIN q : q[n] = x}
Only(S) == CHOOSE x \in S : TRUE

filterByStateAndGroup(list) == [s \in {x \in DOMAIN list : list[x].shown} |-> list[s]]

\* The weight in the metadata, 1 if there is none or it is no number.
createWeighted(list, s) == IF list[s].weight = {} THEN 1 ELSE Only(list[s].weight)

CalculateWeight(rtt) ==
  CASE rtt \in 0..10 -> 191
    [] rtt \in 11..200 -> 201 - rtt
    [] rtt \in 201..999 -> 1
    [] OTHER -> 0

\* Ping asks the pinger for statistics that it never gathered: 0, or the default
\* of a host that cannot be resolved.
Ping == {0, 1000}

\* createGeoServer leaves out the servers whose metadata has no coordinates.
createGeoServer(list) == {s \in DOMAIN list : list[s].distance # {}}

Listed == DOMAIN servers
Weights(list) ==
  CASE mode = "WeightedRoundRobin" -> {[s \in DOMAIN list |-> createWeighted(list, s)]}
    [] mode = "WeightedICMP" ->
         {[s \in DOMAIN list |-> CalculateWeight(rtt[s])] : rtt \in [DOMAIN list -> Ping]}
    [] OTHER -> {[s \in DOMAIN list |-> 1]}

\* The keys of a map in the order of one iteration, any where it matters.
KeysOf(list) ==
  IF mode \in {"RoundRobin", "WeightedRoundRobin", "WeightedICMP"} THEN Orders(DOMAIN list)
  ELSE {Only(Orders(IF mode = "Closest" THEN createGeoServer(list) ELSE DOMAIN list))}

\* The sum of f over a sequence of servers.
SumAlong(q, f) ==
  LET upto[n \in 0..Len(q)] == IF n = 0 THEN 0 ELSE upto[n - 1] + f[q[n]] IN upto[Len(q)]

----------------------------------------------------------------------------
(* A list is put in force: the constructors at first, UpdateServer after. *)

\* Mutant: keys with metadata are removed from the hash instead.
UpdateRingInverted(list) == (ring \cup DOMAIN list) \ {k \in Listed : k \notin DOMAIN list \/ ~list[k].empty}

\* Mutant: a server that is gone is only removed if it had metadata.
UpdateRingKeeps(list) == (ring \cup DOMAIN list) \ {k \in Listed \ DOMAIN list : ~servers[k].empty}

\* UpdateServer of consistentHashSelector adds the new keys, then removes the old
\* ones whose value is "": those that are gone, and those with empty metadata.
UpdateRing(list) == (ring \cup DOMAIN list) \ {k \in Listed : k \notin DOMAIN list \/ list[k].empty}

\* Mutant: the old weights of the servers that stay are kept.
InForceKeeps(list) ==
  /\ servers' = list
  /\ ss' \in KeysOf(list)
  /\ weight' \in Weights(list)
  /\ current' = [s \in DOMAIN list |-> IF s \in DOMAIN current THEN current[s] ELSE 0]
  /\ count' = [s \in DOMAIN list |-> 0]
  /\ picked' = None

\* The weighted selectors start anew, round robin goes on from its i.
InForce(list) ==
  /\ servers' = list
  /\ ss' \in KeysOf(list)
  /\ weight' \in Weights(list)
  /\ current' = [s \in DOMAIN list |-> 0]
  /\ count' = [s \in DOMAIN list |-> 0]
  /\ picked' = None

Empty == [s \in {} |-> 0]
Init ==
  /\ mode \in Modes
  /\ servers = Empty /\ weight = Empty /\ current = Empty /\ count = Empty
  /\ ss = <<>> /\ i = 0 /\ ring = {} /\ picked = None /\ updates = 0

\* NewXClient and newSelector; a geoSelector is made by ConfigGeoSelector from the same list.
NewXClient ==
  /\ updates = 0
  /\ \E list \in Lists : LET l == filterByStateAndGroup(list) IN InForce(l) /\ ring' = DOMAIN l
  /\ updates' = 1
  /\ UNCHANGED <<mode, i>>

watch ==
  /\ updates \in 1..MaxUpdates
  /\ \E list \in Lists : LET l == filterByStateAndGroup(list) IN InForce(l) /\ ring' = UpdateRing(l)
  /\ updates' = updates + 1
  /\ UNCHANGED <<mode, i>>

----------------------------------------------------------------------------
(* Select. *)

Pick(s) ==
  /\ picked' = s
  /\ count' = IF s = None THEN count ELSE [count EXCEPT ![s] = @ + 1]
  /\ UNCHANGED <<mode, servers, ss, weight, ring, updates>>

RoundRobin ==
  /\ mode = "RoundRobin"
  /\ IF ss = <<>> THEN Pick(None) /\ UNCHANGED i
     ELSE LET n == i % Len(ss) IN Pick(ss[n + 1]) /\ i' = n + 1
  /\ UNCHANGED current

Total == SumAlong(ss, weight)

\* nextWeighted: everyone gains their weight, the first of the greatest is best
\* and pays the total.  EffectiveWeight never differs from Weight.
Gained == [s \in Listed |-> current[s] + weight[s]]
Best == ss[CHOOSE n \in DOMAIN ss :
             \A m \in DOMAIN ss : /\ Gained[ss[m]] <= Gained[ss[n]]
                                  /\ (m < n => Gained[ss[m]] < Gained[ss[n]])]

nextWeighted == current' = [Gained EXCEPT ![Best] = @ - Total]

Weighted ==
  /\ mode \in {"WeightedRoundRobin", "WeightedICMP"}
  /\ IF ss = <<>> THEN Pick(None) /\ UNCHANGED current ELSE Pick(Best) /\ nextWeighted
  /\ UNCHANGED i

RandomSelect ==
  /\ mode = "RandomSelect"
  /\ IF ss = <<>> THEN Pick(None) ELSE \E n \in DOMAIN ss : Pick(ss[n])
  /\ UNCHANGED <<i, current>>

\* The nearest so far and its equals, over the list; one of them at random.
Distance(s) == Only(servers[s].distance)
Nearest ==
  LET best[n \in 0..Len(ss)] ==
        IF n = 0 THEN {}
        ELSE LET s == ss[n] IN
             IF \A b \in best[n - 1] : Distance(s) < Distance(b) THEN {s}
             ELSE IF \A b \in best[n - 1] : Distance(s) = Distance(b) THEN best[n - 1] \cup {s}
             ELSE best[n - 1]
  IN best[Len(ss)]
Closest ==
  /\ mode = "Closest"
  /\ IF ss = <<>> THEN Pick(None) ELSE \E s \in Nearest : Pick(s)
  /\ UNCHANGED <<i, current>>

\* The hash gives some key of the ring, or nil, which becomes the empty string.
ConsistentHash ==
  /\ mode = "ConsistentHash"
  /\ IF ss = <<>> \/ ring = {} THEN Pick(None) ELSE \E s \in ring : Pick(s)
  /\ UNCHANGED <<i, current>>

Picks == SumAlong(ss, count)
Select ==
  /\ updates > 0 /\ Picks < MaxPicks
  /\ RoundRobin \/ Weighted \/ RandomSelect \/ Closest \/ ConsistentHash

Next == NewXClient \/ watch \/ Select
Spec == Init /\ [][Next]_vars

----------------------------------------------------------------------------
TypeOK ==
  /\ mode \in Modes /\ updates \in 0..MaxUpdates + 1
  /\ servers \in Lists /\ Range(ss) \subseteq Listed /\ ring \subseteq Servers
  /\ i \in 0..Cardinality(Servers) /\ DOMAIN weight = Listed
  /\ picked \in Servers \cup {None} /\ DOMAIN current = Listed /\ DOMAIN count = Listed

\* A selector never leads a call to a server that has left the list or was
\* filtered out, whichever lists came before; ConsistentHash keeps a ring of its
\* own, which UpdateServer must bring in step with the list, and Closest names
\* one of the nearest.
SelectedIsListed ==
  /\ ring \subseteq Listed
  /\ picked # None => picked \in Listed
  /\ (picked # None /\ mode = "Closest") =>
        \A s \in createGeoServer(servers) : Distance(picked) <= Distance(s)

\* With a server in the list, Select names one.  There are two exceptions: Closest
\* when no server has coordinates, and ConsistentHash after an update, from whose
\* ring UpdateServer removed every server with empty metadata that stayed.
FoundIfListed ==
  (updates > 0 /\ Listed # {}) =>
     /\ ss = <<>> => mode = "Closest" /\ createGeoServer(servers) = {}
     /\ (mode = "ConsistentHash" /\ ring = {}) => updates > 1 /\ \A s \in Listed : servers[s].empty

Balanced ==
  /\ mode \in {"RoundRobin", "WeightedRoundRobin", "WeightedICMP"}
  /\ Total > 0 /\ \A s \in Listed : weight[s] >= 0

\* What k of n servers can be short of together, with Total as the unit of a
\* call: all n of them of nothing, and k of them of k / (k + 1) of what they are
\* short of with the one that is selected instead, and one call more.  For one
\* server that is 1/2 + 1/3 + ... + 1/n calls: less than one call for n <= 3.
Short(n, T) ==
  LET c[j \in 0..n] == IF j = 0 THEN 0 ELSE ((n - j) * (c[j - 1] + T)) \div (n - j + 1) IN c

\* How far a server is ahead of its exact share of the calls, its weight over the
\* sum of the weights; times Total.
Ahead(s) == count[s] * Total - Picks * weight[s]

\* At every moment a server has been selected less than one call more often than
\* its share, so a server without weight is not selected while another has some;
\* and round robin keeps it less than one call behind, the weighted ones no
\* further than Short.  (Not less than one call: of five servers with the weights
\* 1, 1, 1, 6, 6 one falls a whole call behind.)
ShareKept ==
  Balanced =>
    \A s \in Listed :
      /\ Ahead(s) < Total
      /\ IF mode = "RoundRobin" THEN -Ahead(s) < Total ELSE -Ahead(s) <= Short(Len(ss), Total)[Len(ss) - 1]
=============================================================================
