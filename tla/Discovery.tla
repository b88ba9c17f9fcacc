----------------------------- MODULE Discovery -----------------------------
(***************************************************************************)
(* Service discovery and one xClient that uses it: ConsulDiscovery         *)
(* (client/discovery_consul.go), MultipleServersDiscovery                  *)
(* (client/discovery_multiple_servers.go), and NewXClient, watch and Close *)
(* of client/xclient.go.                                                   *)
(*                                                                         *)
(* tree is what the registry holds; its changes are those of somebody      *)
(* else.  A list carries the number of its publication.  Each publication  *)
(* is sent to the watcher's channel by a goroutine of its own.             *)
(***************************************************************************)
EXTENDS Integers, Sequences, FiniteSets

CONSTANTS
  Kinds,         \* the discoveries considered: "consul", "multiple"
  Retries,       \* the values the user may give to RetriesAfterWatchFailed
  Updates,       \* the lists the user gives to Update
  Inactive,      \* the servers whose metadata say state=inactive
  ChanCap,       \* capacity of the watcher's channel, 10 in the code
  XClients,      \* {"none"}: an xClient is made, {"never"}: none is, or both
  MaxLists,      \* bound on publications
  MaxSends,      \* bound on the goroutines that send at a time
  MaxBreaks      \* bound on the times the registry ends a watch

VARIABLES
  tree,
  kind,
  retries,       \* RetriesAfterWatchFailed
  w,             \* the goroutine of watch, or the call of Update
  pairs,         \* d.pairs
  watched,       \* the channel is in d.chans
  sends,         \* the lists that goroutines are sending
  ch, chClosed,  \* the channel
  xc,            \* the xClient's place
  servers,       \* its servers, and the publication they are from
  lost           \* publications that the xClient did not get, or lost again

disVars == <<kind, retries, w, pairs, watched, sends, ch, chClosed, xc, servers, lost>>

\* first: the value of the field when the loop over retries began; same: it has
\* not been set since.  failed: the failures of WatchTree in this loop.  seen: what
\* the watch reported last.  Nothing: no report yet.
Nothing == {"nothing"}
Idle == [pc |-> "begin", retry |-> 0, first |-> 0, same |-> TRUE, failed |-> 0, breaks |-> 0,
         seen |-> Nothing, stop |-> FALSE]

DisTypeOK ==
  /\ kind \in Kinds /\ retries \in Retries \cup {-1}
  /\ w.pc \in {"begin", "loop", "watch", "read", "notify", "deaf", "pairs", "gone"}
  /\ {w.retry, w.first} \subseteq Int /\ w.failed \in Nat /\ w.breaks \in 0..MaxBreaks
  /\ {w.same, w.stop} \subseteq BOOLEAN
  /\ pairs.n \in 0..MaxLists
  /\ {watched, chClosed} \subseteq BOOLEAN
  /\ \A l \in sends : l.n \in 1..MaxLists
  /\ Len(ch) <= ChanCap
  /\ xc \in {"never", "none", "made", "watching", "removing", "closing", "closed"}
  /\ servers.n \in 0..MaxLists
  /\ lost \subseteq 0..MaxLists

DisInit ==
  /\ kind \in Kinds /\ retries = -1 /\ w = Idle
  /\ pairs = [n |-> 0, s |-> tree]
  /\ watched = FALSE /\ sends = {} /\ ch = <<>> /\ chClosed = FALSE
  /\ xc \in XClients /\ servers = [n |-> 0, s |-> {}] /\ lost = {}

\* Mutant: an empty list is ignored.
PublishedNonEmpty(s) ==
  IF s = {} THEN pairs ELSE [n |-> IF xc = "never" THEN 0 ELSE pairs.n + 1, s |-> s]

\* Without an xClient nobody asks which publication a list is.
Published(s) == [n |-> IF xc = "never" THEN 0 ELSE pairs.n + 1, s |-> s]
MayPublish == xc = "never" \/ (pairs.n < MaxLists /\ Cardinality(sends) < MaxSends)

watcherVars == <<watched, sends, ch, chClosed, xc, servers, lost>>
-----------------------------------------------------------------------------
(* ConsulDiscovery.watch *)

\* The user sets the field of a discovery whose watch runs already: the
\* constructor has started it.
SetRetries(r) ==
  /\ kind = "consul" /\ r # retries
  /\ retries' = r /\ w' = [w EXCEPT !.same = w.pc \notin {"loop", "watch"}]
  /\ UNCHANGED <<kind, pairs, watcherVars>>

\* retry := d.RetriesAfterWatchFailed
Begin ==
  /\ kind = "consul" /\ w.pc = "begin"
  /\ w' = [w EXCEPT !.pc = "loop", !.retry = retries, !.first = retries]
  /\ UNCHANGED <<kind, retries, pairs, watcherVars>>

\* Mutant: the last retry is not made.
AgainLess(retry) == retries < 0 \/ retry > 0

\* The condition of the loop over retries, which reads the field again
Again(retry) == retries < 0 \/ retry >= 0

\* The head of the loop.  If it ends at once there is no error, and c is nil:
\* watch listens to it for ever.
Loop ==
  /\ w.pc = "loop"
  /\ w' = [w EXCEPT !.pc = IF Again(w.retry) THEN "watch" ELSE IF w.failed = 0 THEN "deaf" ELSE "gone"]
  /\ UNCHANGED <<kind, retries, pairs, watcherVars>>

\* The locals of the loop are forgotten.
WatchTree ==
  /\ kind = "consul" /\ w.pc = "watch"
  /\ w' = [Idle EXCEPT !.pc = "read", !.breaks = w.breaks, !.stop = w.stop]
  /\ UNCHANGED <<kind, retries, pairs, watcherVars>>

\* An error of WatchTree, and the sleep.  Below 0 retry counts no further, and
\* failures are counted up to two more than the field asked for, or one.
WatchFails ==
  /\ kind = "consul" /\ w.pc = "watch"
  /\ w' = [w EXCEPT !.pc = "loop", !.retry = IF retries > 0 /\ @ >= 0 THEN @ - 1 ELSE @,
                     !.failed = IF @ > 0 /\ @ > w.first + 1 THEN @ ELSE @ + 1]
  /\ UNCHANGED <<kind, retries, pairs, watcherVars>>

\* case ps := <-c, and d.pairs.  For an empty tree the registry may report nil.
Report ==
  /\ kind = "consul" /\ w.pc = "read" /\ w.seen # tree /\ MayPublish
  /\ pairs' = Published(tree)
  /\ \/ w' = [w EXCEPT !.pc = "notify", !.seen = tree] /\ UNCHANGED lost
     \/ /\ tree = {} /\ w' = [w EXCEPT !.seen = tree]
        /\ lost' = IF xc \in {"never", "none"} THEN lost ELSE lost \cup {pairs.n + 1}
  /\ UNCHANGED <<kind, retries, watched, sends, ch, chClosed, xc, servers>>

\* Mutant: the watcher is not told.
TellNobody(l) == UNCHANGED sends

\* A goroutine for every channel of d.chans
Tell(l) == sends' = IF watched THEN sends \cup {l} ELSE sends

\* the rest, under d.mu
Notify ==
  /\ w.pc = "notify"
  /\ Tell(pairs)
  /\ w' = [w EXCEPT !.pc = "read"]
  /\ UNCHANGED <<kind, retries, pairs, watched, ch, chClosed, xc, servers, lost>>

\* The registry closes c.
WatchEnds ==
  /\ kind = "consul" /\ w.pc = "read" /\ w.breaks < MaxBreaks
  /\ w' = [w EXCEPT !.pc = "begin", !.breaks = @ + 1]
  /\ UNCHANGED <<kind, retries, pairs, watcherVars>>

\* Close of the discovery, and case <-d.stopCh.
Close ==
  /\ kind = "consul" /\ ~w.stop
  /\ w' = [w EXCEPT !.stop = TRUE]
  /\ UNCHANGED <<kind, retries, pairs, watcherVars>>

Stopped ==
  /\ w.pc \in {"read", "deaf"} /\ w.stop
  /\ w' = [w EXCEPT !.pc = "gone"]
  /\ UNCHANGED <<kind, retries, pairs, watcherVars>>
-----------------------------------------------------------------------------
(* MultipleServersDiscovery.Update: tells the watchers, then sets d.pairs *)

Update(s) ==
  /\ kind = "multiple" /\ w.pc = "begin" /\ MayPublish
  /\ Tell(Published(s))
  /\ w' = [w EXCEPT !.pc = "pairs", !.seen = s]
  /\ UNCHANGED <<kind, retries, pairs, watched, ch, chClosed, xc, servers, lost>>

UpdatePairs ==
  /\ w.pc = "pairs"
  /\ pairs' = Published(w.seen)
  /\ w' = [w EXCEPT !.pc = "begin", !.seen = Nothing]
  /\ UNCHANGED <<kind, retries, watched, sends, ch, chClosed, xc, servers, lost>>

\* d.mu is held.
Locked == w.pc = "pairs"
-----------------------------------------------------------------------------
(* The goroutines that send *)

\* ch <- pairs; on a closed channel it panics, which is recovered.
Send(l) ==
  /\ l \in sends /\ (chClosed \/ Len(ch) < ChanCap)
  /\ sends' = sends \ {l}
  /\ ch' = IF chClosed THEN ch ELSE Append(ch, l)
  /\ UNCHANGED <<kind, retries, w, pairs, watched, chClosed, xc, servers, lost>>

\* case <-time.After(time.Minute)
GiveUp(l) ==
  /\ l \in sends /\ ~chClosed /\ Len(ch) = ChanCap
  /\ sends' = sends \ {l} /\ lost' = lost \cup {l.n}
  /\ UNCHANGED <<kind, retries, w, pairs, watched, ch, chClosed, xc, servers>>
-----------------------------------------------------------------------------
(* The xClient *)

\* filterByStateAndGroup
Filter(s) == s \ Inactive

\* NewXClient: GetServices
NewXClient ==
  /\ xc = "none"
  /\ servers' = [n |-> pairs.n, s |-> Filter(pairs.s)] /\ xc' = "made"
  /\ UNCHANGED <<kind, retries, w, pairs, watched, sends, ch, chClosed, lost>>

\* and WatchService.
WatchService ==
  /\ xc = "made" /\ ~Locked
  /\ watched' = TRUE /\ xc' = "watching"
  /\ lost' = IF servers.n = pairs.n \/ w.pc = "notify" THEN lost ELSE lost \cup {pairs.n}
  /\ UNCHANGED <<kind, retries, w, pairs, sends, ch, chClosed, servers>>

\* One turn of watch's loop, which ends when the channel is closed and empty.
Receive ==
  /\ xc \notin {"none", "made"} /\ ch # <<>>
  /\ LET l == Head(ch) IN
       /\ servers' = [n |-> l.n, s |-> Filter(l.s)]
       /\ lost' = IF l.n < servers.n THEN lost \cup {servers.n} ELSE lost
  /\ ch' = Tail(ch)
  /\ UNCHANGED <<kind, retries, w, pairs, watched, sends, chClosed, xc>>

\* Close: its goroutine removes the watcher and closes the channel.
CloseXClient ==
  /\ xc = "watching"
  /\ xc' = "removing"
  /\ UNCHANGED <<kind, retries, w, pairs, watched, sends, ch, chClosed, servers, lost>>

RemoveWatcher ==
  /\ xc = "removing" /\ ~Locked
  /\ watched' = FALSE /\ xc' = "closing"
  /\ UNCHANGED <<kind, retries, w, pairs, sends, ch, chClosed, servers, lost>>

CloseChan ==
  /\ xc = "closing"
  /\ chClosed' = TRUE /\ xc' = "closed"
  /\ UNCHANGED <<kind, retries, w, pairs, watched, sends, ch, servers, lost>>
-----------------------------------------------------------------------------
WatchStep == Begin \/ Loop \/ Report \/ Notify \/ Stopped \/ UpdatePairs
XClientStep == WatchService \/ Receive \/ RemoveWatcher \/ CloseChan
SendStep == \E l \in sends : Send(l) \/ GiveUp(l)

DisNext ==
  \/ WatchStep \/ WatchTree \/ WatchFails \/ WatchEnds \/ Close
  \/ \E s \in Updates : Update(s)
  \/ SendStep \/ XClientStep \/ NewXClient \/ CloseXClient
-----------------------------------------------------------------------------
(* Properties *)

Quiet == sends = {} /\ ch = <<>> /\ w.pc \notin {"notify", "pairs"}

\* When nothing is under way, a watching xClient uses the servers of d.pairs.
\* There are four exceptions for the last list published, and no other: it came
\* between GetServices and WatchService, it was the nil of an empty registry, it
\* was dropped after a minute, or an older list overtook it.
Settled ==
  xc = "watching" /\ Quiet =>
    servers = [n |-> pairs.n, s |-> Filter(pairs.s)] \/ pairs.n \in lost

\* The loop of watch ends without a watch never while RetriesAfterWatchFailed is
\* negative, and not before one failure more than the number that the field held
\* when the loop began, however the user sets it meanwhile.  With the field left
\* alone it ends after exactly that many failures, if it ends: with 0, which is to
\* mean no retry, it does not, and of that nothing is said.
GivesUpAfterRetries ==
  [][w.pc = "loop" /\ w'.pc \in {"gone", "deaf"} =>
       /\ retries >= 0 /\ w.failed >= w.first + 1
       /\ w.same => w.first >= 0 /\ w.failed = w.first + 1]_disVars
=============================================================================
