----------------------------- MODULE Membership -----------------------------
(***************************************************************************)
(* A server that announces itself through a registry plugin, and a client  *)
(* that learns of it: Registry, and Discovery over the nodes of its store. *)
(* A MultipleServersDiscovery gets its lists from the user, without a      *)
(* registry, and where an xClient is made the nodes change at will: it     *)
(* does not matter to it which plugin wrote them.                          *)
(***************************************************************************)
EXTENDS Registry

CONSTANTS
  Address,       \* p.ServiceAddress
  Service,       \* the name whose nodes discovery lists
  SetAt,         \* the <<xc, flavor, interval>> at which the user sets RetriesAfterWatchFailed
  Kinds, Retries, Updates, Inactive, XClients, ChanCap, MaxLists, MaxSends, MaxBreaks

ASSUME MembershipConstants ==
  Service \in Names /\ Retries \subseteq Int /\ XClients \subseteq {"none", "never"}

VARIABLES kind, retries, w, pairs, watched, sends, ch, chClosed, xc, servers, lost

\* The nodes below basePath
Tree == IF age[Service] = Absent THEN {} ELSE {Address}

D == INSTANCE Discovery WITH tree <- Tree

disVars == <<kind, retries, w, pairs, watched, sends, ch, chClosed, xc, servers, lost>>
vars == <<regVars, disVars>>

TypeOK == RegTypeOK /\ D!DisTypeOK

Init ==
  /\ RegInit /\ D!DisInit
  /\ kind = "multiple" => xc = "none"
  /\ xc = "none" => flavor = "consul" /\ interval = 0

\* A node appears or goes.
OtherServer ==
  /\ kind = "consul" /\ xc # "never"
  /\ \E a \in {Absent, Forever} : age' = [age EXCEPT ![Service] = a]
  /\ UNCHANGED <<flavor, interval, services, user, refresh, tick, dying, done, alive, faults,
                 registers, disVars>>

Next ==
  \/ xc = "never" /\ RegNext /\ UNCHANGED disVars
  \/ OtherServer
  \/ D!DisNext /\ UNCHANGED regVars
  \/ <<xc, flavor, interval>> \in SetAt /\ (\E r \in Retries : D!SetRetries(r)) /\ UNCHANGED regVars

\* Goroutines run, timers fire, time passes, a watch can be set up in the end, and
\* a select does not neglect a closed channel for ever.  The user need not call
\* anything.
Fairness ==
  /\ WF_vars(RefreshStep /\ UNCHANGED disVars) /\ WF_vars(UserStep /\ UNCHANGED disVars)
  /\ SF_vars(RefreshEnds /\ UNCHANGED disVars) /\ WF_vars(Interval /\ UNCHANGED disVars)
  /\ WF_vars(D!WatchStep /\ UNCHANGED regVars) /\ SF_vars(D!WatchTree /\ UNCHANGED regVars)
  /\ WF_vars(D!XClientStep /\ UNCHANGED regVars) /\ WF_vars(D!SendStep /\ UNCHANGED regVars)

Spec == Init /\ [][Next]_vars /\ Fairness
-----------------------------------------------------------------------------
(* Properties *)

Settled == D!Settled
GivesUpAfterRetries == D!GivesUpAfterRetries

\* A server that has stopped or crashed is no longer listed by a ConsulDiscovery
\* whose watch has not ended and does not listen to nil: its node expires,
\* whatever the refresh goroutine wrote last, and the watch, set up again as often
\* as needed, reports it.
DeadIsForgotten ==
  (interval > 0 /\ user.pc = "stopped") ~> (Address \notin pairs.s \/ w.pc \in {"gone", "deaf"})
=============================================================================
