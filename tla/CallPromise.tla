---------------------------- MODULE CallPromise ----------------------------
(***************************************************************************)
(* What a client promises of the two-way calls made on it: a call that was *)
(* issued ends at most once, with the reply to its own request or with an  *)
(* error, and how it ended never changes.  One event may end several calls *)
(* (the connection goes down).                                             *)
(***************************************************************************)
CONSTANTS Calls, NoCall

VARIABLES
  status,   \* of each call: "idle", "open", "ok" or "failed"
  got       \* the call whose reply each call returned with

Init ==
  /\ status = [c \in Calls |-> "idle"]
  /\ got = [c \in Calls |-> NoCall]

Issue(c) ==
  /\ status[c] = "idle"
  /\ status' \in {[status EXCEPT ![c] = s] : s \in {"open", "failed"}}
  /\ UNCHANGED got

Succeed(c) ==
  /\ status[c] = "open"
  /\ status' = [status EXCEPT ![c] = "ok"]
  /\ got' = [got EXCEPT ![c] = c]

Fail(S) ==
  /\ S # {}
  /\ \A c \in S : status[c] = "open"
  /\ status' = [c \in Calls |-> IF c \in S THEN "failed" ELSE status[c]]
  /\ UNCHANGED got

Next ==
  \/ \E c \in Calls : Issue(c) \/ Succeed(c)
  \/ \E S \in SUBSET Calls : Fail(S)

Spec == Init /\ [][Next]_<<status, got>>
=============================================================================
