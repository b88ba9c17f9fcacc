---------------------------- MODULE MCMembership ----------------------------
(***************************************************************************)
(* Constants of Membership for model checking.                             *)
(***************************************************************************)
EXTENDS Membership

CONSTANTS n1, a1, a2

RetryCounts == {-1, 0, 2}

\* The loop that reads the field asks neither for an xClient nor for the registry.
Alone == {<<"never", "consul", 0>>}

\* What the user gives to Update: a2 is inactive.
UserLists == {{}, {a1, a2}}
=============================================================================
