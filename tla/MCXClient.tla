----------------------------- MODULE MCXClient -----------------------------
(***************************************************************************)
(* Instances of XClient for TLC.                                           *)
(***************************************************************************)
EXTENDS XClient

CONSTANTS s1, s2, p1, p2

\* One goroutine always runs Call.
KindsOf == [p \in Callers |-> IF p = p1 THEN {"Call"} ELSE {"SendRaw", "Sweep"}]
=============================================================================
