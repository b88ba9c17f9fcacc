---------------------------- MODULE MCRpcServer ----------------------------
(***************************************************************************)
(* Instances of RpcServer for TLC: two connections, and the requests sent  *)
(* on each of them.                                                        *)
(***************************************************************************)
EXTENDS RpcServer

CONSTANTS c1, c2, r1, r2, r3

\* r1 and r2 share a connection.
ConnOfReq == [r \in Reqs |-> IF r = r3 THEN c2 ELSE c1]
=============================================================================
