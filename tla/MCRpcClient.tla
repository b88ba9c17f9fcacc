---------------------------- MODULE MCRpcClient ----------------------------
(***************************************************************************)
(* Instances of RpcClient for TLC.  The calls are model values named after *)
(* the function that makes them: s for Call, a for Go, h for the           *)
(* heartbeat, r for SendRaw; k is a user that calls Close.                 *)
(***************************************************************************)
EXTENDS RpcClient

\* Raw messages with numbers client.seq never reaches, all different.
FreshRawSeq ==
  CHOOSE f \in [RawCalls -> MaxSeq + 1..MaxSeq + Cardinality(RawCalls)] :
    \A c, d \in RawCalls : f[c] = f[d] => c = d
=============================================================================
