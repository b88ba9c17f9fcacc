----------------------------- MODULE MCTransfer -----------------------------
(***************************************************************************)
(* Constants of Transfer for model checking: an upload beside a download,  *)
(* with both handlers or without one for downloads, and two streams, where *)
(* one of the two callers may be silent.                                   *)
(***************************************************************************)
EXTENDS Transfer, TLC

CONSTANTS a, b

MCServices ==
  {[kind |-> a :> "TransferFile" @@ b :> "DownloadFile",
    handlers |-> {"TransferFile", "DownloadFile"}, silent |-> {b}],
   [kind |-> a :> "TransferFile" @@ b :> "DownloadFile",
    handlers |-> {"TransferFile"}, silent |-> {a}],
   [kind |-> a :> "Stream" @@ b :> "Stream", handlers |-> {"Stream"}, silent |-> {a}]}
=============================================================================
