------------------------------ MODULE MCRPCBench ------------------------------
(* Instance of RPCBench for TLC: thread i of the client uses thread i of the  *)
(* server and is known to it by its number.                                   *)
EXTENDS RPCBench, TLC

CONSTANTS c0, c1, w0, w1

MCServerOf == (c0 :> w0) @@ (c1 :> w1)
MCSessionId == (c0 :> 0) @@ (c1 :> 1)
MCRecvDepth == (c0 :> 2) @@ (c1 :> 1) @@ (w0 :> 4) @@ (w1 :> 2)
=============================================================================
