--------------------------- MODULE MCRpcFailover ---------------------------
(***************************************************************************)
(* Two callers and two providers whose configured order is not their       *)
(* priority order.                                                         *)
(***************************************************************************)
EXTENDS RpcFailover, TLC

MCPriority == 1 :> 2 @@ 2 :> 1

=============================================================================
