---------------------------- MODULE MCRpcCallback ----------------------------
(***************************************************************************)
(* Constants for the model checking of RpcCallback: rpc_control 1 counts   *)
(* down to 0, which blocks; -1 does not block.                             *)
(***************************************************************************)
EXTENDS RpcCallback

MCControls == {-1, 0, 1}
=============================================================================
