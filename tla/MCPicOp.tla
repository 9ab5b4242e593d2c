------------------------------ MODULE MCPicOp ------------------------------
(* Every call may fail. *)
EXTENDS PicOp

=============================================================================
