--------------------------- MODULE MCGatewayWorker ---------------------------
(***************************************************************************)
(* A small instance of GatewayWorker: two threads, a few messages and      *)
(* control frames.                                                         *)
(***************************************************************************)
EXTENDS GatewayWorker
=============================================================================
