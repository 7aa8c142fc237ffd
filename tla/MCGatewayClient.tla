-------------------------- MODULE MCGatewayClient --------------------------
(* Instances of GatewayClient for TLC.  (No symmetry: the runs check        *)
(* liveness.)                                                              *)
EXTENDS GatewayClient
=============================================================================
