--------------------- MODULE MC_TikvNodePortServices ---------------------
(* The NodePort services on three ordinals and two nodes.                 *)
EXTENDS TikvNodePortServices

MCNodes == {"10.0.0.1", "10.0.0.2"}
=============================================================================
