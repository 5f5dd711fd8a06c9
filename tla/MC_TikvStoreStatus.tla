-------------------------- MODULE MC_TikvStoreStatus --------------------------
(* Instances of TikvStoreStatus for TLC.  Two owned stores give a store   *)
(* drained or flapping while the other heartbeats; an external store      *)
(* (an address of another cluster) exercises the owned-address filter.   *)
EXTENDS TikvStoreStatus

MCTwoOwned == {1, 2}
MCOneOwned == {1}
MCOneExternal == {1, 2}
=============================================================================
