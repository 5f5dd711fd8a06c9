------------------------ MODULE MC_TikvMemberManager ------------------------
(* Instances of the member manager for TLC: two pod templates (the one    *)
(* the cluster starts on and the one an edit upgrades it to), and the     *)
(* replica counts the user may ask for in each configuration.             *)
EXTENDS TikvMemberManager

MCTemplates == {"T1", "T2"}
MCSpecReplicas == {1, 2}
MCOneReplica == {1}
MCScaleOut == {1, 3}

(* Partial-order reduction for the core_safety run: the watch delivers    *)
(* the live set to the lister cache only between two Syncs.  The cache is *)
(* read only when a Sync starts, and a set the live object holds only in  *)
(* the middle of a Sync is either still live when the Sync ends or is the *)
(* oldSet the Sync has already read, so every value a read can see is     *)
(* still delivered.                                                       *)
CacheDeliveredBetweenSyncs == setCache' # setCache => pc = "Idle"
=============================================================================
