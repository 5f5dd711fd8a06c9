--------------------- MODULE MC_TikvComponentAccessor ---------------------
EXTENDS TikvComponentAccessor

MCVals == {"v1", "v2"}
MCKeys == {"k", "sysctl-init"}
MCSysctls == {"s1"}
\* Toleration lists: unset, explicitly empty, and one toleration.
MCTolerations == {NilList, <<>>, <<"v1">>}
MCConfigs == {"c1", "c2"}
=============================================================================
