------------------------- MODULE MC_TikvStoreLabels -------------------------
EXTENDS TikvStoreLabels

MCStores == {0, 1}
MCNodes == {"n1", "n2"}
MCLocationKeys == {"zone", "host"}
MCVals == {"a", "b"}
=============================================================================
