------------------------- MODULE MCNeighborMonitor -------------------------
EXTENDS NeighborMonitor
=============================================================================
