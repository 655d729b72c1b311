-------------------------- MODULE MCShortestPaths --------------------------
EXTENDS ShortestPaths
=============================================================================
