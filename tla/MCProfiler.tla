----------------------------- MODULE MCProfiler -----------------------------
EXTENDS Profiler
=============================================================================
