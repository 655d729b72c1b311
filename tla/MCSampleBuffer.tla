--------------------------- MODULE MCSampleBuffer ---------------------------
EXTENDS SampleBuffer
=============================================================================
