SPECIFICATION RingSpec
CONSTANTS
  Width = 2
  PROFILER_BUFFER_LEN = 8
  BUFD_MAX = 6
  MaxSamples = 5
INVARIANTS
  EachSampleOnce
  NoWordTwice
