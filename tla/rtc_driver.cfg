CONSTANTS
  Proc = {1, 2, 3}
  Setters = {1}
  Readers = {2}
  Freqs = {4, 512}
SPECIFICATION RtcFairSpec
INVARIANT DeviceAsSet
PROPERTIES NoEarlyReturn ReadReturns
