CONSTANTS
  c1 = c1
  c2 = c2
  Callers = {c1, c2}
  Usages <- TwoReadersOrSignals
  RX_SIZE = 3
  TX_SIZE = 2
  MAX_LEN = 2
  BATCH = 1
  MaxIgnored = 2
SPECIFICATION Spec
INVARIANT TypeOK
INVARIANT ReadersGetTheStream
INVARIANT WireGetsTheStream
INVARIANT ReadersAreWoken
