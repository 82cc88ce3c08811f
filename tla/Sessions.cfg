CONSTANTS
  Addresses = {1, 2, 3}
  Master = 2
  PortsPerHost = 1
  Networks <- MCNetworks
  Observed = 3
  MaxSessions = 2
  MaxStarts = 2
SPECIFICATION Spec
CHECK_DEADLOCK FALSE
INVARIANTS
  TypeOK
  HeardIff
  ExchangeAreaInPlace
