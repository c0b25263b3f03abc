SPECIFICATION PoolSpec
CONSTANTS
  Sockets = {s1, s2, s3}
  Dialable = {"a1", "a2", "b1"}
  Calling = {"a1"}
  Hosts = {"h1", "h2"}
  HostOf <- TwoHosts
  MaxPeers = 2
  MaxHalfOpen = 2
  MaxCandidates = 2
  ConnectTimeout = 1
  HandshakeTimeout = 2
  NoAddr = NoAddr

INVARIANTS KnownCoversDialled
