SPECIFICATION Spec
CONSTANTS
  s1 = s1
  s2 = s2
  NoFd = NoFd
  Nobody = Nobody
  Sockets <- TwoSockets
  EventObjs <- TwoSockets
  Fds <- TwoFds
  Modes = {"async"}
  ConnectResults = {"inprogress", "connected", "error"}
  Timeouts = {"armed"}
  BusyConnect = TRUE
SYMMETRY SocketSymmetry
INVARIANTS
  OneEventPerFd
  DescriptorsExclusive
