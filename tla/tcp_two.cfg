SPECIFICATION Spec
CONSTANTS
  s1 = s1
  s2 = s2
  NoFd = NoFd
  Nobody = Nobody
  Sockets <- TwoSockets
  EventObjs <- TwoSockets
  Fds <- TwoFds
  Modes = {"async", "sync"}
  ConnectResults = {"inprogress", "connected", "error"}
  Timeouts = {"armed"}
  BusyConnect = FALSE
SYMMETRY SocketSymmetry
INVARIANTS
  EventsMatchSockets
  NoDescriptorLeak
PROPERTIES
  NotifiedInOrder
