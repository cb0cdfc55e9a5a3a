SPECIFICATION FairSpec
CONSTANTS
  s1 = s1
  s2 = s2
  NoFd = NoFd
  Nobody = Nobody
  Sockets <- OneSocket
  EventObjs <- OneSocket
  Fds <- TwoFds
  Modes = {"async"}
  ConnectResults = {"inprogress"}
  Timeouts = {"armed", "due"}
  BusyConnect = FALSE
INVARIANTS
  SocketsWatched
PROPERTIES
  GivesUpForCause
  AttemptAnswered
  LoopTerminates
