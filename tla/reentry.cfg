SPECIFICATION Spec
CONSTANTS
  EventObjs = {s1, s2}
  Tests = {t1, t2}
  Main = Main
  NoFd = NoFd
  Fds <- TwoFds
  MaxSent = 2
  MaxDepth = 6
  Styles <- AllStyles
INVARIANTS
  DatagramsKept
  EventsMatchOwners
  VerdictsAreTrue
  CallsSound
SYMMETRY Symmetry
