CONSTANTS
  Servers = {v1, c1}
  Channels = {c1}
  Streams = {s1, s2}
  Datagrams = {}
  FD = {f1, f2}
  INVALID_SOCKET = INVALID_SOCKET
  Nobody = Nobody
  Domains = {"AF_INET", "AF_INET6", "AF_UNIX"}
  Hosts = {}
  MaxBacklog = 1
  CloseErr = {}
  Receivers = {s1, s2}
  Uses = {}
SYMMETRY Symmetry
SPECIFICATION ChannelSpec
INVARIANTS NoDescriptorLost ClosedHasNoFd EndpointsAgree DeletedHoldsNothing
PROPERTIES KeepsOwnership ChannelCloseCloses CreateReturns
CHECK_DEADLOCK FALSE
