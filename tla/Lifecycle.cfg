CONSTANTS
  Servers = {v1}
  Streams = {s1, s2}
  Datagrams = {}
  FD = {f1, f2}
  INVALID_SOCKET = INVALID_SOCKET
  Nobody = Nobody
  Domains = {"AF_INET"}
  Hosts = {"valid"}
  MaxBacklog = 1
  CloseErr = {"kept"}
  Receivers = {s2}
  Uses = {}
SYMMETRY Symmetry
SPECIFICATION Spec
INVARIANTS TypeOK OwnsFd OpenIsReal ConnectingIsReal ShutdownReported
