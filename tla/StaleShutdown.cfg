CONSTANTS
  Servers = {v1}
  Streams = {s1}
  Datagrams = {}
  FD = {f1}
  INVALID_SOCKET = INVALID_SOCKET
  Nobody = Nobody
  Domains = {"AF_INET"}
  Hosts = {"valid"}
  MaxBacklog = 1
  CloseErr = {}
  Receivers = {}
  Uses = {}
SYMMETRY Symmetry
SPECIFICATION Spec
PROPERTY NewSocketNotShut
