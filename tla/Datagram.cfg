CONSTANTS
  Slot = {a, b}
  Impl = {i1, i2, i3}
  Addr4 = {"any", "sender"}
  Addr6 = {"six"}
  ANY4 = "any"
  Port = {1}
  Scope = {"link"}
  Null = Null
  Free = Free
  Packet = {p, q}
  Capacities = {3}
  Senders <- SendersVal
SYMMETRY Symmetry
SPECIFICATION Spec
INVARIANTS OwnedOnce SentWhereAddressed WithinPacket
PROPERTIES KeepsAddresses
CHECK_DEADLOCK FALSE
