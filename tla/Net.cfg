SPECIFICATION NetSpec
CONSTANTS
  Procs = {p1, p2, netout}
  Nobody = Nobody
  netin = netin
  netout = netout
  ENUMRCV = 3
  EXRETRY = 1
  MaxFrames = 5
  MaxSends = 2
  Hosts = {gateway, host}
  Gateway = gateway
  Broadcast = Broadcast
  AR_TAB = 2
  AR_RTRY = 2
  NETBUFS = 3
  Ndg = 2
  NETQLEN = 1
  NETFQ = 1
  UdpPorts = {1, 2}
  MaxInputs = 6
  Nrf = 1
  RMAXTRY = 2
  Files = {f}
  MaxPos = 1
  MaxRequests = 3
  MaxFlying = 2
  Letters = {x, y}
  NAMPLEN = 2
  NAMLEN = 4
  NNAMES = 3
  MaxMounts = 2
SYMMETRY UserPerms
INVARIANTS
  FramesInOrder
  EtherDue
  RightHost
  AnswerReaches
  PacketBuffers
  DevicesApart
PROPERTIES
  AcknowledgedDone
  NamesSound
CHECK_DEADLOCK FALSE
