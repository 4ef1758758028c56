SPECIFICATION Spec
CONSTANTS
  SEQ = 16
  ISS <- MC_ISS
  TX_BUF = 2
  RX_BUF = 1
  TCP_MSS = 2
  WINDOW = 2
  MAX_RETRIES = 1
  Foreign = {"c"}
  REORDER = FALSE
  MARKERS = 2
  NET_MAX <- MC_NET_MAX
  GwIp = "gw"
  ZeroIp = "zero"
  Stations = {"a"}
  Macs = {1, 2}
  ARP_CACHE_MAX = 2
  RX_MAX = 1
  MAX_PINGS = 1
  MAX_DATAGRAMS = 1
  QUEUE_SIZE = 4
  IDX_MAX = 4
  RX_COUNT = 3
  DRAIN = 2
  BURST = 3
  NIC_FRAMES = 5
  NIC_OUT = 2
INVARIANTS
  CleanCloseIsComplete
  LearnedIsLatest
  SentOnceInOrder
  HeardOnceInOrder
PROPERTIES
  ImplementsStream
  NeverWaitsForever
  GatewayIsResolved
  FlushNeverDrops
CHECK_DEADLOCK FALSE
