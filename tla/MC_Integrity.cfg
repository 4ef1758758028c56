SPECIFICATION Spec
CONSTANTS
  CLUSTERS = 4
  CB = 2
  FPS = 3
  fat_sectors = 2
  FileNames = {"A", "B"}
  ROOT <- MC_ROOT
  FAT0 <- MC_FAT0
  N_FDS = 2
  Payloads <- MC_Payloads
  MAX_SIZE = 3
  CRASHES = 1
  IO_ERRORS = 1
  MemTasks = {"t", "u"}
  Ram = {0, 1, 2, 3, 4, 5, 6, 7, 8, 9, 10}
  Zone = {20}
  ZeroPage = 0
  RUN_MAX = 1
  MAX_SPAWNS = 2
  MEM_CALLS = 4
  VA_PAGES = 24
  High = {33}
  BLOCK_PAGES = 8
  ZONE_BASE = 10
  Reserved = {0, 1, 2, 3, 4}
  Stack <- MC_Stack
  TASK_REGIONS = 2
  Values = {1}
  CHUNK = 5
  MAX_CHUNKS = 2
  ChunkBases = {0, 5, 20}
  Sizes = {1, 2, 6}
  BlobNames = {"m", "n"}
  Blobs = {"x", "y"}
  STORE_SLOTS = 2
  KeyIds = {0}
  CTR_MAX = 1
  MAX_GENS = 2
  MAX_SMCS = 4
  PARKED = {1}
  ITERS = 3
  MAX_EXPIRIES = 2
  Apps = {"p", "q"}
  Canvases = {"c1", "c2"}
  MAX_WINDOWS = 2
  COLUMNS = 1
  MAX_CREATED = 2
  MAX_DRAWS = 1
  QUEUE_SIZE = 4
  IDX_MAX = 8
  GPU_DRAWS = 3
  GPU_COMMANDS = 11
INVARIANTS
  VolumeSound
  AcknowledgedBytesStay
  OpenFilesArePrefixes
  TablesAreSound
  FreeFramesAreUnmapped
  PrivatePagesKeepWrites
  BlocksTileTheHeap
  StoreHoldsLastPut
  SealsNeverSharePad
  SecureTicksCountedOnce
  StartedWhereAsked
  WindowTableIsSound
  FlushIsComposited
  PresentedIsShown
CHECK_DEADLOCK FALSE
