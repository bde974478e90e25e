CONSTANTS
  Parts = {"channel", "upstream", "request", "cache", "pipe", "http2", "resolver", "slab"}
  \* Rwlock: three processes, a three-bit word, two deaths
  Procs = {q1, q2, q3}
  WLOCK = 7
  MaxCrashes = 2
  \* Channel: four children in all, one told to quit, one failing spawn
  SlotCount = 3
  MaxStarts = 3
  MaxPids = 4
  MaxQuits = 1
  MaxFaults = 1
  Buffer = 3
  \* Upstream: two requests, three servers, one idle connection
  pa = pa
  pb = pb
  pz = pz
  r1 = r1
  r2 = r2
  Primary <- TwoPrimary
  Backup <- OneBackup
  Weight <- Weights
  MaxConns <- ConnLimits
  MaxFails = 1
  FailTimeout = 1
  NoPeer = NoPeer
  Requests = {r1, r2}
  Kinds <- SafeAndPost
  NextUpstream = {"error", "timeout", "http_404"}
  MaxTries = 2
  NextTimeout = 0
  KaSize = 1
  MaxBlocks = 1
  MaxUpTime = 1
  \* HttpRequest: two subrequests, two items each
  Main = main
  Subs = {s1, s2}
  MaxItems = 2
  Nobody = nobody
  \* FileCache: three requests, one without the lock, one death
  Clients = {c1, c2, c3}
  LockOn = {c1, c2}
  Sizes = {1}
  MaxLeaks = 1
  \* EventPipe: three buffers of two units, a response of eight
  Num = 3
  Size = 2
  BusySize = 2
  WriteSize = 4
  MaxTemp = 4
  MaxFlushed = 1
  Total = 8
  \* Http2: two streams, windows of one or two units, one frame of the client
  sa = sa
  sb = sb
  Streams = {sa, sb}
  NoStream = NoStream
  Prio <- Priorities
  FrameSize = 1
  MaxWindow = 2
  InitWindow = 1
  FirstWindows = {1, 2}
  Answers <- TwoAnswers
  Uploads = {sb}
  MaxFrames = 1
  \* Resolver: two requests at a time, four in all, one error or cut off answer
  na = na
  nb = nb
  nx = nx
  Names = {na, nb, nx}
  NoName = NoName
  Bad = {nx}
  Families = {"A", "AAAA"}
  Ctxs = {c1, c2}
  Untimed = {}
  Zones <- FourZones
  MaxRecursion = 2
  MaxAsks = 4
  MaxLost = 0
  MaxErrors = 1
  \* Slab: four pages of eight bytes and words of four bits, two mixes of sizes
  SlabPages = 4
  PageShift = 3
  MinShift = 0
  WordBits = 4
  SlabUses = {{1, 8, 16}, {2, 4, 24}}
  MaxGiven = 7
SPECIFICATION CompSpec
VIEW Moving
INVARIANTS
  ChannelsAgree
  PeersAccounted
  NoResend
  CountAccounted
  OrderHolds
  CacheAccounted
  PipeHolds
  OutputAccounted
  StreamWoken
  ResolverHolds
  SlabHolds
CHECK_DEADLOCK FALSE
