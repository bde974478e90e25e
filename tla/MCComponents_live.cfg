CONSTANTS
  Parts = {"rwlock", "upstream", "request", "cache", "pipe", "http2", "resolver"}
  \* Rwlock: three processes, a three-bit word, one death
  Procs = {q1, q2, q3}
  WLOCK = 7
  MaxCrashes = 1
  \* Channel: four children in all, one told to quit, one failing spawn
  SlotCount = 3
  MaxStarts = 3
  MaxPids = 4
  MaxQuits = 1
  MaxFaults = 1
  Buffer = 3
  \* Upstream: a request of any kind, three servers, one idle connection
  pa = pa
  pb = pb
  pz = pz
  r1 = r1
  r2 = r2
  Primary <- TwoPrimary
  Backup <- OneBackup
  Weight <- Weights
  MaxConns <- ConnLimits
  MaxFails = 1
  FailTimeout = 1
  NoPeer = NoPeer
  Requests = {r1}
  Kinds <- AnyKind
  NextUpstream = {"error", "timeout", "http_404"}
  MaxTries = 2
  NextTimeout = 0
  KaSize = 1
  MaxBlocks = 1
  MaxUpTime = 1
  \* HttpRequest: two subrequests, one item each
  Main = main
  Subs = {s1, s2}
  MaxItems = 1
  Nobody = nobody
  \* FileCache: two requests, one death
  Clients = {c1, c2}
  LockOn = {c1, c2}
  Sizes = {1}
  MaxLeaks = 1
  \* EventPipe: three buffers of two units, a response of six
  Num = 3
  Size = 2
  BusySize = 2
  WriteSize = 4
  MaxTemp = 4
  MaxFlushed = 1
  Total = 6
  \* Http2: one stream, windows of one unit that may be raised to two, one frame of the client
  sa = sa
  sb = sb
  Streams = {sa}
  NoStream = NoStream
  Prio <- Priorities
  FrameSize = 1
  MaxWindow = 2
  InitWindow = 1
  FirstWindows = {1}
  Answers <- LongOrNone
  Uploads = {sa}
  MaxFrames = 1
  \* Resolver: two requests that wait for ever, one lost query
  na = na
  nb = nb
  nx = nx
  Names = {na, nb, nx}
  NoName = NoName
  Bad = {nx}
  Families = {"A", "AAAA"}
  Ctxs = {c1, c2}
  Untimed = {c1, c2}
  Zones <- OneZone
  MaxRecursion = 2
  MaxAsks = 2
  MaxLost = 1
  MaxErrors = 0
  \* Slab: a page; nothing is asked for
  SlabPages = 1
  PageShift = 1
  MinShift = 0
  WordBits = 2
  SlabUses = {{}}
  MaxGiven = 0
SPECIFICATION CompLiveSpec
INVARIANT RwExclusion
PROPERTIES
  RwProgress
  UpstreamEnds
  RequestEnds
  UpdatingEnds
  PipeEnds
  StreamEnds
  ResolveEnds
CHECK_DEADLOCK FALSE
