\* Upstream alone: a request whose server answers before it has the body.
CONSTANTS
  Parts = {"upstream"}
  \* Rwlock: three processes, a three-bit word, two deaths
  Procs = {q1, q2, q3}
  WLOCK = 7
  MaxCrashes = 2
  \* Channel: four children in all, one told to quit, one failing spawn
  SlotCount = 3
  MaxStarts = 3
  MaxPids = 4
  MaxQuits = 1
  MaxFaults = 1
  Buffer = 3
  \* Upstream: two requests, three servers, one idle connection
  pa = pa
  pb = pb
  pz = pz
  r1 = r1
  r2 = r2
  Primary <- TwoPrimary
  Backup <- OneBackup
  Weight <- Weights
  MaxConns <- ConnLimits
  MaxFails = 1
  FailTimeout = 1
  NoPeer = NoPeer
  Requests = {r1, r2}
  Kinds <- SafeAndPost
  NextUpstream = {"error", "timeout", "http_404"}
  MaxTries = 2
  NextTimeout = 0
  KaSize = 1
  MaxBlocks = 1
  MaxUpTime = 1
  \* HttpRequest: two subrequests, two items each
  Main = main
  Subs = {s1, s2}
  MaxItems = 2
  Nobody = nobody
  \* FileCache: three requests, one without the lock, one death
  Clients = {c1, c2, c3}
  LockOn = {c1, c2}
  Sizes = {1}
  MaxLeaks = 1
  \* EventPipe: three buffers of two units, a response of eleven
  Num = 3
  Size = 2
  BusySize = 2
  WriteSize = 4
  MaxTemp = 4
  MaxFlushed = 1
  Total = 11
  \* Http2: two streams, windows of one or two units, one frame of the client
  sa = sa
  sb = sb
  Streams = {sa, sb}
  NoStream = NoStream
  Prio <- Priorities
  FrameSize = 1
  MaxWindow = 2
  InitWindow = 1
  FirstWindows = {1, 2}
  Answers <- TwoAnswers
  Uploads = {sb}
  MaxFrames = 1
  \* Resolver: nobody asks
  na = na
  nb = nb
  nx = nx
  Names = {na, nb, nx}
  NoName = NoName
  Bad = {nx}
  Families = {"A", "AAAA"}
  Ctxs = {c1}
  Untimed = {}
  Zones <- OneZone
  MaxRecursion = 2
  MaxAsks = 0
  MaxLost = 0
  MaxErrors = 0
  \* Slab: a page; nothing is asked for
  SlabPages = 1
  PageShift = 1
  MinShift = 0
  WordBits = 2
  SlabUses = {{}}
  MaxGiven = 0
SPECIFICATION CompSpec
INVARIANT NoRetryAfterHeader
CHECK_DEADLOCK FALSE
