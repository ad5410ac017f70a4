CONSTANTS
  manager = manager
  node = node
  a1 = a1
  a2 = a2
  b1 = b1
  p1 = p1
  p2 = p2
  s1 = s1
  s2 = s2
  Null = Null
  Procs = {manager, node}
  Names = {n1}
  FileIds = {f1}
  FileSizes = {0, 2}
  Sizes = {2}
  MaxObjs = 2
  Addrs <- MCAddrs
  ReaderSlots = {s1, s2, s3}
  Blocks = {b1, b2, b3}
  Caller = c1
  ReaderSizes = {0, 2}
  Amounts = {0, 1, 2, 15}
  Word = 16
  WriterSlots = {s1, s2}
  Paths = {p1, p2}
  Counts = {1, 2}
  Capacity = 1
  SpanSize = 1
  MaxCursor = 2
  Clients = {c1, c2}
  Lengths = {0, 2}
  Handles = {s1, s2}
  RegionSlots = {b1, b2}
  RegionAddrs = {a1, a2}
  MaxEnd = 2
  Threads = {t1, t2}
  MaxLines = 2
  LibrarySlots = {s1, s2, s3}
  Libs = {p1, p2}
  MaxSymbols = 2
  ClientSlots = {s1, s2}
  Curls = {k1, k2}
  Codes = {200, 201, 404}
  Socks = {s1, s2, s3}
  SockNames = {n1, n2}
  Users = {u1, u2, u3}
SPECIFICATION ResourcesSpec
SYMMETRY Symmetry
INVARIANTS TableIsExact EveryMappingIsBacked EachReleasedOnce WritersKeepAll
  OneCreator FoundUnlessCut KeepsLog RequestsAreOwn
PROPERTIES ReadsInside ListenersAreFound
