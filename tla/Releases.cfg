CONSTANTS
  r = r w = w o1 = o1 o2 = o2 b1 = b1 b2 = b2 s1 = s1 s2 = s2
  RThread = r
  OtherThreads = {w}
  Objects = {o1, o2}
  NoObject = NoObject
  Binds = {b1, b2}
  Scans = {s1, s2}
  NoBind = NoBind
  Unknown = Unknown
  Declared = {1, 2}
  ChunkSize = 1
  BatchRows = {1, 2}
  MaxBatches = 2
  MaxDepth = 3
  local = local remote = remote user = user
  Tokens = {local, remote}
  Keys = {local, remote}
  Udfs = {b1, b2}
  TokenOf <- KeyOf
  Theirs <- UserEnds
  Count <- Workers
  MaxAttempts = 2
  RegistryMax = 1
  MaxProcesses = 4
  MaxProviders = 2
  a1 = b1 a2 = b2 m1 = m1 f1 = f1 cm = cm cf1 = s1 cf2 = s2
  Databases = {m1, f1}
  FileBacked = {f1}
  Addresses = {b1, b2}
  NoAddress = NoAddress
  Conns = {cm, s1, s2}
  DatabaseOf <- Connections
  NoConn = NoConn
  MaxEntries = 3
SPECIFICATION SessionSpec
SYMMETRY Sym
INVARIANT
  ReleaseCompletes
