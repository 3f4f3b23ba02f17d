CONSTANTS
  m1 = m1 f1 = f1 cm = cm cf1 = cf1 cf2 = cf2 a1 = a1 a2 = a2
  Databases = {m1, f1}
  FileBacked = {f1}
  Addresses = {a1, a2}
  NoAddress = NoAddress
  Conns = {cm, cf1, cf2}
  DatabaseOf <- Connections
  NoConn = NoConn
  MaxEntries = 3
SPECIFICATION RegistrySpec
SYMMETRY RegistrySym
INVARIANT
  EnableFindsRuntime
