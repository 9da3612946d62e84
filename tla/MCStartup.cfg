SPECIFICATION MCSpec
CONSTANTS
  p1 = p1
  p2 = p2
  u3 = u3
  k1 = k1
  k2 = k2
  k3 = k3
  None = None
  Corrupt = Corrupt
  Procs = {p1, p2}
  Keys = {k1, k2}
  NoKey = NoKey
  NoProc = NoProc
  Rotated = Rotated
  KeyDerivation <- MCKeyDerivation
  RowScoped <- MCRowScoped
  Latest <- MCLatest
  Transactional = TRUE
  AdminAlone = TRUE
  MaxFaults = 2
  MaxCommands = 3
  MySQLFaults = 3
  MySQLCommands = 2
  Hups = 1
SYMMETRY Symmetry
INVARIANTS
    StorageSound
    ServiceSound
PROPERTIES
    StoredKept
CHECK_DEADLOCK FALSE
