CONSTANTS
  Fetchers = {p1, p2}
  MaxRelease = 3
  MaxTrouble = 2
  Installers = {p1, p2}
  Versions = {v1, v2}
  MaxMishaps = 2
  MaxMeddling = 1
  MaxBackup = 2
  MaxEntries = 2
  MaxFileBytes = 2
  MaxTotalBytes = 3
  r1 = r1
  r2 = r2
  t1 = t1
  d1 = d1
  d2 = d2
  Paths = {r1, r2, t1}
  Required <- MCRequired
  Proxies = {r2}
  Toolchain = {t1}
  Rustup = r1
  Digests = {d1, d2}
  Versioned = {"1.0.0"}
  Channels = {"canary"}
  Hashes = {"h1", "h2"}
SPECIFICATION MCSpec
SYMMETRY Symmetry
CHECK_DEADLOCK FALSE
INVARIANTS UsesOnlyVerified  WorkIsItsOwners
PROPERTIES  OneLatest
