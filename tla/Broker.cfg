SPECIFICATION AllSpec
CONSTANTS
  Parts = {"audio", "gadget"}
  u1 = u1
  Conns = {c1, c2}
  Udcs = {d1, d2}
  Peers = {u1}
  PeerOf <- OneUser
  NoPort = NoPort
  Ports = {0}
  Limits <- Roomy
  MaxRecords = 2
  MaxCrashes = 1
  MaxFaulted = 1
INVARIANTS
  LeasesKept
  AttachmentsSafe
  QuotaExact
  GadgetsOwned
PROPERTY
  ForeignKept
SYMMETRY ConnSymmetry
