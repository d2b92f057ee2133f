SPECIFICATION FairSpec
CONSTANTS
  Procs = {p1, p2}
  Envelopes = {e1, e2, e3}
  Authentic = {e1, e2}
  None = None
  Garbage = Garbage
  MerkleRoot <- Root
  MerklePath <- Path
  DirFsyncSupported = TRUE
  MaxFaults = 2
  MaxTampers = 1
INVARIANTS TypeOK OneEntryPerEnvelope WriteAhead ReceiptsVerifiable TamperEvident NoFork
PROPERTIES LocksReleased ImplementsPublication
