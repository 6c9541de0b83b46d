SPECIFICATION FairSpec
CONSTANTS
  Procs = {p1, p2}
  Provable = {p1}
  Removers = {r1, r2}
  Diligent = {r1}
  Inodes = {i1, i2}
  NoDir = NoDir
  None = None
  MaxAttempts = 1
INVARIANTS OneCallback
PROPERTIES HolderUndisturbed RemovalNeedsProof UpdatesAreAtomic ResidueIsRecoverable
