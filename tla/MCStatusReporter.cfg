SPECIFICATION ReporterFairSpec
CONSTANTS
  Cont = {c1, c2}
  Managed = {c1}
INVARIANTS
  OneRemovalPerContainer
  OnlyManagedRemoved
PROPERTY
  ZombiesRemoved
