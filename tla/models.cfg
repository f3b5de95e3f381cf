SPECIFICATION Spec
CONSTANTS
  t1 = t1  t2 = t2
  Catalog <- MCCatalog
  Profiles <- MCProfiles
  Threads <- MCThreads
  MaxRows = 2
  MaxCrashes = 1
  MaxRefusals = 1
  Corrupt = "corrupt"
  NoFile = "none"
SYMMETRY ThreadSymmetry
INVARIANTS TypeOK OneActivePerSlot RunsVerifiedModel UninstallIsFinal SwitchIsAtomic
CHECK_DEADLOCK FALSE
