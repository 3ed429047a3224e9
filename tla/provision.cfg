SPECIFICATION FairSpec
CONSTANTS
  Configs <- MCAll
  LastSlot = 1
  Private <- MCPrivate
  Regenerable <- MCRegenerable
  Bodies <- MCBodies
  Mixtures <- MCMixtures
  Readdressed <- MCReaddressed
INVARIANTS
  TypeOK
  SuccessIsActive
PROPERTIES
  LockedIsVerified
  ActivatedWithKnownKeys
  DryRunChangesNothing
  LifecycleSpec
  Recovers
