SPECIFICATION FairSpec
CONSTANTS
  Configs <- MCShipped
  LastSlot = 1
  Private <- MCPrivate
  Regenerable <- MCRegenerable
  Bodies <- MCBodies
  Mixtures <- MCMixtures
  Readdressed <- MCReaddressed
PROPERTY Provisions
