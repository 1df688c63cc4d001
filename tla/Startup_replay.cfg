SPECIFICATION FairSpec
CONSTANTS
  None = None
  Unreadable = Unreadable
  BestEffort = FALSE
  MaxHeight = 3
  MaxPosts = 2
  MaxCrashes = 1
  MaxRot = 2
  MaxRestores = 1
INVARIANTS ReadyIsWhole GoodFilesKept
PROPERTY ComesUp
