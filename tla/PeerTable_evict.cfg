SPECIFICATION FairSpec
CONSTANTS
  Startup <- MCStartup
  Strangers = {"x"}
  MaxOutages = 1
  MaxPosts = 1
  Nobody = Nobody
INVARIANTS TypeOK ListedIsDialled
PROPERTIES KeptWhileReachable DialledIsReached
