SPECIFICATION FairSpec
CONSTANTS
  KThread = {k1}
  YieldCalls = {"Yield", "YieldReady"}
  MaxThreads = 5
INVARIANTS TypeOK OneOwner NoUndefined
PROPERTIES WaitMeansDone RoundRobin SpawnRunsChild StarvationFree ZombieDeleted
