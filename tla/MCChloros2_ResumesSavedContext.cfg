SPECIFICATION Spec
CONSTANTS
  KThread = {k1, k2}
  YieldCalls = {"Yield", "YieldReady"}
  MaxThreads = 4
INVARIANT ResumesSavedContext
