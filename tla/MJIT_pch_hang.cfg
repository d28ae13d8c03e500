\* One worker; the precompiled header fails while the client waits for code.
\* The client then blocks in pthread_cond_wait for good, so deadlock is not
\* checked and the hang shows as a liveness violation.
CONSTANTS
  Workers <- MCWorker
  Items <- MCItem
  Batches <- MCBatch
  MaxMutations = 1
  MutationBound = 2
  LoopHeadLock = TRUE
  IseqCode <- MCIvarCode
  SpecFailKinds = {}
  GlobalEvents = {}
  MaxGlobalChanges = 0
  PchResults = {"failed"}
  CCResults = {"ok", "fail"}
  DlopenResults = {"ok", "fail"}
  Finishing = FALSE
  InitResults = {"ok"}
  MaxDepth = 0
  w1 = w1  w2 = w2  i1 = i1  i2 = i2  b1 = b1  b2 = b2
SPECIFICATION Spec
CHECK_DEADLOCK FALSE
PROPERTY GetIseqFunReturns
