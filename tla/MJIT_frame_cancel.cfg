\* One worker, one frame running JIT code; tracing and basic-operation
\* redefinition change the global speculation state twice.
CONSTANTS
  Workers <- MCWorker
  Items <- MCItems
  Batches <- MCBatches
  MaxMutations = 1
  MutationBound = 2
  LoopHeadLock = TRUE
  IseqCode <- MCIvarCode
  SpecFailKinds = {}
  GlobalEvents = {"trace_on", "trace_off", "bop"}
  MaxGlobalChanges = 2
  PchResults = {"success"}
  CCResults = {"ok", "fail"}
  DlopenResults = {"ok", "fail"}
  Finishing = FALSE
  InitResults = {"ok"}
  MaxDepth = 1
  w1 = w1  w2 = w2  i1 = i1  i2 = i2  b1 = b1  b2 = b2
SPECIFICATION Spec
PROPERTY CancelMarksRunningFrames
