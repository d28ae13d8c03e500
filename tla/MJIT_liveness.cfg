\* One worker and one ISEQ, one frame running JIT code; compiles and loads
\* fail, an ivar speculation failure redoes the ISEQ, global events requeue its
\* batch, and the program calls mjit_finish.
CONSTANTS
  Workers <- MCWorker
  Items <- MCItem
  Batches <- MCBatch
  MaxMutations = 1
  MutationBound = 2
  LoopHeadLock = TRUE
  IseqCode <- MCIvarCode
  SpecFailKinds = {}
  GlobalEvents = {"trace_on", "trace_off", "bop"}
  MaxGlobalChanges = 2
  PchResults = {"success"}
  CCResults = {"ok", "fail"}
  DlopenResults = {"ok", "fail"}
  Finishing = TRUE
  InitResults = {"ok"}
  MaxDepth = 1
  w1 = w1  w2 = w2  i1 = i1  i2 = i2  b1 = b1  b2 = b2
SPECIFICATION Spec
INVARIANT FinishFreesAllBatches 
PROPERTY GetIseqFunReturns BatchEventuallyDone StatusFollowsDiagram
