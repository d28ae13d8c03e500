\* One worker; the client asks for the function while the batch loads.
CONSTANTS
  Workers <- MCWorker
  Items <- MCItem
  Batches <- MCBatch
  MaxMutations = 1
  MutationBound = 2
  LoopHeadLock = TRUE
  IseqCode <- MCIvarCode
  SpecFailKinds = {}
  GlobalEvents = {}
  MaxGlobalChanges = 0
  PchResults = {"success"}
  CCResults = {"ok"}
  DlopenResults = {"ok"}
  Finishing = FALSE
  InitResults = {"ok"}
  MaxDepth = 0
  w1 = w1  w2 = w2  i1 = i1  i2 = i2  b1 = b1  b2 = b2
SPECIFICATION Spec
SYMMETRY Symmetry
INVARIANT GetIseqFunResult
