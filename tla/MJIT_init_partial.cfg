\* Two workers; mjit_init's pthread_create fails for a worker after the
\* header thread has been created (init_state 4).
CONSTANTS
  Workers <- MCWorkers
  Items <- MCItem
  Batches <- MCBatch
  MaxMutations = 1
  MutationBound = 2
  LoopHeadLock = TRUE
  IseqCode <- MCPlainCode
  SpecFailKinds = {}
  GlobalEvents = {}
  MaxGlobalChanges = 0
  PchResults = {"success"}
  CCResults = {"ok"}
  DlopenResults = {"ok"}
  Finishing = FALSE
  InitResults = {"partial"}
  MaxDepth = 0
  w1 = w1  w2 = w2  i1 = i1  i2 = i2  b1 = b1  b2 = b2
SPECIFICATION Spec
PROPERTY NoThreadStepAfterDestroy
