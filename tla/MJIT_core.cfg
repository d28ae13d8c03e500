\* Two workers, two ISEQs: the client's calls (submission, priority raise,
\* mjit_get_iseq_fun, insn and ep speculation failures, GC) against concurrent
\* compilation and loading; compiler and dlopen may fail.
CONSTANTS
  Workers <- MCWorkers
  Items <- MCItems
  Batches <- MCBatches
  MaxMutations = 1
  MutationBound = 1
  LoopHeadLock = TRUE
  IseqCode <- MCIvarCode
  SpecFailKinds = {"insn", "ep"}
  GlobalEvents = {}
  MaxGlobalChanges = 0
  PchResults = {"success"}
  CCResults = {"ok", "fail"}
  DlopenResults = {"ok", "fail"}
  Finishing = FALSE
  InitResults = {"ok"}
  MaxDepth = 0
  w1 = w1  w2 = w2  i1 = i1  i2 = i2  b1 = b1  b2 = b2
SPECIFICATION Spec
SYMMETRY Symmetry
INVARIANT TypeOK BatchHeldByOneWorker  ItemInOneBatch NoLeakedEmptyBatch
PROPERTY StatusFollowsDiagram
