\* Two workers, two ISEQs, the loop head as written: one worker comes back
\* from a batch and reads batch_queue's head without the mutex while the
\* other, woken by the client's queueing, takes the head under it.
CONSTANTS
  Workers <- MCWorkers
  Items <- MCItems
  Batches <- MCBatches
  MaxMutations = 1
  MutationBound = 1
  LoopHeadLock = FALSE
  IseqCode <- MCPlainCode
  SpecFailKinds = {"insn"}
  GlobalEvents = {}
  MaxGlobalChanges = 0
  PchResults = {"success"}
  CCResults = {"ok"}
  DlopenResults = {"ok"}
  Finishing = FALSE
  InitResults = {"ok"}
  MaxDepth = 0
  w1 = w1  w2 = w2  i1 = i1  i2 = i2  b1 = b1  b2 = b2
SPECIFICATION Spec
SYMMETRY Symmetry
INVARIANT BatchHeldByOneWorker
