\* One worker and one ISEQ whose generated code keeps reaching stop_spec:
\* each failure redoes the ISEQ and logs one more mutation.
CONSTANTS
  Workers <- MCWorker
  Items <- MCItem
  Batches <- MCBatch
  MaxMutations = 1
  MutationBound = 3
  LoopHeadLock = TRUE
  IseqCode <- MCPlainCode
  SpecFailKinds = {"insn"}
  GlobalEvents = {}
  MaxGlobalChanges = 0
  PchResults = {"success"}
  CCResults = {"ok"}
  DlopenResults = {"ok"}
  Finishing = FALSE
  InitResults = {"ok"}
  MaxDepth = 0
  w1 = w1  w2 = w2  i1 = i1  i2 = i2  b1 = b1  b2 = b2
SPECIFICATION Spec
SYMMETRY Symmetry
INVARIANT MutationLogInBounds
