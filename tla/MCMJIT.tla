------------------------------- MODULE MCMJIT -------------------------------
(* Model values and small constant sets for checking MJIT with TLC.        *)
EXTENDS MJIT, TLC

CONSTANTS w1, w2, i1, i2, b1, b2

MCWorkers == {w1, w2}
MCWorker  == {w1}
MCItems   == {i1, i2}
MCItem    == {i1}
\* Under quick_response_p a batch holds one ISEQ, so one record per ISEQ
\* is all create_batch ever needs.
MCBatches == {b1, b2}
MCBatch   == {b1}

\* Instructions of the ISEQs: i1, a method of a T_OBJECT class, reads and
\* writes three instance variables through one inline-cache serial (so
\* update_batch_iseq_info_from_insns sets ivar_spec); i2 and, in
\* MCPlainCode, every ISEQ only moves local variables.
IvarCode  == [code |-> <<[op |-> "ivar2var", serial |-> 1, index |-> 0],
                         [op |-> "var2ivar", serial |-> 1, index |-> 1],
                         [op |-> "val2ivar", serial |-> 1, index |-> 2]>>,
              inTObject |-> TRUE, exceptP |-> FALSE]
PlainCode == [code |-> <<[op |-> "var2var", serial |-> 0, index |-> 0]>>,
              inTObject |-> TRUE, exceptP |-> FALSE]
MCIvarCode(i)  == IF i = i1 THEN IvarCode ELSE PlainCode
MCPlainCode(i) == PlainCode

\* Workers and batch records are interchangeable; ISEQs are not (only i1
\* allows ivar speculation).
Symmetry  == Permutations(MCWorkers) \cup Permutations(MCBatches)
=============================================================================
