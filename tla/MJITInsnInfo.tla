---------------------------- MODULE MJITInsnInfo ----------------------------
(***************************************************************************)
(* update_batch_iseq_info_from_insns: the scan create_batch_iseq makes of  *)
(* an ISEQ's instructions to choose the initial ivar_spec, ivar_serial and *)
(* use_temp_vars_p of its batch ISEQ.  An instruction is a record: its     *)
(* opcode and, for the instance-variable instructions, the serial and the  *)
(* index its inline cache holds.  insn_len and ic_disp only find the next  *)
(* instruction and the cache operand, so a sequence element is one whole   *)
(* instruction.                                                            *)
(***************************************************************************)
EXTENDS Integers, SequencesExt

\* The instructions after which the generated code cannot keep temporaries
\* in C variables (the first case group of the switch).
TempBreakers == {"var2var", "concat_strings", "to_regexp", "make_array",
                 "make_hash", "new_array_min", "new_array_max", "spread_array",
                 "define_class"}

\* ivar2var, val2ivar and var2ivar read or write an instance variable.
IvarInsns == {"ivar2var", "val2ivar", "var2ivar"}

\* ROBJECT_EMBED_LEN_MAX: an object with more instance variables keeps
\* them out of line.
EmbedLenMax == 3

\* (size_t) -1: "self has few instance variables".
SizeMax == -1

\* The loop variables of the scan and the fields it sets.
ScanInit ==
  [updateP |-> TRUE, serial |-> 0, accessNum |-> 0, maxIndex |-> 0, useTemp |-> TRUE]

\* One iteration of the loop over code: the switch on the instruction.
ScanInsn(s, insn) ==
  CASE insn.op \in TempBreakers -> [s EXCEPT !.useTemp = FALSE]
    [] insn.op \in IvarInsns ->
         [s EXCEPT !.serial    = IF s.accessNum = 0 THEN insn.serial ELSE @,
                   !.updateP   = @ /\ (s.accessNum = 0 \/ s.serial = insn.serial),
                   !.maxIndex  = IF s.accessNum = 0 \/ @ < insn.index
                                 THEN insn.index ELSE @,
                   !.accessNum = @ + 1]
    [] OTHER -> s

\* for (pos = 0; pos < size;) { ... pos += insn_len(insn); }
RECURSIVE Scan(_, _)
Scan(s, code) ==
  IF code = <<>> THEN s ELSE Scan(ScanInsn(s, Head(code)), Tail(code))

\* update_batch_iseq_info_from_insns on a batch ISEQ fresh from
\* create_batch_iseq (ivar_spec 0, ivar_serial 0, use_temp_vars_p TRUE):
\* the scan, then the tests of its result, in_type_object_p and except_p.
Conclude(code, inTObject, exceptP) ==
  LET s == Scan(ScanInit, code)
      spec == s.updateP /\ s.accessNum > 2 /\ inTObject
  IN [ivarSpec   |-> IF ~spec THEN 0
                     ELSE IF s.maxIndex >= EmbedLenMax THEN s.maxIndex ELSE SizeMax,
      ivarSerial |-> IF spec THEN s.serial ELSE 0,
      useTemp    |-> s.useTemp /\ ~exceptP]

-----------------------------------------------------------------------------
(* What the fields promise (the comments on struct rb_mjit_batch_iseq and  *)
(* on the speculation), stated over the whole instruction sequence.        *)

IvarAccesses(code) == SelectSeq(code, LAMBDA insn : insn.op \in IvarInsns)

\* Speculate on self's instance variables only in a method of a T_OBJECT
\* class that touches them more than twice, always through one serial.
Speculates(code, inTObject) ==
  LET acc == IvarAccesses(code) IN
  /\ inTObject /\ Len(acc) >= 3
  /\ \A k \in 1..Len(acc) : acc[k].serial = acc[1].serial

\* The highest instance-variable index the method uses.
TopIndex(code) ==
  LET ix == {IvarAccesses(code)[k].index : k \in 1..Len(IvarAccesses(code))} IN
  CHOOSE x \in ix : \A y \in ix : y <= x

InsnInfoSpec(code, inTObject, exceptP) ==
  [ivarSpec   |-> IF ~Speculates(code, inTObject) THEN 0
                  ELSE IF TopIndex(code) < EmbedLenMax THEN SizeMax
                  ELSE TopIndex(code),
   ivarSerial |-> IF Speculates(code, inTObject)
                  THEN IvarAccesses(code)[1].serial ELSE 0,
   useTemp    |-> ~exceptP /\ \A k \in 1..Len(code) : code[k].op \notin TempBreakers]

-----------------------------------------------------------------------------
(* Bounded inputs: a few instructions, two cache serials and the indexes   *)
(* on either side of ROBJECT_EMBED_LEN_MAX.                                *)

MaxInsns == 4
Serials  == {1, 2}
Indexes  == {EmbedLenMax - 1, EmbedLenMax}
Insns ==
  {[op |-> o, serial |-> 0, index |-> 0] : o \in {"var2var", "nop"}}
  \cup [op : IvarInsns, serial : Serials, index : Indexes]

\* The scan of update_batch_iseq_info_from_insns computes, for every
\* instruction sequence up to MaxInsns long, the ivar_spec, ivar_serial
\* and use_temp_vars_p the fields' comments promise: whole-function
\* speculation exactly when a T_OBJECT method makes at least three accesses with one serial, keyed on
\* whether the highest index is out of the embedded slots.
InsnInfoMatchesSpec ==
  \A code \in SeqOf(Insns, MaxInsns), t \in BOOLEAN, e \in BOOLEAN :
    Conclude(code, t, e) = InsnInfoSpec(code, t, e)

\* TLC checks it once, as it starts on any model of this module or of one
\* extending it.
ASSUME InsnInfoMatchesSpec

=============================================================================
