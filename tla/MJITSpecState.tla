--------------------------- MODULE MJITSpecState ---------------------------
(***************************************************************************)
(* The global speculation state of mjit.c (struct global_spec_state): two *)
(* flags, "tracing may be active" and "a basic operation may be           *)
(* redefined".  A batch records the state it was translated under; its    *)
(* machine code stays usable while every flag the current state raises is *)
(* also raised in the recorded one.                                       *)
(***************************************************************************)

\* The values of struct global_spec_state.
SpecStates == [trace : BOOLEAN, bop : BOOLEAN]

\* init_global_spec_state: a batch not yet translated assumes nothing.
NoSpeculation == [trace |-> TRUE, bop |-> TRUE]

\* setup_global_spec_state: the flags computed from ruby_vm_event_flags and
\* the VM's redefined_flag table, here the two model variables' values.
SetupSpecState(traceOn, bopRedefined) == [trace |-> traceOn, bop |-> bopRedefined]

\* valid_global_spec_state_p(s, curr): code made under s may run under curr.
ValidSpecState(s, curr) ==
  /\ s.trace \/ ~curr.trace
  /\ s.bop \/ ~curr.bop

=============================================================================
