------------------------- MODULE MJITBatchLifecycle -------------------------
(***************************************************************************)
(* What mjit.c promises about a batch's status (the diagram above enum     *)
(* batch_status): a record on the free list is allocated as NOT_FORMED and *)
(* formed into the queue, a queued batch is executed, execution fails or   *)
(* succeeds, a successful batch is loaded or fails to load, and a change   *)
(* in global speculation sends a successful or loaded batch back to the    *)
(* queue.  A batch may be freed in any status (mjit_redo_iseq and          *)
(* mjit_increase_iseq_priority free a batch left without ISEQs).  Several  *)
(* batches may move in one step, as in mjit_cancel_all.                    *)
(***************************************************************************)
CONSTANT Batches

VARIABLE bstatus

Statuses == {"free", "not_formed", "in_queue", "in_execution",
             "failed", "success", "loaded"}

\* The edges of the diagram.  create_batch followed at once by
\* finish_forming_curr_batch (quick_response_p) goes free -> in_queue.
Edge ==
  {<<"free", "not_formed">>, <<"free", "in_queue">>,
   <<"not_formed", "in_queue">>, <<"in_queue", "in_execution">>,
   <<"in_execution", "failed">>, <<"in_execution", "success">>,
   <<"success", "failed">>, <<"success", "loaded">>,
   <<"success", "in_queue">>, <<"loaded", "in_queue">>}
  \cup {<<s, "free">> : s \in Statuses \ {"free"}}

Moves(from, to) == from = to \/ <<from, to>> \in Edge

Init == bstatus = [b \in Batches |-> "free"]

Next ==
  /\ bstatus' \in [Batches -> Statuses]
  /\ \A b \in Batches : Moves(bstatus[b], bstatus'[b])

Spec == Init /\ [][Next]_bstatus

=============================================================================
