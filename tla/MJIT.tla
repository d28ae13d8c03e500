-------------------------------- MODULE MJIT --------------------------------
(***************************************************************************)
(* The MJIT engine of mjit.c: the client (the main Ruby thread) feeding    *)
(* ISEQs into batches, a pool of worker threads compiling queued batches   *)
(* with an external C compiler and loading the result, the thread making   *)
(* the precompiled header, and the speculation protocol that cancels and   *)
(* recompiles machine code.                                                *)
(*                                                                         *)
(* All threads share mjit_engine_mutex.  A critical section the code runs  *)
(* in one go is one step guarded by mutex = "none"; where a thread keeps   *)
(* the mutex between two steps, mutex names that thread.  C code run       *)
(* outside the mutex by the workers (translation, the C compiler, dlopen)  *)
(* is a step of its own.                                                   *)
(***************************************************************************)
EXTENDS Naturals, Sequences, FiniteSets, SequencesExt, MJITSpecState, MJITInsnInfo,
        MJITBatchList

CONSTANTS
  Workers,           \* worker threads (mjit_opts.threads of them)
  Items,             \* ISEQs that may be JITed; one rb_mjit_batch_iseq each
  Batches,           \* struct rb_mjit_batch records (allocated or free)
  MaxMutations,      \* mjit_opts.max_mutations
  MutationBound,     \* bound on jit_mutations_num in one behaviour
  IseqCode(_),       \* an ISEQ's instructions, in_type_object_p and except_p
  SpecFailKinds,     \* speculation failures the generated code may report
  GlobalEvents,      \* VM events changing the global speculation state
  MaxGlobalChanges,  \* bound on such events in one behaviour
  PchResults,        \* outcomes of the C compiler making the precompiled header
  CCResults,         \* outcomes of start_batch and the C compiler for a batch
  DlopenResults,     \* outcomes of dlopen of a batch's object file
  Finishing,         \* whether the program calls mjit_finish
  InitResults,       \* how far mjit_init got in creating the threads
  MaxDepth,          \* bound on interpreter frames running JIT code
  LoopHeadLock       \* whether the worker loop takes the mutex at its head

ASSUME
  /\ Workers # {} /\ "client" \notin Workers /\ "none" \notin Workers
  /\ MaxMutations \in Nat \ {0} /\ MutationBound \in Nat
  /\ \A i \in Items :
       IseqCode(i) \in [code : Seq([op : STRING, serial : Nat, index : Nat]),
                        inTObject : BOOLEAN, exceptP : BOOLEAN]
  /\ SpecFailKinds \subseteq {"insn", "ep", "ivar"}
  /\ GlobalEvents \subseteq {"trace_on", "trace_off", "bop"}
  /\ PchResults \subseteq {"success", "failed"} /\ PchResults # {}
  /\ CCResults \subseteq {"ok", "fail", "start_fail"} /\ CCResults # {}
  /\ DlopenResults \subseteq {"ok", "fail"} /\ DlopenResults # {}
  /\ Finishing \in BOOLEAN
  /\ InitResults \subseteq {"ok", "partial", "off"} /\ InitResults # {}
  /\ MaxDepth \in Nat /\ LoopHeadLock \in BOOLEAN

NoItem  == "noitem"

\* enum batch_status, plus "free" for a record on free_batch_list.
BatchStatus == {"not_formed", "in_queue", "in_execution", "failed",
                "success", "loaded", "free"}

\* Values of iseq->body->jit_code: NOT_READY_JIT_ISEQ_FUN,
\* NOT_ADDED_JIT_ISEQ_FUN, or the address of a loaded function.
JitCodes == {"not_ready", "not_added", "code"}

\* What translate_batch_iseqs decided for one ISEQ: whether the ep == bp
\* and ivar prologue checks are emitted.  spec is the batch's spec_state the
\* function was compiled under.  Safe mode (safe_p) only changes the shapes
\* of instructions, all of which keep an exit to stop_spec (see CanFail).
CodeFlags == [ep : BOOLEAN, ivar : BOOLEAN, spec : SpecStates]
NoCode == [ep |-> FALSE, ivar |-> FALSE, spec |-> NoSpeculation]

WorkerPCs == {"unborn", "pch", "top", "top_nolock", "get_unlink", "get_fix",
              "get_status", "wait", "compile",
              "translate", "translate_use", "setstatus",
              "recheck", "load", "publish", "inc", "exit", "exited"}

ClientPCs == {"idle", "getfun", "wait", "getfun_ret", "finish", "finished"}

VARIABLES
  pch,        \* pch_status
  initP,      \* mjit_init_p
  mutex,      \* holder of mjit_engine_mutex: "none", "client" or a worker
  heap,       \* batch_queue, done_batches, free_batch_list and the links
  status,     \* b->status
  members,    \* b->first .. b->last
  snap,       \* b->spec_state
  created,    \* ISEQs with a batch iseq (iseq->body->batch_iseq != NULL)
  bbatch,     \* bi->batch
  live,       \* ISEQs not garbage collected (bi->iseq != NULL)
  mutations,  \* bi->jit_mutations_num
  epNeq,      \* ISEQs with bi->ep_neq_bp_p set
  ivarSpec,   \* ISEQs with bi->ivar_spec != 0
  gen,        \* flags of the ISEQ's function in its last translation
  jit,        \* iseq->body->jit_code
  code,       \* flags of the function jit_code points to
  trace,      \* ruby_vm_event_flags != 0
  bop,        \* some redefined_flag[] set
  changes,    \* global speculation events so far
  wpc,        \* worker program counter
  wb,         \* the batch a worker processes (its local b)
  wres,       \* outcome of start_batch and the C compiler
  wpub,       \* batch ISEQs whose jit_code load_batch still has to set
  wtmp,       \* finished_workers as read by an unlocked increment
  cpc,        \* client program counter
  cwait,      \* the ISEQ mjit_get_iseq_fun waits for
  cres,       \* the value mjit_get_iseq_fun last returned
  finishP,    \* finish_workers_p
  finished,   \* finished_workers
  destroyed,  \* the mutex and condition variables were destroyed
  started,    \* worker threads pthread_create started (worker_pids)
  stack,      \* the client's frames running JIT code, innermost last
  wtr,        \* batch ISEQs translate_batch_iseqs has still to visit
  wep         \* the batch's ep_neq_bp_p as translate_batch_iseqs computed it

engine  == <<pch, initP, mutex, heap, status, members, snap>>
iseqs   == <<created, bbatch, live, mutations, epNeq, ivarSpec, gen, jit, code>>
global  == <<trace, bop, changes>>
workers == <<wpc, wb, wres, wpub, wtmp>>
client  == <<cpc, cwait, cres, finishP, finished, destroyed>>
vm      == <<started, stack>>
trans   == <<wtr, wep>>
vars    == <<engine, iseqs, global, workers, client, vm, trans>>

\* create_batch_iseq: the ISEQs whose batch ISEQ starts with ivar_spec != 0,
\* as update_batch_iseq_info_from_insns sets it from their instructions.
IvarSpecInit ==
  {i \in Items : Conclude(IseqCode(i).code, IseqCode(i).inTObject,
                          IseqCode(i).exceptP).ivarSpec # 0}

-----------------------------------------------------------------------------
(* Helpers *)

CurrentSpecState == SetupSpecState(trace, bop)

\* batch_queue and done_batches read from their heads.
queue == Elements(heap, "queue")
done  == Elements(heap, "done")

QueueHead == heap.head["queue"]

\* No thread runs on once the process has died in a list operation or an
\* assert: every step below requires it.
Alive == ~heap.crash

FreeBatches == {b \in Batches : status[b] = "free"}

InBatch(i, b) == Contains(members[b], i)

\* The ep == bp check is left out for the whole batch once one of its
\* ISEQs has seen ep != bp (translate_batch_iseqs).
BatchEpNeq(b) == \E i \in ToSet(members[b]) : i \in epNeq

\* translate_batch_iseqs: the translation decisions for ISEQ i of batch b,
\* whose ISEQs were found with ep_neq_bp_p set when epn holds.
Translation(i, b, epn) ==
  [ep   |-> ~epn,
   ivar |-> i \in ivarSpec,
   spec |-> snap[b]]

\* A speculation failure the function with flags f can report.  Every
\* function has the stop_spec exit: the safe shapes of instructions that
\* safe_p or a recorded mutation select (op_end_p, call_block) jump to it too.
CanFail(f, k) ==
  CASE k = "insn" -> TRUE
    [] k = "ep"   -> f.ep
    [] k = "ivar" -> f.ivar

-----------------------------------------------------------------------------
(* The client: the main Ruby thread calling the mjit_* entry points.       *)

\* create_batch: the record on top of free_batch_list or, when that list is
\* empty, one xmalloc hands out for the first time.
CreateBatch(H, st) ==
  IF H.head["free"] # NoBatch
  THEN {[b |-> H.head["free"], heap |-> PopFree(H)]}
  ELSE {[b |-> c, heap |-> [H EXCEPT !.next[c] = NoBatch]] :
          c \in {c2 \in Batches : st[c2] = "free"}}

\* Mutant: create_batch takes any record, leaving free_batch_list alone.
AddIseqToProcess_AnyRecord(i, H, mem, st) ==
  IF ~initP
  THEN /\ members' = mem /\ status' = st /\ heap' = H
       /\ UNCHANGED <<snap, bbatch>>
  ELSE \E b \in Batches :
         /\ members' = [mem EXCEPT ![b] = <<i>>]
         /\ bbatch' = [bbatch EXCEPT ![i] = b]
         /\ status' = [st EXCEPT ![b] = "in_queue"]
         /\ snap' = [snap EXCEPT ![b] = NoSpeculation]
         /\ heap' = AddToList(H, b, "queue")

\* mjit_add_iseq_to_process, on the heap H, batches mem and statuses st left
\* by the caller.  quick_response_p is the constant TRUE, so curr_batch is
\* NULL between calls: create_batch takes a record (spec_state reset by
\* init_global_spec_state), add_iseq_to_batch puts the ISEQ in it, and
\* finish_forming_curr_batch queues it under the mutex at once.
AddIseqToProcess(i, H, mem, st) ==
  IF ~initP
  THEN /\ members' = mem /\ status' = st /\ heap' = H
       /\ UNCHANGED <<snap, bbatch>>
  ELSE \E c \in CreateBatch(H, st) :
         /\ members' = [mem EXCEPT ![c.b] = <<i>>]
         /\ bbatch' = [bbatch EXCEPT ![i] = c.b]
         /\ status' = [st EXCEPT ![c.b] = "in_queue"]
         /\ snap' = [snap EXCEPT ![c.b] = NoSpeculation]
         /\ heap' = AddToList(c.heap, c.b, "queue")

\* The VM hands a new ISEQ to MJIT; create_batch_iseq gives it the fields
\* Init already holds for it (no mutations, ep == bp, ivar_spec from its insns).
Submit(i) ==
  /\ Alive /\ cpc = "idle" /\ initP /\ mutex = "none"
  /\ i \notin created /\ i \in live
  /\ created' = created \cup {i}
  /\ AddIseqToProcess(i, heap, members, status)
  /\ UNCHANGED <<vm, trans, pch, initP, mutex, live, mutations, epNeq, ivarSpec,
                 gen, jit, code, global, workers, client>>

\* Mutant: the head batch keeps its last ISEQ when that ISEQ is moved out.
MoveToHead_KeepLast(i) ==
  LET b == bbatch[i]  h == QueueHead  hm == members[h]
      moved == IF hm = <<>> THEN <<>> ELSE <<Last(hm)>>
      bm == moved \o Remove(members[b], i)
  IN /\ members' = [members EXCEPT ![h] = <<i>> \o hm, ![b] = bm]
     /\ bbatch' = [j \in Items |-> IF j = i THEN h
                                   ELSE IF moved # <<>> /\ j = Last(hm) THEN b
                                   ELSE bbatch[j]]
     /\ heap' = IF bm = <<>> THEN FreeBatch(RemoveFromList(heap, b, "queue"), b)
                             ELSE heap
     /\ status' = IF bm = <<>> THEN [status EXCEPT ![b] = "free"] ELSE status
     /\ UNCHANGED snap

\* The move of mjit_increase_iseq_priority: i goes first into the batch at
\* the head of the queue, whose last ISEQ goes first into i's batch; a batch
\* left empty is unlinked from batch_queue and freed.
MoveToHead(i) ==
  LET b     == bbatch[i]
      h     == QueueHead
      hm    == members[h]
      moved == IF hm = <<>> THEN <<>> ELSE <<Last(hm)>>
      bm    == moved \o Remove(members[b], i)
  IN /\ members' = [members EXCEPT ![h] = <<i>> \o Front(hm), ![b] = bm]
     /\ bbatch' = [j \in Items |-> IF j = i THEN h
                                   ELSE IF moved # <<>> /\ j = Last(hm) THEN b
                                   ELSE bbatch[j]]
     /\ heap' = IF bm = <<>> THEN FreeBatch(RemoveFromList(heap, b, "queue"), b)
                             ELSE heap
     /\ status' = IF bm = <<>> THEN [status EXCEPT ![b] = "free"] ELSE status
     /\ UNCHANGED snap

\* mjit_increase_iseq_priority, under the mutex.  The ISEQ's batch is never
\* curr_batch (see AddIseqToProcess); a queued batch behind the head
\* trades its ISEQ for the head batch's last one.  The code asserts that
\* batch_queue is not empty then, and aborts if it is.
IncreasePriority(i) ==
  LET b == bbatch[i] IN
  \/ /\ status[b] = "in_queue" /\ QueueHead # b /\ QueueHead # NoBatch
     /\ MoveToHead(i)
  \/ /\ status[b] = "in_queue" /\ QueueHead = NoBatch
     /\ heap' = [heap EXCEPT !.crash = TRUE]
     /\ UNCHANGED <<status, members, bbatch, snap>>
  \/ /\ ~(status[b] = "in_queue" /\ QueueHead # b)
     /\ UNCHANGED <<heap, status, members, bbatch, snap>>

RaisePriority(i) ==
  /\ Alive /\ cpc = "idle" /\ initP /\ mutex = "none"
  /\ i \in created /\ i \in live
  /\ IncreasePriority(i)
  /\ UNCHANGED <<vm, trans, pch, initP, mutex, created, live, mutations, epNeq,
                 ivarSpec, gen, jit, code, global, workers, client>>

\* Mutant: the batch status is returned instead of jit_code.
IseqFun_Status(i, st) == IF st = "failed" THEN "null" ELSE st

\* The value mjit_get_iseq_fun returns once i's batch is done.
IseqFun(i, st) == IF st = "failed" THEN "null" ELSE jit[i]

\* mjit_get_iseq_fun, first critical section: mjit_increase_iseq_priority.
GetIseqFun(i) ==
  /\ Alive /\ cpc = "idle" /\ initP /\ mutex = "none"
  /\ i \in created /\ i \in live
  /\ IncreasePriority(i)
  /\ cpc' = "getfun" /\ cwait' = i
  /\ UNCHANGED <<vm, trans, pch, initP, mutex, created, live, mutations, epNeq,
                 ivarSpec, gen, jit, code, global, workers, cres, finishP, finished,
                 destroyed>>

\* The batch done, as the loop condition of mjit_get_iseq_fun reads it.
GetIseqFunDone == status[bbatch[cwait]] \in {"loaded", "failed"}

\* Second critical section: bi->batch is read again and, unless the batch
\* is already loaded or failed, the client waits on mjit_client_wakeup.
GetIseqFunCheck ==
  /\ Alive /\ cpc = "getfun" /\ mutex = "none"
  /\ cpc' = IF GetIseqFunDone THEN "getfun_ret" ELSE "wait"
  /\ UNCHANGED <<vm, trans, engine, iseqs, global, workers, cwait, cres, finishP,
                 finished, destroyed>>

\* The client wakes on mjit_client_wakeup (or spuriously), retakes the
\* mutex and finds the batch loaded or failed.
GetIseqFunWake ==
  /\ Alive /\ cpc = "wait" /\ mutex = "none"
  /\ GetIseqFunDone
  /\ cpc' = "getfun_ret"
  /\ UNCHANGED <<vm, trans, engine, iseqs, global, workers, cwait, cres, finishP,
                 finished, destroyed>>

\* After CRITICAL_SECTION_FINISH, b->status and jit_code are read without
\* the mutex and the result returned.
GetIseqFunReturn ==
  /\ Alive /\ cpc = "getfun_ret"
  /\ cpc' = "idle" /\ cres' = IseqFun(cwait, status[bbatch[cwait]])
  /\ UNCHANGED <<vm, trans, engine, iseqs, global, workers, cwait, finishP, finished,
                 destroyed>>

\* Mutant: an emptied batch is neither unlinked nor freed.
RedoIseq_KeepEmpty(i) ==
  /\ mutations' = [mutations EXCEPT ![i] = @ + 1]
  /\ jit' = [jit EXCEPT ![i] = "not_ready"]
  /\ AddIseqToProcess(i, heap, [members EXCEPT ![bbatch[i]] = Remove(@, i)], status)

\* mjit_redo_iseq: take i out of its batch (when no ISEQ is left, unlinking
\* the batch from done_batches under the mutex and freeing it), count a
\* mutation, reset jit_code and add i for processing again.  It first
\* asserts that the batch is BATCH_LOADED, and aborts if it is not.
RedoIseq(i) ==
  LET b     == bbatch[i]
      rest  == Remove(members[b], i)
      empty == rest = <<>>
  IN \/ /\ status[b] # "loaded"
        /\ heap' = [heap EXCEPT !.crash = TRUE]
        /\ UNCHANGED <<mutations, jit, members, status, bbatch, snap>>
     \/ /\ status[b] = "loaded"
        /\ mutations' = [mutations EXCEPT ![i] = @ + 1]
        /\ jit' = [jit EXCEPT ![i] = "not_ready"]
        /\ AddIseqToProcess(i, IF empty THEN FreeBatch(RemoveFromList(heap, b, "done"), b)
                                        ELSE heap,
                            [members EXCEPT ![b] = rest],
                            IF empty THEN [status EXCEPT ![b] = "free"] ELSE status)

\* Machine code of ISEQ i finds its speculation k wrong: mjit_ivar_spec_fail,
\* mjit_ep_eq_bp_fail, or the stop_spec tail of the generated function
\* (mjit_store_failed_spec_insn, then mjit_change_iseq).  It goes on only
\* while jit_code is a function (>= LAST_JIT_ISEQ_FUN).  MutationBound caps
\* the mutations a behaviour explores.
SpecFail(i, k) ==
  /\ Alive /\ cpc = "idle" /\ mutex = "none"
  /\ i \in live /\ jit[i] = "code" /\ CanFail(code[i], k)
  /\ mutations[i] < MutationBound
  /\ epNeq' = IF k = "ep" THEN epNeq \cup {i} ELSE epNeq
  /\ ivarSpec' = IF k = "ivar" THEN ivarSpec \ {i} ELSE ivarSpec
  /\ RedoIseq(i)
  /\ UNCHANGED <<vm, trans, pch, initP, mutex, created, live, gen, code, global, workers, client>>

\* The VM calls the function jit_code points to: a frame running it is
\* pushed, remembering the spec_state the function was compiled under.
CallIseq(i) ==
  /\ Alive /\ cpc = "idle" /\ i \in live /\ jit[i] = "code"
  /\ Len(stack) < MaxDepth
  /\ stack' = Append(stack, [iseq |-> i, spec |-> code[i].spec, cancel |-> FALSE])
  /\ UNCHANGED <<started, trans, engine, iseqs, global, workers, client>>

\* The innermost frame running JIT code returns.
ReturnFromIseq ==
  /\ Alive /\ cpc = "idle" /\ stack # <<>>
  /\ stack' = Front(stack)
  /\ UNCHANGED <<started, trans, engine, iseqs, global, workers, client>>

\* mjit_cancel_all's walk over the frames of the living threads: a frame
\* whose ISEQ's jit_code is a function (>= LAST_JIT_ISEQ_FUN) gets
\* VM_FRAME_FLAG_CANCEL.
MarkFrames ==
  [k \in 1..Len(stack) |->
     IF jit[stack[k].iseq] = "code"
     THEN [stack[k] EXCEPT !.cancel = TRUE] ELSE stack[k]]

\* remove_from_list(b, &done_batches), then add_to_list(b, &batch_queue).
Requeue(H, b) == AddToList(RemoveFromList(H, b, "done"), b, "queue")

\* Mutant: mjit_cancel_all requeues every invalid batch of done_batches,
\* without testing for BATCH_LOADED.
CancelAll_AnyStatus(e) ==
  /\ Alive /\ cpc = "idle" /\ initP /\ mutex = "none"
  /\ changes < MaxGlobalChanges
  /\ trace' = CASE e = "trace_on" -> TRUE [] e = "trace_off" -> FALSE [] OTHER -> trace
  /\ bop' = (bop \/ e = "bop")
  /\ changes' = changes + 1
  /\ LET new == SetupSpecState(trace', bop')
         Stale(b) == ~ValidSpecState(snap[b], new)
         stale == SelectSeq(done, Stale)
     IN /\ heap' = FoldLeft(Requeue, heap, stale)
        /\ status' = [b \in Batches |-> IF Contains(stale, b) THEN "in_queue" ELSE status[b]]
  /\ stack' = MarkFrames
  /\ UNCHANGED <<started, trans, pch, initP, mutex, members, snap, iseqs, workers, client>>

\* The VM changes tracing or redefines a basic operation, then calls
\* mjit_cancel_all: every loaded batch in done_batches whose spec_state is
\* no longer valid moves to the tail of batch_queue.  The loop saves
\* b->next before it moves b, so it visits the list as it was.
CancelAll(e) ==
  /\ Alive /\ cpc = "idle" /\ initP /\ mutex = "none"
  /\ changes < MaxGlobalChanges
  /\ trace' = CASE e = "trace_on" -> TRUE [] e = "trace_off" -> FALSE [] OTHER -> trace
  /\ bop' = (bop \/ e = "bop")
  /\ changes' = changes + 1
  /\ LET new == SetupSpecState(trace', bop')
         Stale(b) == status[b] = "loaded" /\ ~ValidSpecState(snap[b], new)
         stale == SelectSeq(done, Stale)
     IN /\ heap' = FoldLeft(Requeue, heap, stale)
        /\ status' = [b \in Batches |-> IF Contains(stale, b) THEN "in_queue" ELSE status[b]]
  /\ stack' = MarkFrames
  /\ UNCHANGED <<started, trans, pch, initP, mutex, members, snap, iseqs, workers, client>>

\* mjit_free_iseq: the GC frees a JITed ISEQ no frame runs; bi->iseq is
\* cleared under the mutex.
FreeIseq(i) ==
  /\ Alive /\ cpc = "idle" /\ initP /\ mutex = "none"
  /\ i \in created /\ i \in live
  /\ \A k \in 1..Len(stack) : stack[k].iseq # i
  /\ live' = live \ {i}
  /\ UNCHANGED <<vm, trans, engine, created, bbatch, mutations, epNeq, ivarSpec, gen, jit,
                 code, global, workers, client>>

\* mjit_finish, first part: wait for the precompiled header, then set
\* finish_workers_p.
FinishStart ==
  /\ Finishing
  /\ Alive /\ cpc = "idle" /\ initP /\ mutex = "none"
  /\ pch # "not_ready"
  /\ finishP' = TRUE /\ cpc' = "finish"
  /\ UNCHANGED <<vm, trans, engine, iseqs, global, workers, cwait, cres, finished, destroyed>>

\* mjit_finish, second part: the busy loop broadcasting to the workers ends
\* once finished_workers (read without the mutex) reaches workers_num; the
\* mutex is destroyed and all batches freed.
\* Mutant: finish_workers frees done_batches only, not batch_queue.
FinishWorkers_NoQueue ==
  /\ heap' = [FreeAll(heap, done) EXCEPT !.head["free"] = NoBatch]
  /\ status' = [b \in Batches |-> IF b \in ToSet(done) THEN "free" ELSE status[b]]
  /\ members' = [b \in Batches |-> IF b \in ToSet(done) THEN <<>> ELSE members[b]]

\* finish_workers: free_batches on done_batches and on batch_queue (curr_batch
\* is NULL, see AddIseqToProcess) puts each batch and its batch ISEQs on the
\* free lists, and finish_batches releases the free lists.  A batch on
\* neither list keeps its status and ISEQs.  The heads of batch_queue and
\* done_batches are left pointing at the released records.
FinishWorkers ==
  LET H1    == FreeAll(heap, done)
      freed == ToSet(done) \cup ToSet(Elements(H1, "queue"))
  IN
  /\ heap' = [FreeAll(H1, Elements(H1, "queue")) EXCEPT !.head["free"] = NoBatch]
  /\ status' = [b \in Batches |-> IF b \in freed THEN "free" ELSE status[b]]
  /\ members' = [b \in Batches |-> IF b \in freed THEN <<>> ELSE members[b]]

FinishEnd ==
  /\ Alive /\ cpc = "finish"
  /\ finished >= Cardinality(started)
  /\ destroyed' = TRUE /\ initP' = FALSE /\ cpc' = "finished"
  /\ FinishWorkers
  /\ UNCHANGED <<vm, trans, pch, mutex, snap, iseqs, global, workers, cwait, cres,
                 finishP, finished>>

-----------------------------------------------------------------------------
(* The thread making the precompiled header, and the workers.             *)

\* make_pch: the C compiler runs on the header, then pch_status is set and
\* the workers are woken under the mutex.  The thread exists only when
\* mjit_init got as far as creating it, that is when mjit_init_p was set.
MakePch ==
  /\ Alive /\ pch = "not_ready" /\ initP /\ mutex = "none"
  /\ \E r \in PchResults : pch' = r
  /\ UNCHANGED <<vm, trans, initP, mutex, heap, status, members, snap, iseqs,
                 global, workers, client>>

\* A worker's wait for the header.  On failure it clears mjit_init_p, counts
\* itself finished and returns; otherwise it takes the mutex for its loop.
PchWait(w) ==
  /\ Alive /\ wpc[w] = "pch" /\ pch # "not_ready" /\ mutex = "none"
  /\ IF pch = "success"
     THEN /\ mutex' = w /\ wpc' = [wpc EXCEPT ![w] = "top"]
          /\ UNCHANGED <<initP, finished>>
     ELSE /\ initP' = FALSE /\ finished' = finished + 1
          /\ wpc' = [wpc EXCEPT ![w] = "exited"]
          /\ UNCHANGED mutex
  /\ UNCHANGED <<vm, trans, pch, heap, status, members, snap, iseqs, global,
                 wb, wres, wpub, wtmp, cpc, cwait, cres, finishP, destroyed>>

\* The head of the worker loop.  After make_pch and after the wait for work
\* the worker holds the mutex.  When finish_workers_p is set it reads
\* finished_workers to increment it and leaves the loop; otherwise
\* get_from_list starts with b = list->head, and an empty queue ends the
\* critical section and sends the worker to the wait.
Top(w) ==
  /\ Alive /\ wpc[w] = "top"
  /\ \/ /\ finishP
        /\ wtmp' = [wtmp EXCEPT ![w] = finished]
        /\ wpc' = [wpc EXCEPT ![w] = "inc"]
        /\ UNCHANGED <<wb, mutex>>
     \/ /\ ~finishP /\ QueueHead = NoBatch
        /\ mutex' = "none"
        /\ wpc' = [wpc EXCEPT ![w] = "wait"]
        /\ UNCHANGED <<wb, wtmp>>
     \/ /\ ~finishP /\ QueueHead # NoBatch
        /\ wb' = [wb EXCEPT ![w] = QueueHead]
        /\ wpc' = [wpc EXCEPT ![w] = "get_unlink"]
        /\ UNCHANGED <<mutex, wtmp>>
  /\ UNCHANGED <<vm, trans, pch, initP, heap, status, members, snap, iseqs, global,
                 wres, wpub, client>>

\* The loop back to the head after a batch.  The code takes no mutex
\* there (LoopHeadLock FALSE), so the head's test, finished_workers++ and
\* get_from_list run while the client and the other workers update
\* batch_queue, and its CRITICAL_SECTION_FINISH unlocks a mutex the worker
\* does not hold.  With LoopHeadLock the worker first takes the mutex, as
\* that CRITICAL_SECTION_FINISH expects.
TopNoLock(w) ==
  /\ Alive /\ wpc[w] = "top_nolock"
  /\ LoopHeadLock => mutex = "none"
  /\ mutex' = IF LoopHeadLock THEN w ELSE mutex
  /\ wpc' = [wpc EXCEPT ![w] = "top"]
  /\ UNCHANGED <<vm, trans, pch, initP, heap, status, members, snap, iseqs, global,
                 wb, wres, wpub, wtmp, client>>

\* Mutant: get_from_list returns the head without unlinking it.
GetUnlink_Skip(w) ==
  /\ Alive /\ wpc[w] = "get_unlink"
  /\ wpc' = [wpc EXCEPT ![w] = "get_fix"]
  /\ UNCHANGED <<vm, trans, pch, initP, mutex, heap, status, members, snap, iseqs,
                 global, wb, wres, wpub, wtmp, client>>

\* list->head = list->head->next.
GetUnlink(w) ==
  /\ Alive /\ wpc[w] = "get_unlink"
  /\ heap' = GetStepUnlink(heap, "queue")
  /\ wpc' = [wpc EXCEPT ![w] = "get_fix"]
  /\ UNCHANGED <<vm, trans, pch, initP, mutex, status, members, snap, iseqs, global,
                 wb, wres, wpub, wtmp, client>>

\* The test of the new head: the tail or the new head's prev is cleared.
GetFix(w) ==
  /\ Alive /\ wpc[w] = "get_fix"
  /\ heap' = GetStepFix(heap, "queue")
  /\ wpc' = [wpc EXCEPT ![w] = "get_status"]
  /\ UNCHANGED <<vm, trans, pch, initP, mutex, status, members, snap, iseqs, global,
                 wb, wres, wpub, wtmp, client>>

\* b->status = BATCH_IN_EXECUTION, then CRITICAL_SECTION_FINISH, which
\* leaves the mutex free whoever held it.
GetStatus(w) ==
  /\ Alive /\ wpc[w] = "get_status"
  /\ status' = [status EXCEPT ![wb[w]] = "in_execution"]
  /\ mutex' = "none"
  /\ wpc' = [wpc EXCEPT ![w] = "compile"]
  /\ UNCHANGED <<vm, trans, pch, initP, heap, members, snap, iseqs, global,
                 wb, wres, wpub, wtmp, client>>

\* The write of finished_workers++ and the break out of the loop.
IncFinished(w) ==
  /\ Alive /\ wpc[w] = "inc"
  /\ finished' = wtmp[w] + 1
  /\ wpc' = [wpc EXCEPT ![w] = "exit"]
  /\ UNCHANGED <<vm, trans, engine, iseqs, global, wb, wres, wpub, wtmp, cpc, cwait, cres,
                 finishP, destroyed>>

\* CRITICAL_SECTION_FINISH("in worker to finish") and return.
Exit(w) ==
  /\ Alive /\ wpc[w] = "exit"
  /\ mutex' = "none"
  /\ wpc' = [wpc EXCEPT ![w] = "exited"]
  /\ UNCHANGED <<vm, trans, pch, initP, heap, status, members, snap, iseqs,
                 global, wb, wres, wpub, wtmp, client>>

\* Mutant: the wait loop's condition joined with || instead of &&.
Wait_BothConds(w) ==
  /\ Alive /\ wpc[w] = "wait" /\ mutex = "none"
  /\ QueueHead # NoBatch /\ finishP
  /\ mutex' = w
  /\ wpc' = [wpc EXCEPT ![w] = "top"]
  /\ UNCHANGED <<vm, trans, pch, initP, heap, status, members, snap, iseqs,
                 global, wb, wres, wpub, wtmp, client>>

\* pthread_cond_wait on mjit_worker_wakeup until the queue is not empty or
\* finish_workers_p is set; the worker wakes holding the mutex.
Wait(w) ==
  /\ Alive /\ wpc[w] = "wait" /\ mutex = "none"
  /\ QueueHead # NoBatch \/ finishP
  /\ mutex' = w
  /\ wpc' = [wpc EXCEPT ![w] = "top"]
  /\ UNCHANGED <<vm, trans, pch, initP, heap, status, members, snap, iseqs,
                 global, wb, wres, wpub, wtmp, client>>

\* start_batch, outside the mutex.  When get_uniq_fname fails it sets
\* BATCH_FAILED and returns before translating; otherwise
\* translate_batch_iseqs records the current global speculation state in
\* the batch, computes the batch's ep_neq_bp_p and walks its ISEQs.
StartBatch(w) ==
  LET b == wb[w] IN
  /\ Alive /\ wpc[w] = "compile"
  /\ \E r \in CCResults : \E early \in IF r = "start_fail" THEN BOOLEAN ELSE {FALSE} :
       /\ wres' = [wres EXCEPT ![w] = r]
       /\ IF early
          THEN /\ status' = [status EXCEPT ![b] = "failed"]
               /\ wpc' = [wpc EXCEPT ![w] = "setstatus"]
               /\ UNCHANGED <<snap, trans>>
          ELSE /\ snap' = [snap EXCEPT ![b] = CurrentSpecState]
               /\ wep' = [wep EXCEPT ![w] = BatchEpNeq(b)]
               /\ wtr' = [wtr EXCEPT ![w] = members[b]]
               /\ wpc' = [wpc EXCEPT ![w] = "translate"]
               /\ UNCHANGED status
  /\ UNCHANGED <<vm, pch, initP, mutex, heap, members, iseqs, global, wb,
                 wpub, wtmp, client>>

\* One turn of translate_batch_iseqs' loop: an ISEQ whose bi->iseq is NULL
\* (garbage collected) is skipped, otherwise its body is read next.  After
\* the loop the C compiler is started; when that fails (or the C file could
\* not be written) start_batch sets BATCH_FAILED.
TranslateIseq(w) ==
  LET b == wb[w] IN
  /\ Alive /\ wpc[w] = "translate"
  /\ IF wtr[w] = <<>>
     THEN /\ status' = IF wres[w] = "start_fail" THEN [status EXCEPT ![b] = "failed"]
                                                 ELSE status
          /\ wpc' = [wpc EXCEPT ![w] = "setstatus"]
          /\ UNCHANGED wtr
     ELSE /\ IF Head(wtr[w]) \in live
             THEN /\ wpc' = [wpc EXCEPT ![w] = "translate_use"]
                  /\ UNCHANGED wtr
             ELSE /\ wtr' = [wtr EXCEPT ![w] = Tail(@)]
                  /\ UNCHANGED wpc
          /\ UNCHANGED status
  /\ UNCHANGED <<vm, wep, pch, initP, mutex, heap, members, snap, iseqs,
                 global, wb, wres, wpub, wtmp, client>>

\* The rest of the turn: bi->iseq->body is dereferenced (without the mutex)
\* and the ISEQ translated.
TranslateUse(w) ==
  LET b == wb[w]  i == Head(wtr[w]) IN
  /\ Alive /\ wpc[w] = "translate_use"
  /\ gen' = [gen EXCEPT ![i] = Translation(i, b, wep[w])]
  /\ wtr' = [wtr EXCEPT ![w] = Tail(@)]
  /\ wpc' = [wpc EXCEPT ![w] = "translate"]
  /\ UNCHANGED <<vm, wep, engine, created, bbatch, live, mutations, epNeq, ivarSpec,
                 jit, code, global, wb, wres, wpub, wtmp, client>>

\* Exit codes waitpid can report.  After a start_batch failure waitpid gets
\* a stale b->pid and the status word is left uninitialized, so either
\* exit code can come out.
ExitCodes(r) == CASE r = "ok" -> {0} [] r = "fail" -> {1} [] r = "start_fail" -> {0, 1}

\* The worker's critical section after waitpid: BATCH_SUCCESS or
\* BATCH_FAILED, and the batch joins done_batches.  A failed batch ends the
\* iteration.
SetStatus(w) ==
  LET b == wb[w] IN
  /\ Alive /\ wpc[w] = "setstatus" /\ mutex = "none"
  /\ \E ec \in ExitCodes(wres[w]) :
       /\ status' = [status EXCEPT ![b] = IF ec = 0 THEN "success" ELSE "failed"]
       /\ wpc' = [wpc EXCEPT ![w] = IF ec = 0 THEN "recheck" ELSE "top_nolock"]
       /\ wb' = [wb EXCEPT ![w] = IF ec = 0 THEN b ELSE NoBatch]
  /\ heap' = AddToList(heap, b, "done")
  /\ UNCHANGED <<vm, trans, pch, initP, mutex, members, snap, iseqs, global,
                 wres, wpub, wtmp, client>>

Recheck_Inverted(w) ==
  LET b == wb[w] IN
  /\ Alive /\ wpc[w] = "recheck" /\ mutex = "none"
  /\ IF ~ValidSpecState(snap[b], CurrentSpecState)
     THEN /\ wpc' = [wpc EXCEPT ![w] = "load"]
          /\ UNCHANGED <<heap, status, wb>>
     ELSE /\ heap' = Requeue(heap, b)
          /\ status' = [status EXCEPT ![b] = "in_queue"]
          /\ wpc' = [wpc EXCEPT ![w] = "top_nolock"]
          /\ wb' = [wb EXCEPT ![w] = NoBatch]
  /\ UNCHANGED <<vm, trans, pch, initP, mutex, members, snap, iseqs, global, wres,
                 wpub, wtmp, client>>

\* The worker's check of the global speculation state after a successful
\* compile: a batch made under assumptions that no longer hold goes back
\* from done_batches to the tail of batch_queue.
Recheck(w) ==
  LET b == wb[w] IN
  /\ Alive /\ wpc[w] = "recheck" /\ mutex = "none"
  /\ IF ValidSpecState(snap[b], CurrentSpecState)
     THEN /\ wpc' = [wpc EXCEPT ![w] = "load"]
          /\ UNCHANGED <<heap, status, wb>>
     ELSE /\ heap' = Requeue(heap, b)
          /\ status' = [status EXCEPT ![b] = "in_queue"]
          /\ wpc' = [wpc EXCEPT ![w] = "top_nolock"]
          /\ wb' = [wb EXCEPT ![w] = NoBatch]
  /\ UNCHANGED <<vm, trans, pch, initP, mutex, members, snap, iseqs, global, wres,
                 wpub, wtmp, client>>

\* load_batch: dlopen outside the mutex, then BATCH_LOADED or BATCH_FAILED
\* under it.  After a start_batch failure b->ofname is NULL, and dlopen(NULL)
\* returns the handle of the program itself.
Load(w) ==
  LET b == wb[w] IN
  /\ Alive /\ wpc[w] = "load" /\ mutex = "none"
  /\ \E r \in IF wres[w] = "start_fail" THEN {"ok"} ELSE DlopenResults :
       status' = [status EXCEPT ![b] = IF r = "ok" THEN "loaded" ELSE "failed"]
  /\ wpub' = [wpub EXCEPT ![w] = members[b]]
  /\ wpc' = [wpc EXCEPT ![w] = IF members[b] = <<>> THEN "top_nolock" ELSE "publish"]
  /\ UNCHANGED <<vm, trans, pch, initP, mutex, heap, members, snap, iseqs,
                 global, wb, wres, wtmp, client>>

\* One turn of load_batch's loop over the batch ISEQs: dlsym the ISEQ's
\* function if b->status (read without the mutex) is BATCH_LOADED, then set
\* jit_code under the mutex unless the ISEQ was garbage collected.  No
\* function exists when start_batch failed.
Publish(w) ==
  LET b    == wb[w]
      i    == Head(wpub[w])
      addr == IF status[b] = "loaded" /\ wres[w] # "start_fail" THEN "code" ELSE "not_added"
  IN /\ Alive /\ wpc[w] = "publish" /\ mutex = "none"
     /\ jit' = IF i \in live THEN [jit EXCEPT ![i] = addr] ELSE jit
     /\ code' = IF i \in live /\ addr = "code" THEN [code EXCEPT ![i] = gen[i]] ELSE code
     /\ wpub' = [wpub EXCEPT ![w] = Tail(@)]
     /\ wpc' = [wpc EXCEPT ![w] = IF Tail(wpub[w]) = <<>> THEN "top_nolock" ELSE "publish"]
     /\ wb' = [wb EXCEPT ![w] = IF Tail(wpub[w]) = <<>> THEN NoBatch ELSE b]
     /\ UNCHANGED <<vm, trans, engine, created, bbatch, live, mutations, epNeq, ivarSpec, gen,
                    global, wres, wtmp, client>>

-----------------------------------------------------------------------------

\* mjit_init's thread creation.  When every pthread_create succeeds
\* (init_state 5) all workers run.  When one fails after the header thread
\* started (init_state 4), the workers created so far keep running, while
\* the switch sets mjit_init_p and falls through to destroying the
\* condition variables and mjit_engine_mutex.  When mjit_init returns
\* earlier (no header file, a failed xmalloc or get_uniq_fname, or a
\* pthread_create failing before the header thread ran: init_state 0-3),
\* no thread runs and mjit_init_p stays FALSE, so MJIT is off.
StartThreads ==
  \E r \in InitResults :
    /\ initP = (r # "off")
    /\ started \in CASE r = "ok"      -> {Workers}
                    [] r = "partial" -> SUBSET Workers \ {Workers}
                    [] r = "off"     -> {{}}
    /\ destroyed = (r = "partial")
    /\ wpc = [w \in Workers |-> IF w \in started THEN "pch" ELSE "unborn"]

Init ==
  /\ pch = "not_ready" /\ mutex = "none"
  /\ heap = EmptyHeap(Batches)
  /\ status = [b \in Batches |-> "free"]
  /\ members = [b \in Batches |-> <<>>]
  /\ snap = [b \in Batches |-> NoSpeculation]
  /\ created = {} /\ bbatch = [i \in Items |-> NoBatch] /\ live = Items
  /\ mutations = [i \in Items |-> 0] /\ epNeq = {} /\ ivarSpec = IvarSpecInit
  /\ gen = [i \in Items |-> NoCode]
  /\ jit = [i \in Items |-> "not_ready"]
  /\ code = [i \in Items |-> NoCode]
  /\ trace = FALSE /\ bop = FALSE /\ changes = 0
  /\ wb = [w \in Workers |-> NoBatch]
  /\ wres = [w \in Workers |-> "ok"] /\ wpub = [w \in Workers |-> <<>>]
  /\ wtmp = [w \in Workers |-> 0]
  /\ Alive /\ cpc = "idle" /\ cwait = NoItem /\ cres = "none"
  /\ finishP = FALSE /\ finished = 0
  /\ StartThreads
  /\ stack = <<>>
  /\ wtr = [w \in Workers |-> <<>>] /\ wep = [w \in Workers |-> FALSE]

ClientStep ==
  \/ \E i \in Items : Submit(i) \/ RaisePriority(i) \/ GetIseqFun(i) \/ FreeIseq(i)
  \/ \E i \in Items : CallIseq(i)
  \/ ReturnFromIseq
  \/ \E i \in Items, k \in SpecFailKinds : SpecFail(i, k)
  \/ \E e \in GlobalEvents : CancelAll(e)
  \/ GetIseqFunCheck \/ GetIseqFunWake \/ GetIseqFunReturn
  \/ FinishStart
  \/ FinishEnd

WorkerStep(w) ==
  \/ PchWait(w) \/ Top(w) \/ TopNoLock(w) \/ IncFinished(w) \/ Exit(w) \/ Wait(w)
  \/ GetUnlink(w) \/ GetFix(w) \/ GetStatus(w)
  \/ StartBatch(w) \/ TranslateIseq(w) \/ TranslateUse(w) \/ SetStatus(w) \/ Recheck(w) \/ Load(w) \/ Publish(w)

\* The engine at rest: MJIT is off and every worker returned, or the Ruby
\* program runs on without calling MJIT while the workers wait for work, or
\* mjit_finish's loop spins broadcasting while finished_workers < workers_num,
\* or the process died in a list operation.
Rest ==
  /\ \/ heap.crash
     \/ ~initP /\ cpc \in {"idle", "finished"} /\ \A w \in started : wpc[w] = "exited"
     \/ cpc = "idle" /\ QueueHead = NoBatch /\ \A w \in started : wpc[w] \in {"wait", "exited"}
     \/ cpc = "finish" /\ finished < Cardinality(started)
  /\ UNCHANGED vars

Next ==
  \/ ClientStep
  \/ MakePch
  \/ \E w \in Workers : WorkerStep(w)
  \/ Rest

\* Workers and the header thread are scheduled by the OS: every step a
\* thread can keep taking is eventually taken.  The client's calls come
\* from the Ruby program and are not forced; its wakeup in
\* mjit_get_iseq_fun and the end of mjit_finish are.
Fairness ==
  /\ WF_vars(MakePch)
  /\ \A w \in Workers : WF_vars(WorkerStep(w))
  /\ WF_vars(GetIseqFunCheck) /\ WF_vars(GetIseqFunWake)
  /\ WF_vars(GetIseqFunReturn) /\ WF_vars(FinishEnd)

Spec == Init /\ [][Next]_vars /\ Fairness

-----------------------------------------------------------------------------
(* Properties *)

TypeOK ==
  /\ pch \in {"not_ready", "failed", "success"}
  /\ initP \in BOOLEAN /\ mutex \in {"none", "client"} \cup Workers
  /\ heap.head \in [Lists -> Batches \cup {NoBatch}]
  /\ heap.tail \in [Lists -> Batches \cup {NoBatch}]
  /\ heap.next \in [Batches -> Batches \cup {NoBatch}]
  /\ heap.prev \in [Batches -> Batches \cup {NoBatch}]
  /\ heap.crash \in BOOLEAN
  /\ status \in [Batches -> BatchStatus]
  /\ members \in [Batches -> Seq(Items)]
  /\ snap \in [Batches -> SpecStates]
  /\ created \subseteq Items /\ live \subseteq Items
  /\ bbatch \in [Items -> Batches \cup {NoBatch}]
  /\ mutations \in [Items -> Nat] /\ epNeq \subseteq Items /\ ivarSpec \subseteq Items
  /\ gen \in [Items -> CodeFlags] /\ code \in [Items -> CodeFlags]
  /\ jit \in [Items -> JitCodes]
  /\ trace \in BOOLEAN /\ bop \in BOOLEAN /\ changes \in 0..MaxGlobalChanges
  /\ wpc \in [Workers -> WorkerPCs] /\ wb \in [Workers -> Batches \cup {NoBatch}]
  /\ wres \in [Workers -> CCResults \cup {"ok"}] /\ wpub \in [Workers -> Seq(Items)]
  /\ wtmp \in [Workers -> Nat]
  /\ cpc \in ClientPCs /\ cwait \in Items \cup {NoItem}
  /\ cres \in {"none", "null"} \cup JitCodes
  /\ finishP \in BOOLEAN /\ finished \in Nat /\ destroyed \in BOOLEAN
  /\ started \subseteq Workers
  /\ stack \in Seq([iseq : Items, spec : SpecStates, cancel : BOOLEAN])
  /\ Len(stack) <= MaxDepth
  /\ wtr \in [Workers -> Seq(Items)] /\ wep \in [Workers -> BOOLEAN]

\* A batch a worker is taking off batch_queue by the statements of
\* get_from_list run without the mutex, up to its BATCH_IN_EXECUTION.
Taking(b) ==
  \E w \in Workers : wpc[w] \in {"get_unlink", "get_fix", "get_status"} /\ wb[w] = b

\* A batch a worker has taken and not yet put into done_batches.
Taken(w) == wpc[w] \in {"compile", "translate", "translate_use", "setstatus"}

BatchHeldByOneWorker ==
  \A w \in Workers : Taken(w) =>
    /\ \A v \in Workers \ {w} : Taken(v) => wb[v] # wb[w]
    /\ ~Contains(queue, wb[w]) /\ ~Contains(done, wb[w])
    /\ status[wb[w]] \in {"in_execution", "failed"}

\* Every ISEQ MJIT knows is in exactly the batch bi->batch names, across
\* the moves of mjit_increase_iseq_priority and mjit_redo_iseq.
ItemInOneBatch ==
  ~destroyed =>
    \A i \in created :
      /\ \A b \in Batches : InBatch(i, b) => bbatch[i] = b
      /\ initP => InBatch(i, bbatch[i])

\* A batch left without ISEQs is freed at once (mjit_redo_iseq and
\* mjit_increase_iseq_priority): no allocated batch is empty.
NoLeakedEmptyBatch ==
  \A b \in Batches : status[b] # "free" => members[b] # <<>>

\* stop_spec records the failed instruction in mutation_insns[mutation_num],
\* and get_insn_mutation_num and print_statistics read entries
\* 0..jit_mutations_num-1: an ISEQ never mutates past the max_mutations + 1
\* entries mjit_iseq_update_mutation_insns allocates.
MutationLogInBounds == \A i \in Items : mutations[i] <= MaxMutations + 1

\* mjit_get_iseq_fun returns the function, NOT_ADDED for an ISEQ without one,
\* or NULL for a failed batch, never the NOT_READY placeholder.
GetIseqFunResult == cres # "not_ready"

\* mjit_finish destroys the mutex and frees the batches only after every
\* worker has returned.
TeardownAfterExit == destroyed => \A w \in started : wpc[w] = "exited"

\* A loaded batch's code was made under assumptions that still hold:
\* mjit_cancel_all requeues every batch whose spec_state became invalid.
LoadedSpecStateValid ==
  \A b \in Batches : status[b] = "loaded" => ValidSpecState(snap[b], CurrentSpecState)

\* Every batch status change follows the diagram of batch statuses in
\* mjit.c: the worker loop, start_batch, load_batch, mjit_cancel_all and
\* the client's batch handling implement MJITBatchLifecycle with b->status
\* as the abstract status.
Lifecycle == INSTANCE MJITBatchLifecycle WITH bstatus <- status

StatusFollowsDiagram == Lifecycle!Spec

\* translate_batch_iseqs tests bi->iseq for NULL and then, without the
\* mutex, reads bi->iseq->body: the ISEQ a worker is translating has not
\* been freed by mjit_free_iseq in between.
NoUseAfterFree ==
  \A w \in Workers : wpc[w] = "translate_use" => Head(wtr[w]) \in live

\* Once mjit_engine_mutex and the condition variables are destroyed, the
\* header thread and the workers, each of whose steps uses them, take no
\* further step.
NoThreadStepAfterDestroy == [][destroyed => UNCHANGED <<pch, wpc>>]_vars

\* mjit_cancel_all marks for cancellation every frame running JIT code
\* when the global speculation state changes, so that no frame goes on
\* running code compiled under assumptions that may no longer hold.
CancelMarksRunningFrames ==
  [][changes' > changes => \A k \in 1..Len(stack') : stack'[k].cancel]_vars

\* A batch an ISEQ waits in (queued, being compiled, or compiled and
\* awaiting load_batch).
Pending(i) ==
  /\ i \in created /\ bbatch[i] # NoBatch
  /\ status[bbatch[i]] \in {"in_queue", "in_execution", "success"}

\* Every ISEQ handed to MJIT has its batch loaded or failed in the end,
\* whether or not the client waits for it in mjit_get_iseq_fun: the
\* workers' wait on mjit_worker_wakeup, the priority moves, the recheck's
\* requeues and the compile and load failures never strand a batch.  Only
\* mjit_finish (finish_workers_p) may leave it.
BatchEventuallyDone ==
  \A i \in Items :
    Pending(i) ~> \/ bbatch[i] # NoBatch /\ status[bbatch[i]] \in {"loaded", "failed"}
                 \/ finishP

\* mjit_finish leaks no batch: once the workers have left their loop,
\* every batch record is on done_batches or batch_queue (none is held by
\* a worker, and curr_batch is NULL), so finish_workers releases them all.
FinishFreesAllBatches ==
  cpc = "finished" => \A b \in Batches : status[b] = "free"

\* mjit_get_iseq_fun does not wait forever.
GetIseqFunReturns == cpc \in {"getfun", "wait", "getfun_ret"} ~> cpc = "idle"

=============================================================================
