--------------------------- MODULE MJITBatchList ---------------------------
(***************************************************************************)
(* The batch lists of mjit.c as the memory they live in.  batch_queue and  *)
(* done_batches are doubly linked lists (head, tail, and each record's     *)
(* next and prev fields); free_batch_list is a stack threaded through the  *)
(* same next field.  A record is on at most one list in a correct run, so  *)
(* the three share one next and one prev per record, as in the code.       *)
(*                                                                         *)
(* A heap is [head, tail, next, prev, crash]: crash records that the       *)
(* process died in a list operation (a NULL dereference or an assert).    *)
(***************************************************************************)
EXTENDS Naturals, Sequences, SequencesExt

\* NULL as a batch pointer.
NoBatch == "nobatch"

Lists == {"queue", "done", "free"}

\* The static lists are empty and xmalloc'ed records are not linked yet.
EmptyHeap(Batches) ==
  [head |-> [l \in Lists |-> NoBatch], tail |-> [l \in Lists |-> NoBatch],
   next |-> [b \in Batches |-> NoBatch], prev |-> [b \in Batches |-> NoBatch],
   crash |-> FALSE]

\* The records reached from b by following next, at most n of them (a
\* corrupted list may contain a cycle).
RECURSIVE Walk(_, _, _)
Walk(H, b, n) ==
  IF b = NoBatch \/ n = 0 THEN <<>> ELSE <<b>> \o Walk(H, H.next[b], n - 1)

\* The list l read from its head, as a loop "for (b = l.head; b; b = b->next)".
Elements(H, l) == Walk(H, H.head[l], Cardinality(DOMAIN H.next) + 1)

\* add_to_list(b, l).  b->prev is only set when the list was not empty.
AddToList(H, b, l) ==
  CASE H.head[l] = NoBatch ->
         [H EXCEPT !.next[b] = NoBatch, !.head[l] = b, !.tail[l] = b]
    [] H.tail[l] = NoBatch -> [H EXCEPT !.crash = TRUE]
    [] OTHER ->
         [H EXCEPT !.next[b] = NoBatch, !.next[H.tail[l]] = b,
                   !.prev[b] = H.tail[l], !.tail[l] = b]

RemoveFromList(H, b, l) ==
  LET H1 == CASE b = H.head[l]     -> [H EXCEPT !.head[l] = H.next[b]]
              [] H.prev[b] # NoBatch -> [H EXCEPT !.next[H.prev[b]] = H.next[b]]
              [] OTHER               -> [H EXCEPT !.crash = TRUE]
  IN CASE b = H1.tail[l]       -> [H1 EXCEPT !.tail[l] = H1.prev[b]]
       [] H1.next[b] # NoBatch -> [H1 EXCEPT !.prev[H1.next[b]] = H1.prev[b]]
       [] OTHER                -> [H1 EXCEPT !.crash = TRUE]

\* get_from_list(l), one statement at a time, as a thread runs them when
\* nothing keeps others off the list.  The first, b = list->head, is a read;
\* then list->head = list->head->next:
GetStepUnlink(H, l) ==
  IF H.head[l] = NoBatch THEN [H EXCEPT !.crash = TRUE]
  ELSE [H EXCEPT !.head[l] = H.next[H.head[l]]]

\* if (list->head == NULL) list->tail = NULL; else list->head->prev = NULL:
GetStepFix(H, l) ==
  IF H.head[l] = NoBatch THEN [H EXCEPT !.tail[l] = NoBatch]
  ELSE [H EXCEPT !.prev[H.head[l]] = NoBatch]

\* free_batch's push of b on free_batch_list.
FreeBatch(H, b) == [H EXCEPT !.next[b] = H.head["free"], !.head["free"] = b]

\* free_batches over a list whose elements were read as seq.
FreeAll(H, seq) == FoldLeft(FreeBatch, H, seq)

\* create_batch taking the top record of free_batch_list.
PopFree(H) ==
  LET b == H.head["free"] IN
  [H EXCEPT !.head["free"] = H.next[b], !.next[b] = NoBatch]

\* A list as the code relies on it: reading it from the head ends at its
\* tail with no record twice, and prev mirrors next behind the head.  The
\* head's prev is not: add_to_list leaves b->prev as it was when the list
\* is empty.  Nor is an empty list's tail, which add_to_list never reads
\* and remove_from_list may leave at that stale prev.
WellFormed(H, l) ==
  LET s == Elements(H, l) IN
  /\ IsInjective(s)
  /\ s # <<>> => /\ H.tail[l] = Last(s) /\ H.next[Last(s)] = NoBatch
                 /\ \A k \in 2..Len(s) : H.prev[s[k]] = s[k - 1]

=============================================================================
