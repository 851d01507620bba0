---------------------------------- MODULE Fifo ----------------------------------
(***************************************************************************)
(* What ReaderWriterQueue promises to its one producer and its one         *)
(* consumer: a first-in first-out queue whose operations take effect at    *)
(* one instant.                                                            *)
(*                                                                         *)
(* The elements are the numbers of the enqueue calls, so that a lost, a    *)
(* repeated or a reordered element shows.  An enqueue may fail; then it    *)
(* has no effect and says so.  peek and pop report an empty queue only if  *)
(* it was empty when they were called.                                     *)
(***************************************************************************)
EXTENDS Naturals, Sequences

VARIABLES
  items,        \* the elements in the queue, oldest first
  sent,         \* number of finished enqueue calls
  accepted,     \* what the last enqueue returned
  call,         \* the operation the consumer is inside of, or "none"
  emptyAtCall,  \* the queue was empty when it was called
  result        \* what the last of them returned: an element, 0 for none

vars == <<items, sent, accepted, call, emptyAtCall, result>>

Init ==
  /\ items = <<>>
  /\ sent = 0
  /\ accepted = TRUE
  /\ call = "none"
  /\ emptyAtCall = FALSE
  /\ result = 0

Enqueue ==
  /\ sent' = sent + 1
  /\ items' = Append(items, sent + 1)
  /\ accepted' = TRUE
  /\ UNCHANGED <<call, emptyAtCall, result>>

EnqueueFails ==
  /\ sent' = sent + 1
  /\ accepted' = FALSE
  /\ UNCHANGED <<items, call, emptyAtCall, result>>

Call(op) ==
  /\ call = "none"
  /\ call' = op
  /\ emptyAtCall' = (items = <<>>)
  /\ UNCHANGED <<items, sent, accepted, result>>

ReturnFront ==
  /\ call # "none"
  /\ items # <<>>
  /\ result' = Head(items)
  /\ items' = IF call = "pop" THEN Tail(items) ELSE items
  /\ call' = "none"
  /\ UNCHANGED <<sent, accepted, emptyAtCall>>

ReturnEmpty ==
  /\ call # "none"
  /\ emptyAtCall
  /\ result' = 0
  /\ call' = "none"
  /\ UNCHANGED <<items, sent, accepted, emptyAtCall>>

Return == ReturnFront \/ ReturnEmpty

Next == Enqueue \/ EnqueueFails \/ (\E op \in {"peek", "pop"} : Call(op)) \/ Return

Spec == Init /\ [][Next]_vars

(* The consumer's operations always return, whatever the producer does.    *)
FairSpec == Spec /\ WF_vars(Return)
=============================================================================
