---------------------------- MODULE MCArincPartition -----------------------------
(* A partition on a small instance: its main thread and three others, one of  *)
(* which may become the error handler. SET_PRIORITY lowers one of them to the   *)
(* priority that the others have.                                          *)
EXTENDS ArincPartition

CONSTANTS m, t1, t2, t3

MCBasePriority == m :> 0 @@ t1 :> 1 @@ t2 :> 1 @@ t3 :> 2

VARIABLE undisturbed    \* so far the two conditions of ErrorsSpec have held

HistoryInit == PartitionInit /\ undisturbed = TRUE

HistorySpec ==
  /\ HistoryInit
  /\ [][/\ PartitionNext
        /\ undisturbed' = (undisturbed /\ ReadBeforeRestart /\ GetUndisturbed)]_<<partitionVars, undisturbed>>

(* Each thread with an unread error is listed once and no bit is set twice    *)
(* (thread_add_error_bit), as long as errors are read before restarts and no  *)
(* event interrupts pok_error_get.                                         *)
ErrorsListedSoFar == undisturbed => ErrorsListed

(* A synchronous error is only ever the first of the list (error_ignore_sync), *)
(* as long as the same holds.                                              *)
SyncErrorFirstSoFar == undisturbed => SyncErrorFirst
================================================================================
