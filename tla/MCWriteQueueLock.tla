-------------------------- MODULE MCWriteQueueLock --------------------------
(* Three concurrent calls over two trees, checked against the FIFO lock.      *)
EXTENDS WriteQueueLock
=============================================================================
