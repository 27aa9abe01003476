---------------------------- MODULE MCPromotePipe ----------------------------
(* Two slots, three submissions over two runs of the pipe: a full pipe, a     *)
(* slot used again, and jobs that are still queued when it is stopped.  The client *)
(* may stop for good, so deadlock is not checked.                             *)
EXTENDS PromotePipe
==============================================================================
