--------------------------- MODULE MCPageCopyPool ---------------------------
(* Two workers, two callers, four jobs, batches of two, compaction from    *)
(* the second consumed entry on.                                           *)
EXTENDS PageCopyPool

MCBatches == {2}
=============================================================================
