--------------------------- MODULE MCRecvPipeline ---------------------------
(* Small instances of RecvPipeline.                                         *)
EXTENDS RecvPipeline
=============================================================================
