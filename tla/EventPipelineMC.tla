-------------------------- MODULE EventPipelineMC --------------------------
(* Small instances of EventPipeline.  One tailer, the timer and the main   *)
(* thread already send, replay and evict together; a second tailer only    *)
(* adds a thread of the same kind.                                         *)
EXTENDS EventPipeline
=============================================================================
