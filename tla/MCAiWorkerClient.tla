-------------------------- MODULE MCAiWorkerClient --------------------------
(* More generations than the queue takes, an initialization, a clear, a    *)
(* cancellation and two faults of the process.                             *)
EXTENDS AiWorkerClient
=============================================================================
