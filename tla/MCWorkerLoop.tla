---------------------------- MODULE MCWorkerLoop ----------------------------
(* WorkerLoop on a small instance.                                           *)
EXTENDS WorkerLoop
=============================================================================
