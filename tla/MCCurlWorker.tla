---------------------------- MODULE MCCurlWorker ----------------------------
(* Instances of CurlWorker. *)
EXTENDS CurlWorker
=============================================================================
