---------------------------- MODULE MCMockWorker ----------------------------
(* Instances of MockWorker for TLC.                                        *)
EXTENDS MockWorker
=============================================================================
