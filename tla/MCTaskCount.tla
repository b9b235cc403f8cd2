---------------------------- MODULE MCTaskCount ----------------------------
(* The model values of MCWorkQueue for checking TaskCount with TLC. *)
EXTENDS MCWorkQueue, TaskCount
=============================================================================
